---------------------------- MODULE MCSchedules ----------------------------
EXTENDS Schedules

MCConfig == {[once |-> 0, catchUp |-> TRUE, alone |-> FALSE],
             [once |-> 1, catchUp |-> FALSE, alone |-> TRUE]}
=============================================================================
