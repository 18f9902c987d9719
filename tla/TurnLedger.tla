----------------------------- MODULE TurnLedger -----------------------------
(***************************************************************************)
(* What the dispatcher promises about turns, whatever runtimes, mailboxes, *)
(* retirements and restarts do behind it (D014, architecture.md: operation *)
(* states).  A turn is worked on by at most one runtime and at most once;  *)
(* an outcome is final; an uncertain turn stays uncertain and stops its    *)
(* conversation; the number of active turns is bounded.                    *)
(***************************************************************************)
EXTENDS Naturals, FiniteSets

CONSTANTS Turn, SessionOf, MaxActive

VARIABLES
    state,  \* the state of each turn
    sent    \* the requests written to native runtimes for each turn

ledger == <<state, sent>>

Working == {"dispatching", "running", "waiting"}
WorkingTurns == {t \in Turn : state[t] \in Working}
Siblings(t)  == {u \in Turn \ {t} : SessionOf[u] = SessionOf[t]}

Init ==
    /\ state = [t \in Turn |-> "absent"]
    /\ sent = [t \in Turn |-> 0]

Become(t, value) ==
    /\ state' = [state EXCEPT ![t] = value]
    /\ UNCHANGED sent

\* The owner submits a turn to a conversation without an uncertain one.
Submit(t) ==
    /\ state[t] = "absent"
    /\ \A u \in Siblings(t) : state[u] # "uncertain"
    /\ Become(t, "queued")

Withdraw(t) ==
    /\ state[t] = "queued"
    /\ \E outcome \in {"failed", "interrupted"} : Become(t, outcome)

Admit(t) ==
    /\ state[t] = "queued"
    /\ Cardinality(WorkingTurns) < MaxActive
    /\ \A u \in Siblings(t) : state[u] \notin Working
    /\ Become(t, "dispatching")

Send(t) ==
    /\ state[t] = "dispatching" /\ sent[t] = 0
    /\ \A u \in Siblings(t) : state[u] \notin Working \cup {"uncertain"}
    /\ sent' = [sent EXCEPT ![t] = 1]
    /\ UNCHANGED state

Run(t) ==
    /\ state[t] = "dispatching" /\ sent[t] = 1
    /\ Become(t, "running")

Wait(t) ==
    /\ state[t] \in Working /\ sent[t] = 1
    /\ Become(t, "waiting")

\* Only a turn that was sent succeeds or is interrupted.
Finish(t) ==
    /\ state[t] \in Working
    /\ \/ Become(t, "failed")
       \/ sent[t] = 1 /\ \E outcome \in {"succeeded", "interrupted"} : Become(t, outcome)

\* Delivery or completion cannot be established.
Lose(t) ==
    /\ state[t] \in Working
    /\ Become(t, "uncertain")

Restart ==
    /\ state' = [t \in Turn |-> IF state[t] \in Working THEN "uncertain" ELSE state[t]]
    /\ UNCHANGED sent

Next ==
    \/ \E t \in Turn : \/ Submit(t) \/ Withdraw(t) \/ Admit(t) \/ Send(t)
                       \/ Run(t) \/ Wait(t) \/ Finish(t) \/ Lose(t)
    \/ Restart

Spec == Init /\ [][Next]_ledger
=============================================================================
