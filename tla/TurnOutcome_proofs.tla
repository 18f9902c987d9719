------------------------- MODULE TurnOutcome_proofs -------------------------
(***************************************************************************)
(* What the dispatcher does to one turn: the request that carries its text *)
(* is written at most once, an uncertain turn stays uncertain, and an      *)
(* outcome is the runtime's own word.                                      *)
(***************************************************************************)
EXTENDS ConversationRuntimes_proofs

-----------------------------------------------------------------------------
(* The state of one turn, in one step.                                     *)

\* What no step does to a turn: change an uncertain one, or queue one again.
OpStep(t) == op'[t] # op[t] =>
    /\ op[t] # "uncertain" /\ op'[t] # "absent"
    /\ op'[t] = "queued" => op[t] = "absent"

\* update() leaves an uncertain turn alone and queues nothing.
LEMMA UpdatedStep ==
    ASSUME TypeInv, NEW t, NEW state \in OpState \ {"absent", "queued"},
           op' = Updated(t, state)
    PROVE  \A u \in Turn : OpStep(u)
BY DEF TypeInv, TypeOK, DurableOK, Updated, OpStep, OpState, Unsettled, Active

\* The actions that write operations.state; every other one leaves it alone.
TurnStep ==
    \/ \E t \in Turn : Accept(t) \/ CancelQueued(t) \/ SettleUncertain(t)
                       \/ TurnCompleted(t) \/ NativeRequests(t)
    \/ InterruptOperation \/ HaltQueue \/ AnswerLost \/ RefuseAuthority
    \/ AdmitReuse \/ AdmitNew \/ MarkRunning \/ FailOperation
    \/ \E absent \in SUBSET Session : Startup(absent)

\* That list is complete.
LEMMA TurnSteps == Next => TurnStep \/ UNCHANGED op
<1> USE DEF durable, rows, others
<1>1. Api => TurnStep \/ UNCHANGED op
  BY DEF Api, TurnStep, BackgroundStop, EmergencyStop
<1>2. Native => UNCHANGED op
  BY DEF Native, ProcessDies, NativeFinishes
<1>3. Mailbox => TurnStep \/ UNCHANGED op
  BY DEF Mailbox, TurnStep, Poison, TurnFinished, Inspect, Classify
<1>4. Retirement => UNCHANGED op
  BY DEF Retirement, Retire, RetireLost, RetirementConfirmed, RetirementUnconfirmed,
         Release, RetirementUncertain, SettlementLost
<1>5. Control => TurnStep \/ UNCHANGED op
  BY DEF Control, TurnStep, BeginPass, HaltRuntime, ReconcileMember, ReconcileRuntime,
         AnswerRequest, AnswerRecorded, CloseAdapter
<1>6. Dispatch => TurnStep \/ UNCHANGED op
  BY DEF Dispatch, TurnStep, Snapshot, EndPass, Consider, ConsiderCapacity, Blocked,
         Route, Evict, EvictionDone, Capture, RetireAwaited, Retired, DispatchThrows,
         Launch, SaveIdentity, Transport, Claim, Send, Acknowledge, MarkLost, Cleanup
<1>7. Failure => TurnStep \/ UNCHANGED op
  BY DEF Failure, TurnStep, PassLost, AwaitLost, AdmissionLost, ReuseLost, Crash
<1> QED BY <1>1, <1>2, <1>3, <1>4, <1>5, <1>6, <1>7 DEF Next

\* Every step is an OpStep of every turn.
LEMMA OpSteps == TypeInv /\ Next => \A u \in Turn : OpStep(u)
<1> SUFFICES ASSUME TypeInv, Next PROVE \A u \in Turn : OpStep(u)
    OBVIOUS
<1> USE DEF Active, Unsettled, Settled, OpState
<1>1. ASSUME NEW t \in Turn, Accept(t) PROVE \A u \in Turn : OpStep(u)
  BY <1>1 DEF Accept, OpStep, TypeInv, TypeOK, DurableOK
<1>2. ASSUME NEW t \in Turn, CancelQueued(t) PROVE \A u \in Turn : OpStep(u)
  BY <1>2 DEF CancelQueued, OpStep, TypeInv, TypeOK, DurableOK
<1>3. ASSUME NEW t \in Turn, SettleUncertain(t) PROVE \A u \in Turn : OpStep(u)
  BY <1>3, UpdatedStep DEF SettleUncertain
<1>4. ASSUME NEW g \in Turn, TurnCompleted(g) PROVE \A u \in Turn : OpStep(u)
  <2>1. \/ UNCHANGED op
        \/ /\ op[native[g]] \in Active
           /\ op' = [op EXCEPT ![native[g]] = FinalState(reported[native[g]])]
    BY <1>4 DEF TurnCompleted
  <2>2. FinalState(reported[native[g]]) \notin {"absent", "queued"}
    BY <1>4, ConstantsAssumption, GenTurn
    DEF TurnCompleted, Belongs, FinalState, TypeInv, TypeOK, OutsideOK
  <2> QED BY <2>1, <2>2 DEF OpStep, TypeInv, TypeOK, DurableOK
<1>5. ASSUME NEW g \in Turn, NativeRequests(g) PROVE \A u \in Turn : OpStep(u)
  BY <1>5 DEF NativeRequests, OpStep, TypeInv, TypeOK, DurableOK
<1>6. ASSUME InterruptOperation PROVE \A u \in Turn : OpStep(u)
  BY <1>6, UpdatedStep DEF InterruptOperation
<1>7. ASSUME HaltQueue PROVE \A u \in Turn : OpStep(u)
  BY <1>7 DEF HaltQueue, OpStep
<1>8. ASSUME AnswerLost PROVE \A u \in Turn : OpStep(u)
  BY <1>8, UpdatedStep DEF AnswerLost
<1>9. ASSUME RefuseAuthority PROVE \A u \in Turn : OpStep(u)
  BY <1>9, UpdatedStep DEF RefuseAuthority
<1>10. ASSUME AdmitReuse \/ AdmitNew PROVE \A u \in Turn : OpStep(u)
  <2>1. op' \in {op, Dispatching}
    BY <1>10 DEF AdmitReuse, AdmitNew
  <2> QED BY <2>1 DEF Dispatching, OpStep, TypeInv, TypeOK, DurableOK
<1>11. ASSUME MarkRunning PROVE \A u \in Turn : OpStep(u)
  BY <1>11 DEF MarkRunning, OpStep, TypeInv, TypeOK, DurableOK
<1>12. ASSUME FailOperation PROVE \A u \in Turn : OpStep(u)
  BY <1>12, UpdatedStep DEF FailOperation, FailedState
<1>13. ASSUME NEW absent \in SUBSET Session, Startup(absent) PROVE \A u \in Turn : OpStep(u)
  <2>1. op' = [t \in Turn |-> Recovered(t)]
    BY <1>13 DEF Startup
  <2> QED BY <2>1 DEF Recovered, OpStep
<1>14. ASSUME UNCHANGED op PROVE \A u \in Turn : OpStep(u)
  BY <1>14 DEF OpStep
<1> QED BY TurnSteps, <1>1, <1>2, <1>3, <1>4, <1>5, <1>6, <1>7, <1>8, <1>9, <1>10,
          <1>11, <1>12, <1>13, <1>14 DEF TurnStep

(***************************************************************************)
(* An uncertain turn is never relabelled and never dispatched again: many  *)
(* places of main.ts write operations.state, some through update() and     *)
(* some around it, and none of them touches an uncertain turn.             *)
(***************************************************************************)
THEOREM UncertaintyKept == Spec => UncertainFinal
<1>1. TypeInv /\ [Next]_vars =>
        [\A t \in Turn : op[t] = "uncertain" => op'[t] = op[t]]_vars
  BY OpSteps DEF OpStep
<1> QED BY <1>1, TypeInit, TypeNext, PTL DEF Spec, UncertainFinal

-----------------------------------------------------------------------------
(* The turn the tick is dispatching.                                       *)

Choosing == {"busy", "route", "evict", "capture", "admit"}
Bringing == {"prepare", "spawned", "saved", "claim", "send"}
Awaiting == {"retire", "await"}

\* The turn was chosen and its request is not written yet; it was admitted;
\* the request may have been written and the turn is still being finished.
Chosen   == \/ at \in Choosing \cup Bringing
            \/ at \in Awaiting /\ wait.next \in {"evict", "replace"}
Admitted == at \in Bringing
Written  == \/ at \in {"ack", "mark", "fail", "cleanup"}
            \/ at \in Awaiting /\ wait.next = "dispatch"

\* The tick walks its candidates; it carries out an emergency stop.
Walking  == at = "dispatch" \/ Chosen \/ Written
Halting  == \/ at \in {"halt", "interrupt"}
            \/ at \in Awaiting /\ wait.next = "halt"

(***************************************************************************)
(* SentOnce is not inductive: that the turn the tick is about to send was  *)
(* never sent follows from where the tick took it from.  A candidate was   *)
(* queued in the snapshot, and only the turn in hand may have been sent    *)
(* since; it leaves the candidates before the next one is considered.      *)
(***************************************************************************)
SentInv ==
    /\ SentOnce
    /\ Chosen => cur \in cands
    /\ \A t \in cands : /\ op[t] # "absent"
                        /\ sent[t] = 0 \/ (t = cur /\ Written)
    /\ Admitted => op[cur] # "queued"

\* The tick goes on with the turn in hand ...
Stays == /\ UNCHANGED <<cands, cur, sent>>
         /\ Chosen' => Chosen
         /\ Admitted' => Admitted
         /\ Written => Written'
         /\ Walking => Walking'
         /\ Halting' => Halting

\* ... or has none afterwards, and forgets one that may have been sent.
Leaves == /\ UNCHANGED sent
          /\ ~Chosen'
          /\ \A t \in cands' : t \in cands /\ (t = cur => ~Written)
          /\ cands' # {} /\ Walking => at' = "dispatch"
          /\ Halting' => Halting \/ emergency

\* The ways a stage of the tick ends.
LEMMA SkipLeaves == TypeInv /\ Skip /\ sent' = sent => Leaves
BY DEF Skip, Leaves, Chosen, Written, Walking, Halting, Choosing, Bringing, Awaiting

LEMMA ThrowStays == Throw /\ sent' = sent => Stays
BY DEF Throw, Stays, Chosen, Admitted, Written, Walking, Halting, Choosing,
         Bringing, Awaiting

LEMMA AbandonLeaves == AbandonPass /\ sent' = sent => Leaves
BY DEF AbandonPass, Leaves, Chosen, Written, Walking, Halting, Choosing, Bringing, Awaiting

\* The ways an awaited retirement ends.
LEMMA ContinueMoves ==
    ASSUME TypeInv, at \in Awaiting, Continue(wait.next), sent' = sent
    PROVE  Stays \/ Leaves
<1>1. wait.next \in {"halt", "control", "evict", "replace", "dispatch"}
  BY WaitType DEF TypeInv, TypeOK, TickOK, StageOK, Awaiting, NextStage
<1>2. CASE wait.next = "dispatch"
  BY <1>2, SkipLeaves DEF Continue
<1>3. CASE wait.next # "dispatch"
  BY <1>1, <1>3 DEF Continue, Stays, Chosen, Admitted, Written, Walking, Halting, Choosing,
         Bringing, Awaiting, dispatch
<1> QED BY <1>2, <1>3

LEMMA NotRetiredMoves ==
    ASSUME TypeInv, at \in Awaiting, NotRetired, sent' = sent
    PROVE  Stays \/ Leaves
BY SkipLeaves, ContinueMoves DEF NotRetired

LEMMA AwaitRejectsMoves ==
    ASSUME at \in Awaiting, AwaitRejects, sent' = sent
    PROVE  Stays \/ Leaves
<1>1. CASE wait.next = "replace"
  BY <1>1 DEF AwaitRejects, Stays, Chosen, Admitted, Written, Walking, Halting, Choosing,
         Bringing, Awaiting
<1>2. CASE wait.next # "replace"
  BY <1>2, AbandonLeaves DEF AwaitRejects
<1> QED BY <1>1, <1>2

\* Nothing but the tick and a crash moves the tick or writes a request.
LEMMA NotTheTick == Api \/ Native \/ Mailbox \/ Retirement => UNCHANGED <<tick, sent>>
<1> USE DEF outside, history
<1>1. Api => UNCHANGED <<tick, sent>>
  BY DEF Api, Accept, BackgroundStop, EmergencyStop
<1>2. Native => UNCHANGED <<tick, sent>>
  BY DEF Native, ProcessDies, NativeFinishes
<1>3. Mailbox => UNCHANGED <<tick, sent>>
  BY DEF Mailbox, Poison, SettleUncertain, TurnCompleted, TurnFinished, NativeRequests,
         Inspect, Classify
<1>4. Retirement => UNCHANGED <<tick, sent>>
  BY DEF Retirement, Retire, RetireLost, RetirementConfirmed, RetirementUnconfirmed,
         Release, RetirementUncertain, SettlementLost
<1> QED BY <1>1, <1>2, <1>3, <1>4

\* The control part never has a turn to dispatch in hand.
LEMMA ControlLeaves == TypeInv /\ Control => Leaves
<1> SUFFICES ASSUME TypeInv, Control PROVE Leaves
    OBVIOUS
<1> USE DEF Leaves, Chosen, Written,  Choosing, Bringing, Awaiting, Walking,
            Halting, outside, history, tick, register, dispatch, AwaitRetire
<1>1. ASSUME BeginPass PROVE Leaves
  BY <1>1 DEF BeginPass
<1>2. ASSUME NEW s \in Session, HaltRuntime(s) PROVE Leaves
  BY <1>2 DEF HaltRuntime
<1>3. ASSUME InterruptOperation PROVE Leaves
  BY <1>3 DEF InterruptOperation
<1>4. ASSUME HaltQueue PROVE Leaves
  BY <1>4 DEF HaltQueue
<1>5. ASSUME NEW s \in Session, ReconcileMember(s) PROVE Leaves
  BY <1>5 DEF ReconcileMember
<1>6. ASSUME NEW s \in Session, NEW c \in Classification, NEW expired \in BOOLEAN,
             ReconcileRuntime(s, c, expired)
      PROVE  Leaves
  BY <1>6 DEF ReconcileRuntime
<1>7. ASSUME NEW s \in Session, NEW delivered \in BOOLEAN, AnswerRequest(s, delivered)
      PROVE  Leaves
  BY <1>7 DEF AnswerRequest
<1>8. ASSUME AnswerRecorded \/ AnswerLost \/ CloseAdapter PROVE Leaves
  BY <1>8 DEF AnswerRecorded, AnswerLost, CloseAdapter
<1>9. ASSUME NEW t \in Turn, CancelQueued(t) PROVE Leaves
  BY <1>9 DEF CancelQueued
<1> HIDE DEF Leaves
<1> QED BY <1>1, <1>2, <1>3, <1>4, <1>5, <1>6, <1>7, <1>8, <1>9 DEF Control

\* The steps of the dispatch loop that do more than stay or leave.
Special == Snapshot \/ Consider \/ AdmitReuse \/ AdmitNew \/ Send

\* The dispatch loop.
LEMMA DispatchMoves == TypeInv /\ Dispatch => Stays \/ Leaves \/ Special
<1> SUFFICES ASSUME TypeInv, Dispatch PROVE Stays \/ Leaves \/ Special
    OBVIOUS
<1> USE DEF outside, history, tick, register, dispatch
<1>1. ASSUME Snapshot \/ Consider \/ AdmitReuse \/ AdmitNew \/ Send PROVE Special
  BY <1>1 DEF Special
<1>2. ASSUME EndPass PROVE Leaves
  BY <1>2 DEF EndPass, Leaves, Chosen, Written, Walking, Halting, Choosing, Bringing, Awaiting
<1>3. ASSUME Blocked \/ RefuseAuthority \/ MarkRunning PROVE Leaves
  BY <1>3, SkipLeaves DEF Blocked, RefuseAuthority, MarkRunning
<1>4. ASSUME ConsiderCapacity \/ Route \/ EvictionDone PROVE Stays \/ Leaves
  <2>1. \/ Skip /\ sent' = sent
        \/ /\ UNCHANGED <<cands, cur, sent>>
           /\ at \in Choosing /\ at' \in Choosing
    BY <1>4 DEF ConsiderCapacity, Route, EvictionDone, Choosing
  <2> QED BY <2>1, SkipLeaves DEF Stays, Chosen, Admitted, Written, Walking, Halting, Choosing,
         Bringing, Awaiting
<1>5. ASSUME NEW v \in Session, Evict(v) PROVE Stays
  BY <1>5 DEF Evict, AwaitRetire, Stays, Chosen, Admitted, Written, Walking, Halting, Choosing,
         Bringing, Awaiting
<1>6. ASSUME NEW replace \in BOOLEAN, Capture(replace) PROVE Stays
  BY <1>6 DEF Capture, AwaitRetire, Stays, Chosen, Admitted, Written, Walking, Halting, Choosing,
         Bringing, Awaiting
<1>7. ASSUME NEW c \in Classification, RetireAwaited(c) PROVE Stays \/ Leaves
  <2>1. \/ NotRetired
        \/ at' = "await" /\ UNCHANGED <<cands, register>>
    BY <1>7 DEF RetireAwaited
  <2>2. at = "retire" /\ sent' = sent
    BY <1>7 DEF RetireAwaited
  <2>3. CASE NotRetired
    BY <2>2, <2>3, NotRetiredMoves DEF Awaiting
  <2>4. CASE at' = "await" /\ UNCHANGED <<cands, register>>
    BY <2>2, <2>4 DEF Stays, Chosen, Admitted, Written, Walking, Halting, Choosing,
         Bringing, Awaiting
  <2> QED BY <2>1, <2>3, <2>4
<1>8. ASSUME Retired PROVE Stays \/ Leaves
  BY <1>8, ContinueMoves, NotRetiredMoves DEF Retired, Awaiting
<1>9. ASSUME DispatchThrows \/ MarkLost PROVE Stays
  BY <1>9, ThrowStays DEF DispatchThrows, MarkLost
<1>10. ASSUME Launch \/ SaveIdentity \/ Transport \/ Claim PROVE Stays
  <2>1. \/ Throw /\ sent' = sent
        \/ /\ UNCHANGED <<cands, cur, sent>>
           /\ at \in Bringing /\ at' \in Bringing
    BY <1>10 DEF Launch, SaveIdentity, Transport, Claim, Bringing
  <2> QED BY <2>1, ThrowStays DEF Stays, Chosen, Admitted, Written, Walking, Halting, Choosing,
         Bringing, Awaiting
<1>11. ASSUME NEW answered \in BOOLEAN, Acknowledge(answered) PROVE Stays
  <2>1. \/ Throw /\ sent' = sent
        \/ UNCHANGED <<cands, cur, sent>> /\ at' = "mark"
    BY <1>11 DEF Acknowledge
  <2> QED BY <2>1, ThrowStays DEF Stays, Chosen, Admitted, Written, Walking, Halting, Choosing,
         Bringing, Awaiting
<1>12. ASSUME FailOperation PROVE Stays
  BY <1>12 DEF FailOperation, Stays, Chosen, Admitted, Written, Walking, Halting, Choosing,
         Bringing, Awaiting
<1>13. ASSUME Cleanup PROVE Stays \/ Leaves
  <2>1. \/ Skip /\ sent' = sent
        \/ /\ UNCHANGED <<cands, cur, sent>>
           /\ at' = "retire" /\ wait'.next = "dispatch"
    BY <1>13 DEF Cleanup, AwaitRetire
  <2> QED BY <2>1, SkipLeaves DEF Stays, Chosen, Admitted, Written, Walking, Halting, Choosing,
         Bringing, Awaiting
<1> QED BY <1>1, <1>2, <1>3, <1>4, <1>5, <1>6, <1>7, <1>8, <1>9, <1>10, <1>11, <1>12,
          <1>13 DEF Dispatch

\* Every step of the dispatcher.
LEMMA TickMoves == TypeInv /\ Next => Stays \/ Leaves \/ Special
<1> SUFFICES ASSUME TypeInv, Next PROVE Stays \/ Leaves \/ Special
    OBVIOUS
<1> USE DEF outside, history, tick, register, dispatch
<1>1. CASE UNCHANGED <<tick, sent>>
  BY <1>1 DEF Stays, Chosen, Admitted, Written, Walking, Halting
<1>2. CASE Control
  BY <1>2, ControlLeaves
<1>3. CASE Dispatch
  BY <1>3, DispatchMoves
<1>4. CASE Failure
  <2>1. ASSUME PassLost \/ Crash PROVE Leaves
    BY <2>1, AbandonLeaves DEF PassLost, Crash
  <2>2. ASSUME AwaitLost \/ AdmissionLost PROVE Stays \/ Leaves
    BY <2>2, AwaitRejectsMoves DEF AwaitLost, AdmissionLost, Awaiting
  <2>3. ASSUME NEW absent \in SUBSET Session, Startup(absent) PROVE UNCHANGED <<tick, sent>>
    BY <2>3 DEF Startup
  <2>4. ASSUME ReuseLost PROVE Stays
    BY <2>4, ThrowStays DEF ReuseLost
  <2> QED BY <1>1, <1>4, <2>1, <2>2, <2>3, <2>4 DEF Failure
<1> QED BY NotTheTick, <1>1, <1>2, <1>3, <1>4 DEF Next

\* SentInv is inductive.
LEMMA SentStep == TypeInv /\ SentInv /\ Next => SentInv'
<1> SUFFICES ASSUME TypeInv, SentInv, Next PROVE SentInv'
    OBVIOUS
<1>1. \A t \in Turn : OpStep(t)
  BY OpSteps
<1>2. cur \in cands => cur \in Turn
  BY DEF TypeInv, TypeOK, TickOK
<1>3. cands \subseteq Turn /\ op \in [Turn -> OpState] /\ sent \in [Turn -> Nat]
  BY DEF TypeInv, TypeOK, TickOK, DurableOK, OutsideOK
<1> USE <1>1, <1>2, <1>3
<1>4. CASE Stays
  <2>1. SentOnce'
    BY <1>4 DEF Stays, SentInv, SentOnce, OpStep
  <2>2. Chosen' => cur' \in cands'
    BY <1>4 DEF Stays, SentInv
  <2>3. \A t \in cands' : op'[t] # "absent" /\ (sent'[t] = 0 \/ (t = cur' /\ Written'))
    BY <1>4 DEF Stays, SentInv, OpStep
  <2>4. Admitted' => op'[cur'] # "queued"
    BY <1>4 DEF Stays, SentInv, OpStep, Admitted, Chosen
  <2> QED BY <2>1, <2>2, <2>3, <2>4 DEF SentInv
<1>5. CASE Leaves
  <2>1. SentOnce'
    BY <1>5 DEF Leaves, SentInv, SentOnce, OpStep
  <2>2. ~Chosen' /\ ~Admitted'
    BY <1>5 DEF Leaves, Chosen, Admitted
  <2>3. \A t \in cands' : op'[t] # "absent" /\ sent'[t] = 0
    BY <1>5 DEF Leaves, SentInv, OpStep
  <2> QED BY <2>1, <2>2, <2>3 DEF SentInv
<1>6. CASE Snapshot
  BY <1>6 DEF Snapshot, durable, outside, history, SentInv, SentOnce, Chosen, Admitted,
              Choosing, Bringing, Awaiting
<1>7. CASE Consider
  BY <1>7 DEF Consider, durable, outside, history, SentInv, SentOnce, Chosen, Admitted,
              Written, Choosing, Bringing, Awaiting
<1>8. CASE AdmitReuse \/ AdmitNew
  <2>1. at = "admit" /\ sent' = sent /\ cur \in cands
    BY <1>8 DEF AdmitReuse, AdmitNew, outside, history, SentInv, Chosen, Choosing
  <2>2. \/ Skip \/ Throw
        \/ UNCHANGED <<cands, cur>> /\ at' \in Bringing /\ op' = Dispatching
    BY <1>8 DEF AdmitReuse, AdmitNew, Bringing, register, dispatch
  <2>3. CASE Skip \/ Throw
    BY <1>4, <1>5, <2>1, <2>3, SkipLeaves, ThrowStays
  <2>4. CASE UNCHANGED <<cands, cur>> /\ at' \in Bringing /\ op' = Dispatching
    <3>1. SentOnce'
      BY <2>1 DEF SentInv, SentOnce, OpStep
    <3>2. \A t \in cands : op'[t] # "absent" /\ sent'[t] = 0
      BY <2>1 DEF SentInv, OpStep, Written, Awaiting
    <3>3. op'[cur] # "queued"
      BY <2>1, <2>4 DEF Dispatching
    <3> QED BY <2>1, <2>4, <3>1, <3>2, <3>3 DEF SentInv
  <2> QED BY <2>2, <2>3, <2>4
<1>9. CASE Send
  <2>1. at = "send" /\ op' = op /\ cur \in cands /\ sent[cur] = 0
        /\ op[cur] \notin {"absent", "queued"}
    BY <1>9 DEF Send, durable, SentInv, Chosen, Admitted, Written, Bringing, Awaiting
  <2>2. CASE Throw /\ sent' = sent
    BY <1>4, <2>2, ThrowStays
  <2>3. CASE /\ sent' = [sent EXCEPT ![cur] = @ + 1]
             /\ at' = "ack" /\ UNCHANGED <<cands, register>>
    <3>1. cur' = cur /\ cands' = cands /\ at' = "ack" /\ sent'[cur] = 1
          /\ \A t \in Turn : t # cur => sent'[t] = sent[t]
      BY <2>1, <2>3 DEF register, dispatch
    <3>2. SentOnce'
      BY <2>1, <3>1 DEF SentInv, SentOnce
    <3>3. ~Chosen' /\ ~Admitted' /\ Written'
      BY <3>1 DEF Chosen, Admitted, Written, Choosing, Bringing, Awaiting
    <3>4. \A t \in cands : op[t] # "absent" /\ (sent'[t] = 0 \/ t = cur)
      BY <2>1, <3>1 DEF SentInv
    <3> QED BY <2>1, <3>1, <3>2, <3>3, <3>4 DEF SentInv
  <2> QED BY <1>9, <2>2, <2>3 DEF Send
<1> QED BY TickMoves, <1>4, <1>5, <1>6, <1>7, <1>8, <1>9 DEF Special

\* It holds at first and is kept.
LEMMA SentStable == TypeInv /\ SentInv /\ [Next]_vars => SentInv'
<1>1. CASE UNCHANGED vars
  BY <1>1 DEF vars, durable, tick, register, dispatch, outside, history, SentInv,
              SentOnce, Chosen, Admitted, Written
<1> QED BY <1>1, SentStep

LEMMA SentInit == Init => SentInv
BY DEF Init, SentInv, SentOnce, Chosen, Admitted, Choosing, Bringing, Awaiting

(***************************************************************************)
(* A turn's text is written at most once, whatever the number of turns,    *)
(* conversations, crashes and failed transactions, and whatever the        *)
(* processes do: a turn that left the queue never returns to it.           *)
(***************************************************************************)
THEOREM SendsOnce == Spec => []SentOnce
<1>1. SentInv => SentOnce
  BY DEF SentInv
<1> QED BY <1>1, TypeInit, TypeNext, SentInit, SentStable, PTL DEF Spec

-----------------------------------------------------------------------------
(* Outcomes.                                                               *)

(***************************************************************************)
(* Why an interrupted turn that was sent was interrupted by its runtime or *)
(* by the emergency stop.  The other two writers, the cancellation of a    *)
(* queued turn and the emergency stop's sweep of the queue, reach turns    *)
(* that were not sent; the turn in hand is not one of them, or it could be *)
(* sent afterwards.                                                        *)
(***************************************************************************)
HonestInv ==
    /\ HonestOutcome
    /\ Halting => emergency
    /\ cands # {} => Walking
    /\ \A t \in cands : sent[t] = 0 => op[t] # "interrupted"
    /\ \A g \in Turn : native[g] # 0 => sent[native[g]] > 0

\* Who ends a turn, and how.
LEMMA OutcomeSteps ==
    TypeInv /\ Next => \A t \in Turn : op'[t] # op[t] =>
        /\ op'[t] = "succeeded" => reported[t] = "completed"
        /\ op'[t] = "interrupted" =>
             \/ reported[t] = "interrupted" /\ \E g \in Turn : native[g] = t
             \/ at = "interrupt"
             \/ op[t] = "queued" /\ at \in {"halt", "control"}
<1> DEFINE Fair(t) == op'[t] # op[t] =>
        /\ op'[t] = "succeeded" => reported[t] = "completed"
        /\ op'[t] = "interrupted" =>
             \/ reported[t] = "interrupted" /\ \E g \in Turn : native[g] = t
             \/ at = "interrupt"
             \/ op[t] = "queued" /\ at \in {"halt", "control"}
<1> SUFFICES ASSUME TypeInv, Next PROVE \A t \in Turn : Fair(t)
    OBVIOUS
<1>0. op \in [Turn -> OpState]
  BY DEF TypeInv, TypeOK, DurableOK
<1>1. ASSUME NEW u, NEW state \in {"failed", "uncertain"}, op' = Updated(u, state)
      PROVE  \A t \in Turn : Fair(t)
  BY <1>0, <1>1 DEF Updated
<1>2. ASSUME NEW g \in Turn, TurnCompleted(g) PROVE \A t \in Turn : Fair(t)
  <2>1. \/ UNCHANGED op
        \/ op' = [op EXCEPT ![native[g]] = FinalState(reported[native[g]])]
    BY <1>2 DEF TurnCompleted
  <2>2. native[g] \in Turn /\ reported[native[g]] \in {"completed", "failed", "interrupted"}
    BY <1>2, ConstantsAssumption, GenTurn DEF TurnCompleted, Belongs, TypeInv, TypeOK, OutsideOK
  <2> QED BY <1>0, <2>1, <2>2 DEF FinalState
<1>3. ASSUME InterruptOperation PROVE \A t \in Turn : Fair(t)
  BY <1>3 DEF InterruptOperation, Updated, OpState
<1>4. ASSUME HaltQueue PROVE \A t \in Turn : Fair(t)
  BY <1>4 DEF HaltQueue
<1>5. ASSUME NEW u \in Turn, CancelQueued(u) PROVE \A t \in Turn : Fair(t)
  BY <1>0, <1>5 DEF CancelQueued
<1>6. ASSUME NEW u \in Turn, Accept(u) \/ NativeRequests(u) PROVE \A t \in Turn : Fair(t)
  BY <1>0, <1>6 DEF Accept, NativeRequests
<1>7. ASSUME AdmitReuse \/ AdmitNew \/ MarkRunning PROVE \A t \in Turn : Fair(t)
  BY <1>0, <1>7 DEF AdmitReuse, AdmitNew, MarkRunning, Dispatching
<1>8. ASSUME NEW absent \in SUBSET Session, Startup(absent) PROVE \A t \in Turn : Fair(t)
  <2>1. op' = [t \in Turn |-> Recovered(t)]
    BY <1>8 DEF Startup
  <2> QED BY <2>1 DEF Recovered
<1>9. ASSUME NEW u \in Turn, SettleUncertain(u) PROVE \A t \in Turn : Fair(t)
  BY <1>1, <1>9 DEF SettleUncertain
<1>10. ASSUME AnswerLost \/ RefuseAuthority \/ FailOperation PROVE \A t \in Turn : Fair(t)
  BY <1>1, <1>10 DEF AnswerLost, RefuseAuthority, FailOperation, FailedState
<1>11. ASSUME UNCHANGED op PROVE \A t \in Turn : Fair(t)
  BY <1>11
<1> HIDE DEF Fair
<1>12. \A t \in Turn : Fair(t)
  BY TurnSteps, <1>2, <1>3, <1>4, <1>5, <1>6, <1>7, <1>8, <1>9, <1>10, <1>11 DEF TurnStep
<1> QED BY <1>12

\* What is never taken back: an announced status, the emergency stop, a request;
\* and a transport carries the events of a turn whose request it got.
Kept == /\ \A t \in Turn : reported[t] # "none" => reported'[t] = reported[t]
        /\ emergency => emergency'
        /\ \A g \in Turn : native'[g] \in {0, native[g]} \/ (Send /\ native'[g] = cur /\ at' = "ack")

\* Every step keeps them.
LEMMA KeptSteps == TypeInv /\ Next => Kept
<1> SUFFICES ASSUME TypeInv, Next PROVE Kept
    OBVIOUS
<1>0. reported \in [Turn -> NativeStatus \cup {"none"}] /\ native \in [Turn -> Gen]
  BY DEF TypeInv, TypeOK, OutsideOK
<1> USE DEF durable, rows, others, outside, history
<1>1. ASSUME NEW g \in Turn, PoisonEffect(g), UNCHANGED <<reported, emergency>> PROVE Kept
  BY <1>0, <1>1 DEF PoisonEffect, Kept
<1>2. CASE Api
  BY <1>2 DEF Api, Accept, BackgroundStop, EmergencyStop, Kept
<1>3. CASE Native
  BY <1>0, <1>3 DEF Native, ProcessDies, NativeFinishes, Kept
<1>4. CASE Mailbox
  <2>1. ASSUME NEW g \in Turn, Poison(g) PROVE Kept
    BY <1>1, <2>1 DEF Poison
  <2>2. ASSUME NEW g \in Turn, TurnCompleted(g) PROVE Kept
    BY <1>0, <2>2 DEF TurnCompleted, Kept
  <2>3. ASSUME NEW g \in Turn,
               SettleUncertain(g) \/ TurnFinished(g) \/ NativeRequests(g) \/ Classify(g)
        PROVE  Kept
    BY <2>3 DEF SettleUncertain, TurnFinished, NativeRequests, Classify, Kept
  <2>4. ASSUME NEW g \in Turn, NEW c \in Classification, Inspect(g, c) PROVE Kept
    BY <2>4 DEF Inspect, Kept
  <2> QED BY <1>4, <2>1, <2>2, <2>3, <2>4 DEF Mailbox
<1>5. CASE Retirement
  BY <1>5 DEF Retirement, Retire, RetireLost, RetirementConfirmed, RetirementUnconfirmed,
              Release, RetirementUncertain, SettlementLost, Kept
<1>6. CASE Control
  <2>1. ASSUME CloseAdapter PROVE Kept
    <3>1. wait.gen \in Turn
      BY <2>1 DEF CloseAdapter, TypeInv, StageOK, AnswerStages
    <3>2. \/ PoisonEffect(wait.gen) /\ UNCHANGED <<reported, emergency>>
          \/ UNCHANGED <<reported, emergency, native>>
      BY <2>1 DEF CloseAdapter
    <3> QED BY <1>1, <3>1, <3>2 DEF Kept
  <2>2. CloseAdapter \/ UNCHANGED <<reported, emergency, native>>
    BY <1>6 DEF Control, BeginPass, HaltRuntime, InterruptOperation, HaltQueue,
                ReconcileMember, ReconcileRuntime, AnswerRequest, AnswerRecorded,
                AnswerLost, CancelQueued
  <2> QED BY <2>1, <2>2 DEF Kept
<1>7. CASE Dispatch
  <2>1. ASSUME Send PROVE Kept
    BY <1>0, <2>1 DEF Send, Kept
  <2>2. Send \/ UNCHANGED <<reported, emergency, native>>
    BY <1>7 DEF Dispatch, Snapshot, EndPass, Consider, ConsiderCapacity, Blocked,
                RefuseAuthority, Route, Evict, EvictionDone, Capture, RetireAwaited,
                Retired, DispatchThrows, AdmitReuse, AdmitNew, Launch, SaveIdentity,
                Transport, Claim, Acknowledge, MarkRunning, MarkLost, FailOperation,
                Cleanup
  <2> QED BY <2>1, <2>2 DEF Kept
<1>8. CASE Failure
  <2>1. ASSUME Crash PROVE Kept
    BY <2>1 DEF Crash, Kept
  <2>2. Crash \/ UNCHANGED <<reported, emergency, native>>
    BY <1>8 DEF Failure, PassLost, AwaitLost, AdmissionLost, ReuseLost, Startup
  <2> QED BY <2>1, <2>2 DEF Kept
<1> QED BY <1>2, <1>3, <1>4, <1>5, <1>6, <1>7, <1>8 DEF Next

\* Where the special steps lead; only the snapshot adds candidates, and only
\* Send writes a request.
LEMMA SpecialMoves ==
    Special => /\ at' \in {"dispatch", "busy", "fail", "ack"} \cup Bringing
               /\ cands' \subseteq cands \/ (Snapshot /\ UNCHANGED <<op, sent>>)
               /\ Send \/ sent' = sent
<1> USE DEF outside, history, durable, register, dispatch
<1>1. ASSUME Snapshot \/ Consider \/ Send
      PROVE  /\ at' \in {"dispatch", "busy", "fail", "ack"}
             /\ cands' \subseteq cands \/ (Snapshot /\ UNCHANGED <<op, sent>>)
             /\ Send \/ sent' = sent
  BY <1>1 DEF Snapshot, Consider, Send, Throw
<1>2. ASSUME AdmitReuse \/ AdmitNew
      PROVE  /\ at' \in {"dispatch", "fail"} \cup Bringing
             /\ cands' \subseteq cands
             /\ sent' = sent
  BY <1>2 DEF AdmitReuse, AdmitNew, Skip, Throw, Bringing
<1> QED BY <1>1, <1>2 DEF Special

\* Only Send writes a request, for the turn in hand.
LEMMA SentGrows ==
    TypeInv /\ Next => \A t \in Turn :
        \/ sent'[t] = sent[t]
        \/ Send /\ t = cur /\ at = "send" /\ sent'[t] > 0
<1> SUFFICES ASSUME TypeInv, Next,
                    NEW t \in Turn, sent'[t] # sent[t]
             PROVE  Send /\ t = cur /\ at = "send" /\ sent'[t] > 0
    OBVIOUS
<1>1. sent \in [Turn -> Nat]
  BY DEF TypeInv, TypeOK, OutsideOK
<1>2. Send
  BY TickMoves, SpecialMoves DEF Stays, Leaves
<1>3. at = "send" /\ sent' \in {sent, [sent EXCEPT ![cur] = @ + 1]}
  BY <1>2 DEF Send
<1> QED BY <1>1, <1>2, <1>3

\* HonestInv is inductive, relative to SentInv.
LEMMA HonestStep == TypeInv /\ SentInv /\ HonestInv /\ Next => HonestInv'
<1> SUFFICES ASSUME TypeInv, SentInv, HonestInv, Next PROVE HonestInv'
    OBVIOUS
<1>1. Kept
  BY KeptSteps
<1>2. sent \in [Turn -> Nat] /\ cands \subseteq Turn /\ native \in [Turn -> Gen]
  BY DEF TypeInv, TypeOK, TickOK, OutsideOK
<1>3. Stays \/ Leaves \/ Special
  BY TickMoves
<1>4. cands' \subseteq cands \/ (Snapshot /\ UNCHANGED <<op, sent>>)
  BY <1>3, SpecialMoves DEF Stays, Leaves
<1>5. at \in {"halt", "interrupt", "control"} => cands = {}
  BY DEF HonestInv, Walking, Chosen, Written, Choosing, Bringing, Awaiting
<1>6. HonestOutcome'
  <2> SUFFICES ASSUME NEW t \in Turn
               PROVE  /\ op'[t] = "succeeded" => reported'[t] = "completed"
                      /\ op'[t] = "interrupted" /\ sent'[t] > 0 =>
                           reported'[t] = "interrupted" \/ emergency'
      BY DEF HonestOutcome
  <2>1. CASE op'[t] = op[t] /\ sent'[t] = sent[t]
    BY <1>1, <2>1 DEF HonestInv, HonestOutcome, Kept
  <2>2. CASE op'[t] = op[t] /\ sent'[t] # sent[t]
    <3>1. t = cur /\ at = "send"
      BY <2>2, SentGrows
    <3>2. op[t] # "interrupted"
      BY <3>1 DEF HonestInv, SentInv, Chosen, Written, Bringing, Awaiting
    <3> QED BY <1>1, <2>2, <3>2 DEF HonestInv, HonestOutcome, Kept
  <2>3. CASE op'[t] # op[t]
    <3>1. op'[t] = "succeeded" => reported[t] = "completed"
      BY <2>3, OutcomeSteps
    <3>2. ASSUME op'[t] = "interrupted", sent'[t] > 0
          PROVE  reported[t] = "interrupted" \/ emergency
      <4>1. \/ reported[t] = "interrupted"
            \/ at = "interrupt"
            \/ op[t] = "queued" /\ at \in {"halt", "control"}
        BY <2>3, <3>2, OutcomeSteps
      <4>2. op[t] = "queued" => sent[t] = 0
        BY DEF SentInv, SentOnce
      <4>3. at = "interrupt" => emergency
        BY DEF HonestInv, Halting
      <4> QED BY <1>2, <3>2, <4>1, <4>2, <4>3, SentGrows
    <3> QED BY <1>1, <3>1, <3>2 DEF Kept
  <2> QED BY <2>1, <2>2, <2>3
<1>7. Halting' => emergency'
  BY <1>1, <1>3, SpecialMoves
  DEF HonestInv, Kept, Stays, Leaves, Halting, Bringing, Awaiting
<1>8. cands' # {} => Walking'
  <2>1. CASE Stays
    BY <2>1 DEF Stays, HonestInv
  <2>2. CASE Leaves
    BY <2>2 DEF Leaves, HonestInv, Walking
  <2>3. CASE Special
    BY <2>3, SpecialMoves DEF Walking, Chosen, Written, Choosing
  <2> QED BY <1>3, <2>1, <2>2, <2>3
<1>9. \A t \in cands' : sent'[t] = 0 => op'[t] # "interrupted"
  <2> SUFFICES ASSUME NEW t \in cands', sent'[t] = 0, op'[t] = "interrupted"
               PROVE  FALSE
      OBVIOUS
  <2>1. CASE Snapshot /\ UNCHANGED <<op, sent>>
    BY <2>1 DEF Snapshot
  <2>2. CASE cands' \subseteq cands
    <3>1. t \in cands /\ t \in Turn /\ sent[t] = 0
      BY <1>2, <2>2, SentGrows
    <3>2. op[t] # "interrupted" /\ at \notin {"halt", "interrupt", "control"}
      BY <1>5, <3>1 DEF HonestInv
    <3>3. \E g \in Turn : native[g] = t
      BY <3>1, <3>2, OutcomeSteps
    <3> QED BY <3>1, <3>3, GenTurn, ConstantsAssumption DEF HonestInv, Turn
  <2> QED BY <1>4, <2>1, <2>2
<1>10. \A g \in Turn : native'[g] # 0 => sent'[native'[g]] > 0
  <2> SUFFICES ASSUME NEW g \in Turn, native'[g] # 0 PROVE sent'[native'[g]] > 0
      OBVIOUS
  <2>1. CASE native'[g] = native[g]
    <3>1. native[g] \in Turn /\ sent[native[g]] > 0
      BY <1>2, <2>1, GenTurn DEF HonestInv
    <3> QED BY <2>1, <3>1, SentGrows
  <2>2. CASE Send /\ native'[g] = cur /\ at' = "ack"
    <3>1. cur \in Turn /\ sent' = [sent EXCEPT ![cur] = @ + 1]
      BY <2>2 DEF Send, Throw, TypeInv, StageOK, TurnStages
    <3> QED BY <1>2, <2>2, <3>1
  <2> QED BY <1>1, <2>1, <2>2 DEF Kept
<1> QED BY <1>6, <1>7, <1>8, <1>9, <1>10 DEF HonestInv

\* It holds at first.
LEMMA HonestInit == Init => HonestInv
BY ConstantsAssumption DEF Init, HonestInv, HonestOutcome, Halting, Awaiting

(***************************************************************************)
(* A turn succeeds only on its runtime's word, and a turn that was sent is *)
(* interrupted only on that word or by the emergency stop.                 *)
(***************************************************************************)
THEOREM OutcomesAreHonest == Spec => []HonestOutcome
<1>1. TypeInv /\ SentInv /\ HonestInv /\ [Next]_vars => HonestInv'
  <2>1. CASE UNCHANGED vars
    BY <2>1 DEF vars, durable, tick, register, dispatch, outside, history, HonestInv,
                HonestOutcome, Halting, Walking, Chosen, Written
  <2> QED BY <2>1, HonestStep
<1>2. HonestInv => HonestOutcome
  BY DEF HonestInv
<1> QED BY <1>1, <1>2, TypeInit, TypeNext, SentInit, SentStable, HonestInit, PTL DEF Spec

=============================================================================
