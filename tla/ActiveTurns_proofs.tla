-------------------------- MODULE ActiveTurns_proofs --------------------------
(***************************************************************************)
(* What the dispatcher promises about the turns it works on: how many are  *)
(* active at once, that a conversation with an uncertain turn shows it,    *)
(* and what holds at the moment a request is written.                      *)
(***************************************************************************)
EXTENDS RuntimeReservation_proofs

-----------------------------------------------------------------------------
(* Every way a turn changes its state.                                     *)

\* The admission transaction of the turn in hand commits.
Admission == /\ at = "admit" /\ at' \in {"claim", "prepare"}
             /\ UNCHANGED <<cands, cur, launched, sUncertain, sent>>

TurnMove(t) ==
    \/ op'[t] = op[t]
    \/ op[t] = "absent" /\ op'[t] = "queued" /\ ~HasUncertain(SessionOf[t], op)
    \/ /\ op[t] = "queued" /\ op'[t] = "interrupted"
       /\ at \in {"halt", "control"}
    \/ /\ t = cur /\ at = "interrupt" /\ op'[t] = "interrupted"
    \/ /\ t = cur /\ RefuseAuthority /\ op'[t] = "failed"
    \/ /\ t = cur /\ Admission /\ op[t] = "queued" /\ op'[t] = "dispatching"
    \/ /\ t = cur /\ MarkRunning /\ op[t] = "dispatching" /\ op'[t] = "running"
    \/ /\ t = cur /\ FailOperation
       /\ op'[t] = "failed" \/ (op[t] \in Active /\ op'[t] = "uncertain")
    \/ /\ op[t] \in Unsettled /\ op'[t] = "uncertain"
       /\ t \in pending \/ (t = cur /\ at = "unanswered")
    \/ /\ op[t] \in Active /\ op'[t] \in Settled \cup {"waiting"}
       /\ \E g \in Turn : native[g] = t /\ rtTurn[g] = t
    \/ op[t] \in Active /\ op'[t] = "uncertain" /\ ~up

\* Every step moves a turn in one of these ways.
LEMMA TurnMoves == TypeInv /\ Next => \A t \in Turn : TurnMove(t)
<1> DEFINE All == \A t \in Turn : TurnMove(t)
<1> SUFFICES ASSUME TypeInv, Next PROVE All
    OBVIOUS
<1>0. op \in [Turn -> OpState] /\ pending \subseteq Turn
  BY DEF TypeInv, TypeOK, DurableOK, MemoryOK
<1>1. ASSUME NEW t \in Turn, Accept(t) PROVE All
  BY <1>0, <1>1 DEF Accept, TurnMove
<1>2. ASSUME NEW t \in Turn, CancelQueued(t) PROVE All
  BY <1>0, <1>2 DEF CancelQueued, TurnMove
<1>3. ASSUME NEW t \in Turn, SettleUncertain(t) PROVE All
  BY <1>0, <1>3 DEF SettleUncertain, Updated, TurnMove
<1>4. ASSUME NEW g \in Turn, TurnCompleted(g) PROVE All
  <2>1. \/ UNCHANGED op
        \/ /\ op[native[g]] \in Active
           /\ op' = [op EXCEPT ![native[g]] = FinalState(reported[native[g]])]
    BY <1>4 DEF TurnCompleted
  <2>3. rtTurn[g] = native[g]
    BY <1>4 DEF TurnCompleted, Belongs
  <2>2. FinalState(reported[native[g]]) \in Settled
    BY <1>4, ConstantsAssumption, GenTurn
    DEF TurnCompleted, Belongs, FinalState, TypeInv, TypeOK, OutsideOK, Settled
  <2> QED BY <1>0, <2>1, <2>2, <2>3 DEF TurnMove
<1>5. ASSUME NEW g \in Turn, NativeRequests(g) PROVE All
  <2>1. /\ op[native[g]] \in Active
        /\ op' = [op EXCEPT ![native[g]] = "waiting"]
        /\ rtTurn[g] = native[g]
    BY <1>5 DEF NativeRequests, Belongs
  <2> QED BY <1>0, <2>1 DEF TurnMove
<1>6. ASSUME InterruptOperation PROVE All
  BY <1>0, <1>6 DEF InterruptOperation, Updated, TurnMove
<1>7. ASSUME HaltQueue PROVE All
  BY <1>0, <1>7 DEF HaltQueue, TurnMove
<1>8. ASSUME AnswerLost PROVE All
  BY <1>0, <1>8 DEF AnswerLost, Updated, TurnMove
<1>9. ASSUME RefuseAuthority PROVE All
  <2>1. op' = Updated(cur, "failed")
    BY <1>9 DEF RefuseAuthority
  <2> QED BY <1>0, <1>9, <2>1 DEF Updated, TurnMove
<1>10. ASSUME AdmitReuse \/ AdmitNew PROVE All
  <2>1. UNCHANGED op \/ (op' = Dispatching /\ Admission)
    BY <1>10 DEF AdmitReuse, AdmitNew, Admission, register, dispatch, outside, history
  <2> QED BY <1>0, <2>1 DEF Dispatching, TurnMove
<1>11. ASSUME MarkRunning PROVE All
  <2>1. \/ UNCHANGED op
        \/ op[cur] = "dispatching" /\ op' = [op EXCEPT ![cur] = "running"]
    BY <1>11 DEF MarkRunning
  <2> QED BY <1>0, <1>11, <2>1 DEF TurnMove
<1>12. ASSUME FailOperation PROVE All
  <2>1. \/ op' = Updated(cur, "failed")
        \/ op' = Updated(cur, "uncertain") /\ op[cur] # "queued"
    BY <1>12 DEF FailOperation, FailedState
  <2> QED BY <1>0, <1>12, <2>1 DEF Updated, TurnMove, Unsettled
<1>13. ASSUME NEW absent \in SUBSET Session, Startup(absent) PROVE All
  <2>1. op' = [t \in Turn |-> Recovered(t)] /\ ~up
    BY <1>13 DEF Startup
  <2> QED BY <2>1 DEF Recovered, TurnMove
<1>14. ASSUME UNCHANGED op PROVE All
  BY <1>14 DEF TurnMove
<1> HIDE DEF All
<1> QED BY TurnSteps, <1>1, <1>2, <1>3, <1>4, <1>5, <1>6, <1>7, <1>8, <1>9, <1>10,
          <1>11, <1>12, <1>13, <1>14 DEF TurnStep

\* A turn only becomes active by its admission.
LEMMA ActiveGrows ==
    TypeInv /\ Next =>
        \/ ActiveTurns' \subseteq ActiveTurns
        \/ Admission /\ ActiveTurns' \subseteq ActiveTurns \cup {cur}
<1> SUFFICES ASSUME TypeInv, Next,
                    NEW t \in Turn, op'[t] \in Active, op[t] \notin Active
             PROVE  t = cur /\ Admission
    BY DEF ActiveTurns
<1> QED BY TurnMoves DEF TurnMove, Active, Settled

-----------------------------------------------------------------------------
(* The ceiling of active turns.                                            *)

\* The tick holds a turn that it found no obstacle to admit.
Opening == \/ at \in {"route", "evict", "capture", "admit"}
           \/ at \in Awaiting /\ wait.next \in {"evict", "replace"}

\* One active turn for each conversation.
OneActive == \A t, u \in ActiveTurns : SessionOf[t] = SessionOf[u] => t = u

(***************************************************************************)
(* The admission counts no active turns: they were counted when the tick   *)
(* considered the turn, and an eviction or a replacement may be awaited in *)
(* between.  Only the tick adds to them, so what it found then still holds.*)
(***************************************************************************)
ActiveInv ==
    /\ Cardinality(ActiveTurns) <= MaxActive
    /\ OneActive
    /\ Opening => /\ Cardinality(ActiveTurns) < MaxActive
                  /\ \A t \in ActiveTurns : SessionOf[t] # SessionOf[cur]

\* Where the count is taken.
LEMMA OpeningMoves ==
    TypeInv /\ Next =>
        \/ ~Opening'
        \/ Opening /\ cur' = cur /\ ~Admission
        \/ ConsiderCapacity /\ at' = "route"
<1> SUFFICES ASSUME TypeInv, Next, Opening'
             PROVE  (Opening /\ cur' = cur /\ ~Admission) \/ (ConsiderCapacity /\ at' = "route")
    OBVIOUS
<1> USE DEF tick, register, dispatch
<1>1. /\ Chosen'
      /\ at' \notin {"busy", "dispatch", "rest", "fail", "ack", "cleanup", "mark"} \cup Bringing
      /\ ~Admission
  BY DEF Opening, Chosen, Choosing, Bringing, Awaiting, Admission
<1>2. ~Skip /\ ~Throw /\ ~AbandonPass /\ ~Leaves
  BY <1>1 DEF Skip, Throw, AbandonPass, Leaves
<1>3. ASSUME UNCHANGED tick PROVE Opening /\ cur' = cur
  BY <1>3 DEF Opening
<1>4. ASSUME at \in Awaiting, Continue(wait.next) PROVE Opening /\ cur' = cur
  <2>1. wait.next \in {"halt", "control", "evict", "replace", "dispatch"}
    BY <1>4, WaitType DEF TypeInv, TypeOK, TickOK, StageOK, Awaiting, NextStage
  <2> QED BY <1>2, <1>4, <2>1 DEF Continue, Opening, Awaiting
<1>5. CASE Dispatch
  <2>1. ASSUME NEW replace \in BOOLEAN, Capture(replace) PROVE Opening /\ cur' = cur
    BY <2>1 DEF Capture, Opening
  <2>2. ASSUME NEW v \in Session, Evict(v) PROVE Opening /\ cur' = cur
    BY <2>2 DEF Evict, Opening
  <2>3. ASSUME NEW c \in Classification, RetireAwaited(c) PROVE Opening /\ cur' = cur
    <3>1. at = "retire" /\ (NotRetired \/ (at' = "await" /\ UNCHANGED <<cands, register>>))
      BY <2>3 DEF RetireAwaited
    <3> QED BY <1>2, <1>4, <3>1 DEF NotRetired, Opening, Awaiting
  <2>4. ASSUME Retired PROVE Opening /\ cur' = cur
    BY <1>2, <1>4, <2>4 DEF Retired, NotRetired, Awaiting
  <2>5. ASSUME Route \/ EvictionDone PROVE Opening /\ cur' = cur
    BY <1>2, <2>5 DEF Route, EvictionDone, Opening
  <2>6. ConsiderCapacity => at' = "route"
    BY <1>2 DEF ConsiderCapacity
  <2>7. ~Special
    BY <1>1, SpecialMoves
  <2>8. ~EndPass /\ ~Blocked /\ ~RefuseAuthority /\ ~DispatchThrows
    BY <1>1, <1>2 DEF EndPass, Blocked, RefuseAuthority, DispatchThrows
  <2>9. ~Launch /\ ~SaveIdentity /\ ~Transport /\ ~Claim /\ ~MarkRunning /\ ~MarkLost
        /\ ~FailOperation
    BY <1>1, <1>2 DEF Launch, SaveIdentity, Transport, Claim, MarkRunning, MarkLost,
       FailOperation, Bringing
  <2>10. ~Cleanup
    BY <1>2 DEF Cleanup, AwaitRetire, Opening, Awaiting
  <2>11. \A answered \in BOOLEAN : ~Acknowledge(answered)
    BY <1>1, <1>2 DEF Acknowledge
  <2> QED BY <1>1, <1>5, <2>1, <2>2, <2>3, <2>4, <2>5, <2>6, <2>7, <2>8, <2>9, <2>10, <2>11
          DEF Dispatch, Special
<1>6. CASE Failure
  <2>1. ASSUME AwaitLost \/ AdmissionLost PROVE FALSE
    <3>1. at' = "fail" \/ AbandonPass
      BY <2>1 DEF AwaitLost, AdmissionLost, AwaitRejects
    <3> QED BY <1>1, <1>2, <3>1
  <2>2. ~ReuseLost
    BY <1>1, <1>2 DEF ReuseLost
  <2> QED BY <1>1, <1>2, <1>3, <1>6, <2>1, <2>2 DEF Failure, PassLost, Crash, Startup
<1> QED BY NotTheTick, ControlLeaves, <1>1, <1>2, <1>3, <1>5, <1>6 DEF Next

\* Every step keeps the room a turn needs and the turns it shares it with.
LEMMA ActiveStep == TypeInv /\ ActiveInv /\ Next => ActiveInv'
<1> SUFFICES ASSUME TypeInv, ActiveInv, Next PROVE ActiveInv'
    OBVIOUS
<1> DEFINE N == Cardinality(ActiveTurns)
<1>1. /\ IsFiniteSet(Turn) /\ IsFiniteSet(ActiveTurns) /\ IsFiniteSet(ActiveTurns')
      /\ N \in Nat /\ N' \in Nat /\ MaxActive \in Nat
  <2>1. IsFiniteSet(Turn)
    BY ConstantsAssumption, FS_Interval DEF Turn
  <2>2. ActiveTurns \in SUBSET Turn /\ ActiveTurns' \in SUBSET Turn
    BY DEF ActiveTurns
  <2> QED BY <2>1, <2>2, ConstantsAssumption, CardShrinks
<1>2. CASE ActiveTurns' \subseteq ActiveTurns
  <2>1. N' <= N
    BY <1>1, <1>2, CardShrinks
  <2>2. N' <= MaxActive
    BY <1>1, <2>1 DEF ActiveInv
  <2>3. OneActive'
    BY <1>2 DEF ActiveInv, OneActive
  <2>4. ASSUME Opening' PROVE /\ N' < MaxActive
                              /\ \A t \in ActiveTurns' : SessionOf[t] # SessionOf[cur']
    <3>1. CASE Opening /\ cur' = cur
      BY <1>1, <1>2, <2>1, <3>1 DEF ActiveInv
    <3>2. CASE ConsiderCapacity /\ at' = "route"
      <4>1. /\ ~Busy(SessionOf[cur]) /\ ~AtActiveLimit /\ cur' = cur
        BY <3>2 DEF ConsiderCapacity, Skip, register, dispatch
      <4>2. N < MaxActive
        BY <1>1, <4>1 DEF AtActiveLimit
      <4>3. \A t \in ActiveTurns : SessionOf[t] # SessionOf[cur]
        BY <4>1 DEF Busy, TurnsOf, ActiveTurns
      <4> QED BY <1>1, <1>2, <2>1, <4>1, <4>2, <4>3
    <3> QED BY <2>4, <3>1, <3>2, OpeningMoves
  <2> QED BY <2>2, <2>3, <2>4 DEF ActiveInv
<1>3. CASE Admission /\ ActiveTurns' \subseteq ActiveTurns \cup {cur}
  <2>1. Opening /\ ~Opening'
    BY <1>3 DEF Admission, Opening, Awaiting
  <2>2. N < MaxActive /\ \A t \in ActiveTurns : SessionOf[t] # SessionOf[cur]
    BY <2>1 DEF ActiveInv
  <2>3. N' <= N + 1
    BY <1>1, <1>3, CardGrows
  <2>4. N' <= MaxActive
    BY <1>1, <2>2, <2>3
  <2>5. OneActive'
    BY <1>3, <2>2 DEF ActiveInv, OneActive
  <2> QED BY <2>1, <2>4, <2>5 DEF ActiveInv
<1> QED BY <1>2, <1>3, ActiveGrows

\* ActiveInv holds at first and is kept.
LEMMA ActiveInit == Init => ActiveInv
<1> SUFFICES ASSUME Init PROVE ActiveInv
    OBVIOUS
<1>1. ActiveTurns = {} /\ ~Opening
  BY DEF Init, ActiveTurns, Active, Opening, Awaiting
<1>2. Cardinality(ActiveTurns) = 0
  BY <1>1, FS_EmptySet
<1> QED BY <1>1, <1>2, ConstantsAssumption DEF ActiveInv, OneActive

\* ... and so does a stutter.
LEMMA ActiveStable == TypeInv /\ ActiveInv /\ [Next]_vars => ActiveInv'
<1>1. ASSUME ActiveInv, UNCHANGED vars PROVE ActiveInv'
  BY <1>1 DEF vars, durable, tick, register, dispatch, ActiveInv, OneActive, Opening, ActiveTurns
<1> QED BY <1>1, ActiveStep

(***************************************************************************)
(* Never more active turns than HARBOR_MAX_ACTIVE_TURNS, nor two in one    *)
(* conversation, though a turn is admitted several awaits after the active *)
(* ones were counted.                                                      *)
(***************************************************************************)
THEOREM ActiveCeilingKept == Spec => []ActiveCeiling
<1>1. ASSUME ActiveInv PROVE ActiveCeiling
  <2> SUFFICES ASSUME NEW s \in Session
               PROVE  Cardinality(ActiveTurns \cap TurnsOf(s)) <= 1
      BY <1>1 DEF ActiveCeiling, ActiveInv
  <2>1. \A t, u \in ActiveTurns \cap TurnsOf(s) : t = u
    BY <1>1 DEF ActiveInv, OneActive, TurnsOf
  <2>2. CASE ActiveTurns \cap TurnsOf(s) = {}
    BY <2>2, FS_EmptySet
  <2>3. ASSUME NEW t \in ActiveTurns \cap TurnsOf(s)
        PROVE  Cardinality(ActiveTurns \cap TurnsOf(s)) <= 1
    <3>1. ActiveTurns \cap TurnsOf(s) = {t}
      BY <2>1
    <3> QED BY <3>1, FS_Singleton
  <2> QED BY <2>2, <2>3
<1> QED BY <1>1, TypeInit, TypeNext, ActiveInit, ActiveStable, PTL DEF Spec

-----------------------------------------------------------------------------
(* What left the queue and what is still in it.                            *)

\* The turn was admitted once.
Left(t) == op[t] \notin {"absent", "queued"}

\* A candidate stays queued, unless its doubt is settled late, until the tick
\* admits or fails it; once admitted it is dispatching, or uncertain.
CandsOpen     == \A t \in cands : \/ op[t] \in {"queued", "uncertain"}
                                  \/ t = cur /\ (Admitted \/ Written)
StillSendable == Admitted => op[cur] \in {"dispatching", "uncertain"}

DispatchedInv == CandsOpen /\ StillSendable

\* The supervisor only works on, and only settles, turns that were admitted.
PendingLeft   == \A t \in pending : Left(t)
OperationLeft == \A g \in Turn : rtOp[g] # 0 => Left(rtOp[g])
AnsweredLeft  == at \in {"interrupt", "answered", "unanswered"} => Left(cur)

LeftInv == PendingLeft /\ OperationLeft /\ AnsweredLeft

\* No runtime is left with the operation of a turn whose admission was rolled
\* back: such a runtime names a turn that is still queued.
Steady == ReuseAborts = FALSE \/ MaxLost = 0

LEMMA NoAbort == ASSUME Steady, TypeInv PROVE ~ReuseLost
BY ConstantsAssumption DEF Steady, ReuseLost, TypeInv, TypeOK, OutsideOK

\* A turn that left the queue does not return to it.
LEMMA LeftStays ==
    ASSUME TypeInv, Next, NEW t \in Turn, Left(t)
    PROVE  Left(t)'
BY OpSteps DEF OpStep, Left

\* Who names the operation of a runtime.
LEMMA RtOpSteps ==
    TypeInv /\ Next => \A g \in Turn :
        \/ rtOp'[g] \in {0, rtOp[g]}
        \/ rtOp'[g] = cur /\ g = tgen /\ op'[cur] # "queued" /\ Admission
        \/ rtOp'[g] = cur /\ g = tgen /\ (Transport \/ Claim \/ ReuseLost)
<1> SUFFICES ASSUME TypeInv, Next
             PROVE  \A g \in Turn :
                      \/ rtOp'[g] \in {0, rtOp[g]}
                      \/ rtOp'[g] = cur /\ g = tgen /\ op'[cur] # "queued" /\ Admission
                      \/ rtOp'[g] = cur /\ g = tgen /\ (Transport \/ Claim \/ ReuseLost)
    OBVIOUS
<1>0. rtOp \in [Turn -> Gen]
  BY DEF TypeInv, TypeOK, MemoryOK
<1> DEFINE Lower == \A g \in Turn : rtOp'[g] \in {0, rtOp[g]}
<1> USE DEF memory
<1>1. Api \/ Native => Lower
  BY DEF Api, Accept, BackgroundStop, EmergencyStop, Native, ProcessDies, NativeFinishes
<1>2. Mailbox => Lower
  BY <1>0 DEF Mailbox, Poison, SettleUncertain, TurnCompleted, TurnFinished, NativeRequests,
         Inspect, Classify
<1>3. Retirement => Lower
  BY <1>0 DEF Retirement, Retire, RetireLost, RetirementConfirmed, RetirementUnconfirmed, Forget,
         BeginRetirement, Release, RetirementUncertain, SettlementLost
<1>4. Control => Lower
  BY DEF Control, BeginPass, HaltRuntime, InterruptOperation, HaltQueue, ReconcileMember,
         ReconcileRuntime, AnswerRequest, AnswerRecorded, AnswerLost, CloseAdapter, CancelQueued
<1>5. CASE Dispatch
  <2>1. ASSUME AdmitReuse PROVE \/ Lower
                                \/ /\ rtOp' = [rtOp EXCEPT ![tgen] = cur]
                                   /\ op'[cur] # "queued" /\ Admission
    <3>1. cur \in Turn /\ op \in [Turn -> OpState]
      BY <2>1 DEF AdmitReuse, TypeInv, TypeOK, DurableOK, StageOK, TurnStages
    <3>2. Lower \/ (rtOp' = [rtOp EXCEPT ![tgen] = cur] /\ op' = Dispatching /\ Admission)
      BY <2>1 DEF AdmitReuse, Admission, register, dispatch, outside, history
    <3> QED BY <3>1, <3>2 DEF Dispatching
  <2>2. Transport \/ Claim => rtOp' = [rtOp EXCEPT ![tgen] = cur]
    BY DEF Transport, Claim
  <2>3. ASSUME NEW c \in Classification, RetireAwaited(c) PROVE Lower
    BY <1>0, <2>3 DEF RetireAwaited, BeginRetirement
  <2>4. \/ AdmitReuse \/ Transport \/ Claim \/ rtOp' = rtOp
        \/ \E c \in Classification : RetireAwaited(c)
    BY <1>5 DEF Dispatch, Snapshot, EndPass, Consider, ConsiderCapacity, Blocked, RefuseAuthority,
       Route, Evict, EvictionDone, Capture, Retired, DispatchThrows, AdmitNew, Launch,
       SaveIdentity, Send, Acknowledge, MarkRunning, MarkLost, FailOperation, Cleanup
  <2> HIDE DEF Lower
  <2>5. ASSUME rtOp' = [rtOp EXCEPT ![tgen] = cur]
        PROVE  \A g \in Turn : rtOp'[g] \in {0, rtOp[g]} \/ (rtOp'[g] = cur /\ g = tgen)
    BY <1>0, <2>5
  <2>6. rtOp' = rtOp => Lower
    BY DEF Lower
  <2> QED BY <2>1, <2>2, <2>3, <2>4, <2>5, <2>6 DEF Lower
<1>6. Failure => Lower \/ ReuseLost
  BY <1>0 DEF Failure, PassLost, AwaitLost, AdmissionLost, Crash, Startup
<1>7. ASSUME ReuseLost PROVE \A g \in Turn : rtOp'[g] = rtOp[g] \/ (rtOp'[g] = cur /\ g = tgen)
  BY <1>0, <1>7 DEF ReuseLost
<1> QED BY <1>1, <1>2, <1>3, <1>4, <1>5, <1>6, <1>7 DEF Next

\* Who asks for a turn to become uncertain.
LEMMA PendingSteps ==
    TypeInv /\ Next => \A t \in pending' : t \in pending \/ \E g \in Turn : rtOp[g] = t /\ t # 0
<1> SUFFICES ASSUME TypeInv, Next, ~(pending' \subseteq pending)
             PROVE  \E g \in Turn : PoisonEffect(g)
  BY DEF PoisonEffect, OperationLost
<1> USE DEF memory
<1>1. Api \/ Native => pending' = pending
  BY DEF Api, Accept, BackgroundStop, EmergencyStop, Native, ProcessDies, NativeFinishes
<1>2. Mailbox => pending' \subseteq pending \/ \E g \in Turn : PoisonEffect(g)
  BY DEF Mailbox, Poison, SettleUncertain, TurnCompleted, TurnFinished, NativeRequests,
         Inspect, Classify
<1>3. Retirement => pending' = pending
  BY DEF Retirement, Retire, RetireLost, RetirementConfirmed, RetirementUnconfirmed,
         Release, RetirementUncertain, SettlementLost
<1>4. CASE Control
  <2>1. CloseAdapter \/ pending' = pending
    BY <1>4 DEF Control, BeginPass, HaltRuntime, InterruptOperation, HaltQueue, ReconcileMember,
         ReconcileRuntime, AnswerRequest, AnswerRecorded, AnswerLost, CancelQueued
  <2>2. CloseAdapter => wait.gen \in Turn /\ (pending' = pending \/ PoisonEffect(wait.gen))
    BY DEF CloseAdapter, TypeInv, StageOK, AnswerStages
  <2> QED BY <2>1, <2>2
<1>5. Dispatch => pending' = pending
  BY DEF Dispatch, Snapshot, EndPass, Consider, ConsiderCapacity, Blocked, RefuseAuthority,
         Route, Evict, EvictionDone, Capture, RetireAwaited, Retired, DispatchThrows, AdmitReuse,
         AdmitNew, Launch, SaveIdentity, Transport, Claim, Send, Acknowledge, MarkRunning,
         MarkLost, FailOperation, Cleanup
<1>6. Failure => pending' \subseteq pending
  BY DEF Failure, PassLost, AwaitLost, AdmissionLost, ReuseLost, Crash, Startup
<1> QED BY <1>1, <1>2, <1>3, <1>4, <1>5, <1>6 DEF Next

\* The request being answered, or interrupted, is the operation of a runtime.
LEMMA AnswerMoves ==
    ASSUME TypeInv, Next, at' \in {"interrupt", "answered", "unanswered"}
    PROVE  \/ UNCHANGED <<at, cur>>
           \/ \E g \in Turn : rtOp[g] # 0 /\ cur' = rtOp[g]
<1> USE DEF tick, register, dispatch
<1>1. ~Skip /\ ~Throw /\ ~AbandonPass
  BY DEF Skip, Throw, AbandonPass
<1>2. ASSUME UNCHANGED tick PROVE UNCHANGED <<at, cur>>
  BY <1>2
<1>3. CASE Control
  <2>1. ASSUME NEW s \in Session, HaltRuntime(s) PROVE \E g \in Turn : rtOp[g] # 0 /\ cur' = rtOp[g]
    <3>1. map[s] \in Gen /\ map[s] # 0 /\ rtOp[map[s]] # 0 /\ cur' = rtOp[map[s]]
      BY <2>1 DEF HaltRuntime, AwaitRetire, TypeInv, TypeOK, MemoryOK
    <3> QED BY <3>1, GenTurn
  <2>2. ASSUME NEW s \in Session, NEW delivered \in BOOLEAN, AnswerRequest(s, delivered)
        PROVE  \E g \in Turn : rtOp[g] # 0 /\ cur' = rtOp[g]
    <3>1. map[s] \in Gen /\ map[s] # 0 /\ rtOp[map[s]] # 0 /\ cur' = rtOp[map[s]]
      BY <2>2 DEF AnswerRequest, TypeInv, TypeOK, MemoryOK
    <3> QED BY <3>1, GenTurn
  <2>3. ~BeginPass /\ ~InterruptOperation /\ ~HaltQueue /\ ~AnswerRecorded /\ ~AnswerLost
        /\ ~CloseAdapter
    BY DEF BeginPass, InterruptOperation, AwaitRetire, HaltQueue, AnswerRecorded, AnswerLost,
           CloseAdapter
  <2>4. \A s \in Session :
           /\ ~ReconcileMember(s)
           /\ \A c \in Classification, expired \in BOOLEAN : ~ReconcileRuntime(s, c, expired)
    BY DEF ReconcileMember, ReconcileRuntime, AwaitRetire
  <2>5. \A t \in Turn : ~CancelQueued(t)
    BY DEF CancelQueued
  <2> QED BY <1>3, <2>1, <2>2, <2>3, <2>4, <2>5 DEF Control
<1>4. ASSUME at \in Awaiting PROVE ~Continue(wait.next) /\ ~NotRetired
  <2>1. wait.next \in {"halt", "control", "evict", "replace", "dispatch"}
    BY <1>4, WaitType DEF TypeInv, TypeOK, TickOK, StageOK, Awaiting, NextStage
  <2> QED BY <1>1, <2>1 DEF Continue, NotRetired
<1>5. ~Dispatch
  <2>1. ~Special
    BY SpecialMoves DEF Bringing
  <2>2. \A c \in Classification : ~RetireAwaited(c)
    BY <1>4 DEF RetireAwaited, Awaiting
  <2>3. ~Retired
    BY <1>4 DEF Retired, Awaiting
  <2>4. ~EndPass /\ ~ConsiderCapacity /\ ~Blocked /\ ~RefuseAuthority /\ ~Route /\ ~EvictionDone
    BY <1>1 DEF EndPass, ConsiderCapacity, Blocked, RefuseAuthority, Route, EvictionDone
  <2>5. /\ \A v \in Session : ~Evict(v)
        /\ \A choice \in BOOLEAN : ~Capture(choice) /\ ~Acknowledge(choice)
    BY <1>1 DEF Evict, Capture, Acknowledge, AwaitRetire
  <2>6. ~DispatchThrows /\ ~Launch /\ ~SaveIdentity /\ ~Transport /\ ~Claim /\ ~MarkRunning
        /\ ~MarkLost /\ ~FailOperation /\ ~Cleanup
    BY <1>1 DEF DispatchThrows, Launch, SaveIdentity, Transport, Claim, MarkRunning, MarkLost,
       FailOperation, Cleanup, AwaitRetire
  <2> QED BY <2>1, <2>2, <2>3, <2>4, <2>5, <2>6 DEF Dispatch, Special
<1>6. CASE Failure
  <2>1. ~PassLost /\ ~Crash /\ ~AwaitLost /\ ~AdmissionLost /\ ~ReuseLost
    BY <1>1 DEF PassLost, Crash, AwaitLost, AdmissionLost, AwaitRejects, ReuseLost
  <2> QED BY <1>2, <1>6, <2>1 DEF Failure, Startup
<1> QED BY NotTheTick, <1>2, <1>3, <1>5, <1>6 DEF Next

\* The turn in hand stays in hand while it is a candidate.
LEMMA HandKept ==
    ASSUME TypeInv, ReserveInv, Next, Admitted \/ Written, cur \in cands'
    PROVE  cur' = cur /\ (Admitted' \/ Written')
<1>1. InHand
  BY DEF InHand, Chosen, Admitted
<1>2. CASE UNCHANGED tick
  BY <1>2 DEF tick, register, dispatch, Admitted, Written
<1>3. CASE Holds \/ LetsGo
  BY <1>1, <1>3 DEF Holds, LetsGo
<1>4. CASE Begins
  <2>1. Launch \/ (SaveIdentity /\ at' = "saved") \/ Transport
    BY <1>4 DEF Begins, Snapshot, Consider, AdmitNew, Admitted, Written, Bringing, Awaiting
  <2> QED BY <2>1 DEF Launch, SaveIdentity, Throw, Transport, register, dispatch, Admitted, Bringing
<1> QED BY <1>2, <1>3, <1>4, TickHolds DEF ReserveInv

\* Only an admission makes the turn in hand an admitted one.
LEMMA AdmittedMoves ==
    TypeInv /\ Next /\ Admitted' => (Admitted \/ Admission) /\ cur' = cur
<1> SUFFICES ASSUME TypeInv, Next, Admitted' PROVE (Admitted \/ Admission) /\ cur' = cur
    OBVIOUS
<1>1. CASE Stays
  BY <1>1 DEF Stays
<1>2. ~Leaves
  BY DEF Leaves, Chosen, Admitted
<1>3. CASE Special
  <2>1. ~Snapshot /\ ~Consider /\ ~Send
    BY DEF Snapshot, Consider, Send, Throw, Admitted, Bringing
  <2>2. CASE AdmitReuse \/ AdmitNew
    <3>1. ~Skip /\ ~Throw
      BY DEF Skip, Throw, Admitted, Bringing
    <3> QED BY <2>2, <3>1 DEF AdmitReuse, AdmitNew, Admission, register, dispatch, outside, history
  <2> QED BY <1>3, <2>1, <2>2 DEF Special
<1> QED BY <1>1, <1>2, <1>3, TickMoves

\* The candidates of a pass stay as it read them until they are looked at.
LEMMA CandsOpenKept ==
    ASSUME TypeInv, SentInv, HonestInv, ReserveInv, DispatchedInv, Next
    PROVE  CandsOpen'
<1> SUFFICES ASSUME NEW t \in cands', op'[t] \notin {"queued", "uncertain"}
             PROVE  t = cur' /\ (Admitted' \/ Written')
    BY DEF CandsOpen
<1>1. t \in Turn
  BY TypeNext DEF TypeInv, TypeOK, TickOK
<1>2. ~Snapshot
  BY DEF Snapshot, durable
<1>3. t \in cands
  BY <1>2, TickMoves, SpecialMoves DEF Stays, Leaves
<1>4. at \notin {"halt", "interrupt", "control", "answered", "unanswered"}
  BY <1>3 DEF HonestInv, Walking, Chosen, Written, Choosing, Bringing, Awaiting
<1>5. op[t] # "uncertain"
  BY <1>1, OpSteps DEF OpStep
<1>6. CASE op[t] # "queued"
  BY <1>3, <1>5, <1>6, HandKept DEF DispatchedInv, CandsOpen
<1>7. CASE op[t] = "queued"
  <2>1. ~RefuseAuthority \/ t # cur
    BY DEF RefuseAuthority, Skip
  <2>2. t = cur /\ (Admission \/ FailOperation)
    BY <1>1, <1>4, <1>7, <2>1, TurnMoves DEF TurnMove, Active
  <2> QED BY <2>2 DEF Admission, FailOperation, register, dispatch, Admitted, Written, Bringing
<1> QED BY <1>6, <1>7

\* Once admitted a turn is dispatching, or uncertain, until it is sent.
LEMMA StillSendableKept ==
    ASSUME TypeInv, SentInv, HonestInv, ReserveInv, DispatchedInv, Next
    PROVE  StillSendable'
<1> SUFFICES ASSUME Admitted' PROVE op'[cur'] \in {"dispatching", "uncertain"}
    BY DEF StillSendable
<1>1. cur' = cur /\ (Admitted \/ Admission)
  BY AdmittedMoves
<1>2. cur \in cands /\ cur \in Turn /\ ~Written /\ op[cur] # "absent"
  <2>1. Chosen /\ ~Written
    BY <1>1 DEF Chosen, Admitted, Admission, Written, Choosing, Bringing, Awaiting
  <2> QED BY <2>1 DEF SentInv, TypeInv, TypeOK, TickOK
<1>3. \A g \in Turn : native[g] # cur
  BY <1>2, ConstantsAssumption DEF HonestInv, SentInv, Turn
<1>4. at \in Bringing \cup {"admit"}
  BY <1>1 DEF Admitted, Admission
<1>5. ~MarkRunning /\ ~FailOperation /\ ~RefuseAuthority
  BY <1>4 DEF MarkRunning, FailOperation, RefuseAuthority, Bringing
<1>6. CASE Admitted
  <2>1. op[cur] \in {"dispatching", "uncertain"}
    BY <1>6 DEF DispatchedInv, StillSendable
  <2> QED BY <1>1, <1>2, <1>3, <1>4, <1>5, <2>1, TurnMoves DEF TurnMove, Bringing, Unsettled, Active
<1>7. CASE ~Admitted
  <2>1. op[cur] \in {"queued", "uncertain"}
    BY <1>2, <1>7 DEF DispatchedInv, CandsOpen
  <2>2. op'[cur] # "queued"
    BY <1>1, SentStep DEF SentInv
  <2>3. CASE op[cur] = "uncertain"
    BY <1>1, <1>2, <2>3, OpSteps DEF OpStep
  <2>4. CASE op[cur] = "queued"
    BY <1>1, <1>2, <1>3, <1>4, <1>5, <2>2, <2>4, TurnMoves DEF TurnMove, Bringing, Active
  <2> QED BY <2>1, <2>3, <2>4
<1> QED BY <1>6, <1>7

\* DispatchedInv holds at first and is kept.
LEMMA DispatchedInit == Init => DispatchedInv
BY DEF Init, DispatchedInv, CandsOpen, StillSendable, Admitted, Bringing

LEMMA DispatchedStable ==
    TypeInv /\ SentInv /\ HonestInv /\ ReserveInv /\ DispatchedInv /\ [Next]_vars => DispatchedInv'
<1>1. ASSUME DispatchedInv, UNCHANGED vars PROVE DispatchedInv'
  BY <1>1
  DEF vars, durable, memory, tick, register, dispatch, DispatchedInv, CandsOpen, StillSendable,
      Admitted, Written
<1> QED BY <1>1, CandsOpenKept, StillSendableKept DEF DispatchedInv

\* LeftInv is inductive as long as no admission is rolled back.
LEMMA LeftStep ==
    Steady /\ TypeInv /\ SentInv /\ DispatchedInv /\ LeftInv /\ Next => LeftInv'
<1> SUFFICES ASSUME Steady, TypeInv, SentInv, DispatchedInv, LeftInv, Next
             PROVE  LeftInv'
    OBVIOUS
<1>1. /\ pending \subseteq Turn /\ rtOp \in [Turn -> Gen]
      /\ PendingLeft /\ OperationLeft /\ AnsweredLeft
  BY DEF LeftInv, TypeInv, TypeOK, MemoryOK
<1>2. PendingLeft'
  <2> SUFFICES ASSUME NEW t \in pending' PROVE Left(t)'
      BY DEF PendingLeft
  <2>1. t \in Turn /\ Left(t)
    BY <1>1, PendingSteps, GenTurn DEF PendingLeft, OperationLeft
  <2> QED BY <2>1, LeftStays
<1>3. OperationLeft'
  <2> SUFFICES ASSUME NEW g \in Turn, rtOp'[g] # 0 PROVE Left(rtOp[g])'
      BY DEF OperationLeft
  <2>1. CASE rtOp'[g] = rtOp[g]
    BY <1>1, <2>1, LeftStays, GenTurn DEF OperationLeft
  <2>2. CASE rtOp'[g] = cur /\ Admission /\ op'[cur] # "queued"
    <3>1. cur \in Turn /\ op[cur] # "absent"
      BY <2>2 DEF Admission, SentInv, Chosen, Choosing, TypeInv, TypeOK, TickOK
    <3>2. op'[cur] # "absent"
      BY <3>1, OpSteps DEF OpStep
    <3> QED BY <2>2, <3>2 DEF Left
  <2>3. CASE rtOp'[g] = cur /\ (Transport \/ Claim)
    <3>1. Admitted /\ UNCHANGED op
      BY <2>3 DEF Transport, Claim, Admitted, Bringing, durable
    <3> QED BY <2>3, <3>1 DEF DispatchedInv, StillSendable, Left
  <2> QED BY <2>1, <2>2, <2>3, RtOpSteps, NoAbort
<1>4. AnsweredLeft'
  <2> SUFFICES ASSUME at' \in {"interrupt", "answered", "unanswered"} PROVE Left(cur)'
      BY DEF AnsweredLeft
  <2>1. cur' \in Turn /\ Left(cur')
    <3>1. CASE UNCHANGED <<at, cur>>
      BY <1>1, <3>1 DEF AnsweredLeft, TypeInv, StageOK, TurnStages
    <3>2. ASSUME NEW g \in Turn, rtOp[g] # 0, cur' = rtOp[g] PROVE cur' \in Turn /\ Left(cur')
      BY <1>1, <3>2, GenTurn DEF OperationLeft
    <3> QED BY <3>1, <3>2, AnswerMoves
  <2> QED BY <2>1, LeftStays DEF Left
<1> QED BY <1>2, <1>3, <1>4 DEF LeftInv

\* It holds at first, and in a stutter.
LEMMA LeftInit == Init => LeftInv
BY DEF Init, LeftInv, PendingLeft, OperationLeft, AnsweredLeft

LEMMA LeftStable ==
    Steady /\ TypeInv /\ SentInv /\ DispatchedInv /\ LeftInv /\ [Next]_vars => LeftInv'
<1>1. ASSUME LeftInv, UNCHANGED vars PROVE LeftInv'
  BY <1>1
  DEF vars, durable, memory, tick, register, dispatch, LeftInv, PendingLeft, OperationLeft,
      AnsweredLeft, Left
<1> QED BY <1>1, LeftStep

-----------------------------------------------------------------------------
(* From the admission to the acknowledgement.                              *)

\* The stages that use the runtime in `tgen', and what leads to each.
Running == {"admit", "claim", "send", "ack", "mark"}

\* The dispatch minted a generation, or captured the one in the map.
Chooses == /\ at' = "admit" /\ cur' = cur /\ cur \in Turn
           /\ tgen' = cur \/ (tgen' = map[SessionOf[cur]] /\ tgen' # 0)

\* Where the dispatch of a turn gets to a runtime, and where it stays there.
LEMMA RunningMoves ==
    ASSUME TypeInv, Next, at' \in Running
    PROVE  \/ UNCHANGED tick
           \/ Chooses
           \/ AdmitReuse \/ Transport \/ Claim \/ Send
           \/ \E answered \in BOOLEAN : Acknowledge(answered)
<1> USE DEF tick, register, dispatch, Running
<1>1. ~Skip /\ ~Throw /\ ~AbandonPass
  BY DEF Skip, Throw, AbandonPass
<1>2. ASSUME UNCHANGED tick PROVE UNCHANGED tick
  BY <1>2
<1>3. ASSUME Control PROVE UNCHANGED tick
  <2>1. ~BeginPass /\ ~InterruptOperation /\ ~HaltQueue /\ ~AnswerRecorded /\ ~AnswerLost
        /\ ~CloseAdapter
    BY DEF BeginPass, InterruptOperation, AwaitRetire, HaltQueue, AnswerRecorded, AnswerLost,
           CloseAdapter
  <2>2. \A s \in Session :
           /\ ~HaltRuntime(s) /\ ~ReconcileMember(s)
           /\ \A c \in Classification, expired \in BOOLEAN : ~ReconcileRuntime(s, c, expired)
           /\ \A delivered \in BOOLEAN : ~AnswerRequest(s, delivered)
    BY DEF HaltRuntime, ReconcileMember, ReconcileRuntime, AnswerRequest, AwaitRetire
  <2>3. \A t \in Turn : ~CancelQueued(t)
    BY DEF CancelQueued
  <2> QED BY <1>3, <2>1, <2>2, <2>3 DEF Control
<1>4. ASSUME at \in Awaiting, Continue(wait.next) PROVE Chooses
  <2>1. wait.next \in {"halt", "control", "evict", "replace", "dispatch"}
    BY <1>4, WaitType DEF TypeInv, TypeOK, TickOK, StageOK, Awaiting, NextStage
  <2>2. wait.next = "replace"
    BY <1>1, <1>4, <2>1 DEF Continue
  <2>3. cur \in Turn
    BY <1>4, <2>2 DEF TypeInv, StageOK, Awaiting
  <2> QED BY <1>4, <2>2, <2>3 DEF Continue, Chooses
<1>5. CASE Dispatch
  <2>1. ASSUME Special PROVE AdmitReuse \/ Send
    BY <2>1 DEF Special, Snapshot, Consider, AdmitNew, Throw
  <2>2. ASSUME NEW c \in Classification, RetireAwaited(c) PROVE Chooses
    <3>1. at = "retire" /\ NotRetired
      BY <2>2 DEF RetireAwaited
    <3> QED BY <1>1, <1>4, <3>1 DEF NotRetired, Awaiting
  <2>3. ASSUME Retired PROVE Chooses
    BY <1>1, <1>4, <2>3 DEF Retired, NotRetired, Awaiting
  <2>4. ASSUME NEW replace \in BOOLEAN, Capture(replace) PROVE Chooses
    BY <2>4 DEF Capture, AwaitRetire, Chooses, TypeInv, StageOK, TurnStages
  <2>5. ~EndPass /\ ~ConsiderCapacity /\ ~Blocked /\ ~RefuseAuthority /\ ~Route /\ ~EvictionDone
    BY <1>1 DEF EndPass, ConsiderCapacity, Blocked, RefuseAuthority, Route, EvictionDone
  <2>6. /\ \A v \in Session : ~Evict(v)
        /\ ~DispatchThrows /\ ~Launch /\ ~SaveIdentity /\ ~MarkRunning /\ ~MarkLost
        /\ ~FailOperation /\ ~Cleanup
    BY <1>1 DEF Evict, DispatchThrows, Launch, SaveIdentity, MarkRunning, MarkLost,
       FailOperation, Cleanup, AwaitRetire
  <2> QED BY <1>5, <2>1, <2>2, <2>3, <2>4, <2>5, <2>6 DEF Dispatch, Special
<1>6. ASSUME Failure PROVE UNCHANGED tick
  <2>1. ~PassLost /\ ~Crash /\ ~AwaitLost /\ ~AdmissionLost /\ ~ReuseLost
    BY <1>1 DEF PassLost, Crash, AwaitLost, AdmissionLost, AwaitRejects, ReuseLost
  <2> QED BY <1>6, <2>1 DEF Failure, Startup
<1> QED BY NotTheTick, <1>3, <1>5, <1>6 DEF Next

\* Who writes operations.generation.
LEMMA OpGenSteps == Next => AdmitReuse \/ AdmitNew \/ Claim \/ opGen' = opGen
<1> USE DEF durable, rows, others
<1>1. Api \/ Native => opGen' = opGen
  BY DEF Api, Accept, BackgroundStop, EmergencyStop, Native, ProcessDies, NativeFinishes
<1>2. Mailbox => opGen' = opGen
  BY DEF Mailbox, Poison, SettleUncertain, TurnCompleted, TurnFinished, NativeRequests,
         Inspect, Classify
<1>3. Retirement => opGen' = opGen
  BY DEF Retirement, Retire, RetireLost, RetirementConfirmed, RetirementUnconfirmed,
         Release, RetirementUncertain, SettlementLost
<1>4. Control => opGen' = opGen
  BY DEF Control, BeginPass, HaltRuntime, InterruptOperation, HaltQueue, ReconcileMember,
         ReconcileRuntime, AnswerRequest, AnswerRecorded, AnswerLost, CloseAdapter, CancelQueued
<1>5. Dispatch => AdmitReuse \/ AdmitNew \/ Claim \/ opGen' = opGen
  BY DEF Dispatch, Snapshot, EndPass, Consider, ConsiderCapacity, Blocked, RefuseAuthority,
         Route, Evict, EvictionDone, Capture, RetireAwaited, Retired, DispatchThrows,
         Launch, SaveIdentity, Transport, Send, Acknowledge, MarkRunning, MarkLost,
         FailOperation, Cleanup
<1>6. Failure => opGen' = opGen
  BY DEF Failure, PassLost, AwaitLost, AdmissionLost, ReuseLost, Crash, Startup
<1> QED BY <1>1, <1>2, <1>3, <1>4, <1>5, <1>6 DEF Next

\* The runtime the turn in hand is sent to is its conversation's, and so is the
\* turn a runtime works on.
UsingInv ==
    /\ \A g \in Turn : rtOp[g] # 0 => SessionOf[rtOp[g]] = SessionOf[g]
    /\ at \in Running \ {"mark"} => tgen \in Turn /\ SessionOf[tgen] = SessionOf[cur]
    /\ at = "send" => opGen[cur] = tgen

\* Every step keeps the runtime in use the one that was admitted.
LEMMA UsingStep == TypeInv /\ ReserveInv /\ UsingInv /\ Next => UsingInv'
<1> DEFINE Stages == /\ at \in Running \ {"mark"} => tgen \in Turn /\ SessionOf[tgen] = SessionOf[cur]
                     /\ at = "send" => opGen[cur] = tgen
<1> SUFFICES ASSUME TypeInv, ReserveInv, UsingInv, Next PROVE UsingInv'
    OBVIOUS
<1>0. \A g \in Turn : rtOp'[g] # 0 => SessionOf[rtOp'[g]] = SessionOf[g]
  <2> SUFFICES ASSUME NEW g \in Turn, g = tgen, Admission \/ Transport \/ Claim \/ ReuseLost
               PROVE  SessionOf[cur] = SessionOf[g]
      BY RtOpSteps DEF UsingInv
  <2> QED BY OwnGeneration DEF Admission, Claim, ReuseLost, UsingInv, Running
<1>1. ASSUME UNCHANGED tick PROVE Stages'
  <2>1. UNCHANGED <<at, cur, tgen>>
    BY <1>1 DEF tick, register, dispatch
  <2>2. at = "send" => opGen' = opGen
    BY OpGenSteps DEF AdmitReuse, AdmitNew, Claim
  <2> QED BY <2>1, <2>2 DEF UsingInv
<1>2. ASSUME Chooses PROVE Stages'
  <2>1. SessionOf[cur] \in Session /\ map[SessionOf[cur]] \in Gen
    BY <1>2, ConstantsAssumption DEF Chooses, TypeInv, TypeOK, MemoryOK
  <2>2. tgen' \in Turn /\ SessionOf[tgen'] = SessionOf[cur]
    BY <1>2, <2>1, GenTurn DEF Chooses, ReserveInv, Mapped
  <2> QED BY <1>2, <2>2 DEF Chooses, UsingInv
<1>3. ASSUME AdmitReuse PROVE Stages'
  BY <1>3 DEF AdmitReuse, Skip, register, dispatch, UsingInv, Running
<1>4. ASSUME Transport PROVE Stages'
  <2>1. tgen = cur /\ cur \in Turn
    BY <1>4, OwnGeneration
  <2> QED BY <1>4, <2>1 DEF Transport, register, dispatch, UsingInv
<1>5. ASSUME Claim PROVE Stages'
  <2>1. cur \in Turn /\ opGen \in [Turn -> Gen]
    BY <1>5 DEF Claim, TypeInv, TypeOK, DurableOK, StageOK, TurnStages
  <2> QED BY <1>5, <2>1 DEF Claim, register, dispatch, UsingInv, Running
<1>6. ASSUME Send PROVE Stages'
  BY <1>6 DEF Send, Throw, register, dispatch, UsingInv, Running
<1>7. ASSUME NEW answered \in BOOLEAN, Acknowledge(answered) PROVE Stages'
  BY <1>7 DEF Acknowledge, Throw, register, dispatch, UsingInv, Running
<1>8. at' \notin Running => Stages'
  BY DEF Running
<1> HIDE DEF Stages
<1>9. Stages'
  BY <1>1, <1>2, <1>3, <1>4, <1>5, <1>6, <1>7, <1>8, RunningMoves
<1> QED BY <1>0, <1>9 DEF UsingInv, Stages

\* UsingInv holds at first and is kept.
LEMMA UsingInit == Init => UsingInv
BY DEF Init, UsingInv, Running

\* ... and so does a stutter.
LEMMA UsingStable == TypeInv /\ ReserveInv /\ UsingInv /\ [Next]_vars => UsingInv'
<1>1. ASSUME UsingInv, UNCHANGED vars PROVE UsingInv'
  BY <1>1 DEF vars, durable, memory, tick, register, dispatch, UsingInv
<1> QED BY <1>1, UsingStep

-----------------------------------------------------------------------------
(* A conversation with an uncertain turn shows it.                         *)

\* The runtime was asked to work on t, and says so.
Announced(t) == (\E g \in Turn : native[g] = t) \/ (at = "mark" /\ t = cur)

(***************************************************************************)
(* What a step does to sessions.state.  Two handlers clear the uncertainty *)
(* of a conversation without looking at its turns: the one that finds a    *)
(* turn waiting for an approval, and the one that marks it running.        *)
(***************************************************************************)
ShowsStep(s) ==
    \/ HasUncertain(s, op') => sUncertain'[s]
    \/ \E t \in TurnsOf(s) : op[t] \in Active /\ Announced(t) /\ HasUncertain(s, op)

\* Writing the flag of one conversation with the state of one of its turns.
LEMMA ShowsDerived ==
    ASSUME TypeInv, UncertaintyShown, NEW t \in Turn,
           \A u \in Turn : u # t => op'[u] = op[u],
           sUncertain' = Derived(SessionOf[t], op')
    PROVE  \A s \in Session : ShowsStep(s)
BY ConstantsAssumption
DEF UncertaintyShown, ShowsStep, Derived, HasUncertain, TurnsOf, TypeInv, TypeOK, DurableOK

\* Clearing it.
LEMMA ShowsCleared ==
    ASSUME TypeInv, UncertaintyShown, NEW t \in Turn, NEW s \in Session,
           \A u \in Turn : op'[u] = "uncertain" => op[u] = "uncertain",
           sUncertain' = [sUncertain EXCEPT ![SessionOf[t]] = FALSE],
           s # SessionOf[t] \/ ~HasUncertain(s, op) \/ (op[t] \in Active /\ Announced(t))
    PROVE  ShowsStep(s)
BY ConstantsAssumption
DEF UncertaintyShown, ShowsStep, HasUncertain, TurnsOf, TypeInv, TypeOK, DurableOK

\* Repairing it.
LEMMA ShowsRepaired ==
    ASSUME TypeInv, UncertaintyShown, NEW s \in Session, op' = op,
           sUncertain' \in {sUncertain, Repaired(s, sUncertain), [sUncertain EXCEPT ![s] = TRUE]}
    PROVE  \A r \in Session : ShowsStep(r)
BY ConstantsAssumption
DEF UncertaintyShown, ShowsStep, Repaired, HasUncertain, TurnsOf, TypeInv, TypeOK, DurableOK

\* Leaving it alone.
LEMMA ShowsKept ==
    ASSUME UncertaintyShown, sUncertain' = sUncertain,
           \A u \in Turn : op'[u] = "uncertain" => op[u] = "uncertain"
    PROVE  \A s \in Session : ShowsStep(s)
BY DEF UncertaintyShown, ShowsStep, HasUncertain, TurnsOf

\* The handlers that write sessions.state or a turn.
LEMMA WritersShow ==
    ASSUME TypeInv, UsingInv, UncertaintyShown, TurnStep
    PROVE  \A s \in Session : ShowsStep(s)
<1> DEFINE All == \A s \in Session : ShowsStep(s)
<1> SUFFICES All
    OBVIOUS
<1>0. op \in [Turn -> OpState]
  BY DEF TypeInv, TypeOK, DurableOK
<1>1. ASSUME NEW t \in Turn, Accept(t) PROVE All
  <2>1. \A u \in Turn : op'[u] = "uncertain" => op[u] = "uncertain"
    BY <1>0, <1>1 DEF Accept
  <2>2. /\ sUncertain' = [sUncertain EXCEPT ![SessionOf[t]] = FALSE]
        /\ ~HasUncertain(SessionOf[t], op)
    BY <1>1 DEF Accept
  <2> QED BY <2>1, <2>2, ShowsCleared
<1>2. ASSUME NEW t \in Turn, CancelQueued(t) PROVE All
  BY <1>0, <1>2, ShowsDerived DEF CancelQueued
<1>3. ASSUME NEW t \in Turn, NEW state \in {"uncertain", "failed", "interrupted"},
             op' = Updated(t, state), sUncertain' = Derived(SessionOf[t], op')
      PROVE  All
  BY <1>0, <1>3, ShowsDerived DEF Updated
<1>4. ASSUME NEW t \in Turn, SettleUncertain(t) PROVE All
  BY <1>3, <1>4 DEF SettleUncertain
<1>5. ASSUME InterruptOperation \/ AnswerLost \/ RefuseAuthority \/ FailOperation PROVE All
  <2>1. cur \in Turn
    BY <1>5 DEF InterruptOperation, AnswerLost, RefuseAuthority, FailOperation, TypeInv, StageOK,
       TurnStages
  <2>2. \E state \in {"uncertain", "failed", "interrupted"} :
           op' = Updated(cur, state) /\ sUncertain' = Derived(SessionOf[cur], op')
    BY <1>5 DEF InterruptOperation, AnswerLost, RefuseAuthority, FailOperation, FailedState
  <2> QED BY <1>3, <2>1, <2>2
<1>6. ASSUME NEW g \in Turn, TurnCompleted(g) PROVE All
  <2>1. native[g] \in Turn /\ SessionOf[native[g]] = SessionOf[g]
    BY <1>6, GenTurn DEF TurnCompleted, Belongs, UsingInv, TypeInv, TypeOK, OutsideOK
  <2>2. \/ UNCHANGED <<op, sUncertain>>
        \/ /\ op' = [op EXCEPT ![native[g]] = FinalState(reported[native[g]])]
           /\ sUncertain' = Derived(SessionOf[native[g]], op')
    BY <1>6, <2>1 DEF TurnCompleted
  <2>3. CASE UNCHANGED <<op, sUncertain>>
    BY <2>3, ShowsKept
  <2>4. CASE /\ op' = [op EXCEPT ![native[g]] = FinalState(reported[native[g]])]
             /\ sUncertain' = Derived(SessionOf[native[g]], op')
    BY <1>0, <2>1, <2>4, ShowsDerived
  <2> QED BY <2>2, <2>3, <2>4
<1>7. ASSUME NEW g \in Turn, NativeRequests(g) PROVE All
  <2>1. native[g] \in Turn /\ SessionOf[native[g]] = SessionOf[g]
    BY <1>7, GenTurn DEF NativeRequests, Belongs, UsingInv, TypeInv, TypeOK, OutsideOK
  <2>2. /\ op[native[g]] \in Active /\ op' = [op EXCEPT ![native[g]] = "waiting"]
        /\ sUncertain' = [sUncertain EXCEPT ![SessionOf[native[g]]] = FALSE]
    BY <1>7, <2>1 DEF NativeRequests
  <2>3. \A u \in Turn : op'[u] = "uncertain" => op[u] = "uncertain"
    BY <1>0, <2>2
  <2>4. Announced(native[g])
    BY DEF Announced
  <2> QED BY <2>1, <2>2, <2>3, <2>4, ShowsCleared
<1>8. ASSUME MarkRunning PROVE All
  <2>1. cur \in Turn /\ Announced(cur)
    BY <1>8 DEF MarkRunning, Announced, TypeInv, StageOK, TurnStages
  <2>2. \/ UNCHANGED <<op, sUncertain>>
        \/ /\ op[cur] = "dispatching" /\ op' = [op EXCEPT ![cur] = "running"]
           /\ sUncertain' = [sUncertain EXCEPT ![SessionOf[cur]] = FALSE]
    BY <1>8 DEF MarkRunning
  <2>3. \A u \in Turn : op'[u] = "uncertain" => op[u] = "uncertain"
    BY <1>0, <2>2
  <2>4. CASE sUncertain' = sUncertain
    BY <2>3, <2>4, ShowsKept
  <2>5. CASE /\ op[cur] = "dispatching"
             /\ sUncertain' = [sUncertain EXCEPT ![SessionOf[cur]] = FALSE]
    BY <2>1, <2>3, <2>5, ShowsCleared DEF Active
  <2> QED BY <2>2, <2>4, <2>5
<1>9. ASSUME HaltQueue \/ AdmitReuse \/ AdmitNew PROVE All
  <2>1. /\ sUncertain' = sUncertain
        /\ \/ op' = op \/ op' = Dispatching
           \/ op' = [t \in Turn |-> IF op[t] = "queued" THEN "interrupted" ELSE op[t]]
    BY <1>9 DEF HaltQueue, AdmitReuse, AdmitNew
  <2>2. \A u \in Turn : op'[u] = "uncertain" => op[u] = "uncertain"
    BY <1>0, <2>1 DEF Dispatching
  <2> QED BY <2>1, <2>2, ShowsKept
<1>10. ASSUME NEW absent \in SUBSET Session, Startup(absent) PROVE All
  <2> SUFFICES ASSUME NEW s \in Session, HasUncertain(s, op') PROVE sUncertain'[s]
      BY DEF ShowsStep
  <2>1. op' = [t \in Turn |-> Recovered(t)]
    BY <1>10 DEF Startup
  <2>2. PICK t \in TurnsOf(s) : op'[t] = "uncertain"
    BY DEF HasUncertain
  <2>3. t \in Turn /\ SessionOf[t] = s
    BY DEF TurnsOf
  <2>4. op[t] \in Active \/ (op[t] = "uncertain" /\ sUncertain[s])
    BY <2>1, <2>2, <2>3 DEF Recovered, UncertaintyShown
  <2>5. \/ \E u \in TurnsOf(s) : op[u] \in Active
        \/ sUncertain[s] /\ \E u \in TurnsOf(s) : Recovered(u) \in Unsettled \cup {"uncertain"}
    BY <2>1, <2>2, <2>3, <2>4
  <2>6. ASSUME NEW u \in TurnsOf(s), Recovered(u) \in Unsettled \cup {"uncertain"}
        PROVE  [x \in Turn |-> Recovered(x)][u] \in Unsettled \cup {"uncertain"}
    BY <2>6 DEF TurnsOf
  <2> QED BY <1>10, <2>5, <2>6 DEF Startup
<1> HIDE DEF All
<1> QED BY <1>1, <1>2, <1>4, <1>5, <1>6, <1>7, <1>8, <1>9, <1>10 DEF TurnStep


\* Every step is a ShowsStep of every conversation.
LEMMA ShowsSteps ==
    ASSUME TypeInv, UsingInv, UncertaintyShown, Next
    PROVE  \A s \in Session : ShowsStep(s)
<1>1. CASE TurnStep
  BY <1>1, WritersShow
<1>2. ASSUME op' = op, sUncertain' = sUncertain
      PROVE  \A s \in Session : ShowsStep(s)
  BY <1>2, ShowsKept
<1>3. ASSUME op' = op, NEW g \in Turn, Release(g) \/ RetirementUncertain(g)
      PROVE  \A s \in Session : ShowsStep(s)
  <2>1. SessionOf[g] \in Session
    BY ConstantsAssumption
  <2>2. sUncertain' \in {sUncertain, Repaired(SessionOf[g], sUncertain),
                         [sUncertain EXCEPT ![SessionOf[g]] = TRUE]}
    BY <1>3 DEF Release, RetirementUncertain
  <2> QED BY <1>3, <2>1, <2>2, ShowsRepaired
<1>4. ASSUME op' = op, NEW r \in Session, ReconcileMember(r)
      PROVE  \A s \in Session : ShowsStep(s)
  <2>1. sUncertain' \in {sUncertain, Repaired(r, sUncertain)}
    BY <1>4 DEF ReconcileMember
  <2> QED BY <1>4, <2>1, ShowsRepaired
<1>5. \/ TurnStep
      \/ sUncertain' = sUncertain
      \/ \E g \in Turn : Release(g) \/ RetirementUncertain(g)
      \/ \E r \in Session : ReconcileMember(r)
  <2> USE DEF durable, rows, others
  <2>1. Api => TurnStep \/ sUncertain' = sUncertain
    BY DEF Api, TurnStep, BackgroundStop, EmergencyStop
  <2>2. Native => sUncertain' = sUncertain
    BY DEF Native, ProcessDies, NativeFinishes
  <2>3. Mailbox => TurnStep \/ sUncertain' = sUncertain
    BY DEF Mailbox, TurnStep, Poison, TurnFinished, Inspect, Classify
  <2>4. Retirement => \/ sUncertain' = sUncertain
                      \/ \E g \in Turn : Release(g) \/ RetirementUncertain(g)
    BY DEF Retirement, Retire, RetireLost, RetirementConfirmed, RetirementUnconfirmed,
           SettlementLost
  <2>5. Control => \/ TurnStep \/ sUncertain' = sUncertain
                   \/ \E r \in Session : ReconcileMember(r)
    BY DEF Control, TurnStep, BeginPass, HaltRuntime, ReconcileRuntime, AnswerRequest,
           AnswerRecorded, CloseAdapter
  <2>6. Dispatch => TurnStep \/ sUncertain' = sUncertain
    BY DEF Dispatch, TurnStep, Snapshot, EndPass, Consider, ConsiderCapacity, Blocked,
           Route, Evict, EvictionDone, Capture, RetireAwaited, Retired, DispatchThrows,
           Launch, SaveIdentity, Transport, Claim, Send, Acknowledge, MarkLost, Cleanup
  <2>7. Failure => TurnStep \/ sUncertain' = sUncertain
    BY DEF Failure, TurnStep, PassLost, AwaitLost, AdmissionLost, ReuseLost, Crash
  <2> QED BY <2>1, <2>2, <2>3, <2>4, <2>5, <2>6, <2>7 DEF Next
<1> QED BY TurnSteps, <1>1, <1>2, <1>3, <1>4, <1>5

(***************************************************************************)
(* UncertaintyShown is not inductive: the two handlers that clear the flag *)
(* without looking are only right because the turn they serve was sent,    *)
(* and while a turn that was sent is active no other turn of its           *)
(* conversation is uncertain.  The fence before the request establishes    *)
(* that; it lasts because an uncertain turn was active itself, and a       *)
(* conversation has one active turn.                                       *)
(***************************************************************************)
SentAlone == \A t \in Turn :
    sent[t] > 0 /\ op[t] \in Active => ~HasUncertain(SessionOf[t], op)

ShownInv ==
    /\ UncertaintyShown
    /\ at = "mark" => sent[cur] > 0
    /\ SentAlone

\* A turn only becomes uncertain out of work.
LEMMA DoubtMoves ==
    ASSUME TypeInv, LeftInv, Next, NEW t \in Turn,
           op'[t] = "uncertain", op[t] # "uncertain"
    PROVE  op[t] \in Active
BY TurnMoves
DEF TurnMove, LeftInv, PendingLeft, AnsweredLeft, Left, Unsettled, Active, Settled

\* A turn that was sent stays so.
LEMMA StaysSent ==
    ASSUME TypeInv, Next, NEW t \in Turn, sent[t] > 0
    PROVE  sent'[t] > 0
BY SentGrows

\* A written turn stays the only one of its conversation that is active.
LEMMA SentAloneKept ==
    ASSUME TypeInv, SentInv, ActiveInv, LeftInv, ShownInv, Next
    PROVE  SentAlone'
<1> SUFFICES ASSUME NEW t \in Turn, sent'[t] > 0, op'[t] \in Active,
                    NEW u \in Turn, SessionOf[u] = SessionOf[t], op'[u] = "uncertain"
             PROVE  FALSE
    BY DEF SentAlone, HasUncertain, TurnsOf
<1>1. op[t] \in Active
  <2> SUFFICES ASSUME op[t] \notin Active PROVE FALSE
      OBVIOUS
  <2>1. t = cur /\ Admission
    BY ActiveGrows DEF ActiveTurns
  <2>2. sent[cur] = 0
    BY <2>1 DEF Admission, SentInv, Chosen, Choosing, Written, Awaiting
  <2> QED BY <2>1, <2>2 DEF Admission
<1>2. CASE op[u] = "uncertain"
  <2>1. HasUncertain(SessionOf[t], op)
    BY <1>2 DEF HasUncertain, TurnsOf
  <2>2. ~(sent[t] > 0)
    BY <1>1, <2>1 DEF ShownInv, SentAlone
  <2>3. Send /\ t = cur /\ sent' # sent
    BY <2>2, SentGrows
  <2>4. Fenced(tgen, SessionOf[cur])
    BY <2>3 DEF Send
  <2> QED BY <2>1, <2>3, <2>4 DEF Fenced
<1>3. CASE op[u] # "uncertain"
  <2>1. op[u] \in Active
    BY <1>3, DoubtMoves
  <2>2. u = t
    BY <1>1, <2>1 DEF ActiveInv, OneActive, ActiveTurns
  <2> QED BY <2>2 DEF Active
<1> QED BY <1>2, <1>3

\* Every step keeps the doubt about a turn visible in its conversation.
LEMMA ShownStep ==
    TypeInv /\ SentInv /\ HonestInv /\ ActiveInv /\ LeftInv /\ UsingInv /\ ShownInv /\ Next
        => ShownInv'
<1> SUFFICES ASSUME TypeInv, SentInv, HonestInv, ActiveInv, LeftInv, UsingInv, ShownInv, Next
             PROVE  ShownInv'
    OBVIOUS
<1>1. UncertaintyShown'
  <2> SUFFICES ASSUME NEW t \in Turn, op'[t] = "uncertain"
               PROVE  sUncertain'[SessionOf[t]]
      BY DEF UncertaintyShown
  <2>1. SessionOf[t] \in Session /\ HasUncertain(SessionOf[t], op')
    BY ConstantsAssumption DEF HasUncertain, TurnsOf
  <2>2. ASSUME NEW u \in TurnsOf(SessionOf[t]), op[u] \in Active, Announced(u),
               HasUncertain(SessionOf[t], op)
        PROVE  FALSE
    <3>1. u \in Turn /\ SessionOf[u] = SessionOf[t] /\ u # 0
      BY <2>2, ConstantsAssumption DEF TurnsOf, Turn
    <3>2. sent[u] > 0
      BY <2>2, <3>1 DEF Announced, HonestInv, ShownInv
    <3> QED BY <2>2, <3>1, <3>2 DEF ShownInv, SentAlone
  <2> QED BY <2>1, <2>2, ShowsSteps DEF ShownInv, ShowsStep
<1>2. at' = "mark" => sent'[cur'] > 0
  <2> SUFFICES ASSUME at' = "mark" PROVE sent'[cur'] > 0
      OBVIOUS
  <2>1. CASE UNCHANGED tick
    <3>1. at = "mark" /\ cur' = cur /\ cur \in Turn
      BY <2>1 DEF tick, register, dispatch, TypeInv, StageOK, TurnStages
    <3> QED BY <3>1, StaysSent DEF ShownInv
  <2>2. ASSUME NEW answered \in BOOLEAN, Acknowledge(answered) PROVE sent'[cur'] > 0
    <3>1. native[tgen] = cur /\ cur' = cur /\ at = "ack"
      BY <2>2 DEF Acknowledge, Throw, register, dispatch
    <3>2. cur \in Turn /\ tgen \in Turn /\ cur # 0
      BY <3>1, ConstantsAssumption DEF TypeInv, StageOK, TurnStages, UsingInv, Running, Turn
    <3>3. sent[cur] > 0
      BY <3>1, <3>2 DEF HonestInv
    <3> QED BY <3>1, <3>2, <3>3, StaysSent
  <2>3. ~Chooses /\ ~AdmitReuse /\ ~Transport /\ ~Claim /\ ~Send
    BY DEF Chooses, AdmitReuse, Skip, Transport, Claim, Send, Throw
  <2> QED BY <2>1, <2>2, <2>3, RunningMoves DEF Running
<1> QED BY <1>1, <1>2, SentAloneKept DEF ShownInv

\* ShownInv holds at first and is kept.
LEMMA ShownInit == Init => ShownInv
BY DEF Init, ShownInv, UncertaintyShown, SentAlone

\* ... and so does a stutter.
LEMMA ShownStable ==
    TypeInv /\ SentInv /\ HonestInv /\ ActiveInv /\ LeftInv /\ UsingInv /\ ShownInv
        /\ [Next]_vars => ShownInv'
<1>1. ASSUME ShownInv, UNCHANGED vars PROVE ShownInv'
  BY <1>1
  DEF vars, durable, tick, register, dispatch, outside, history, ShownInv, UncertaintyShown,
      SentAlone, HasUncertain
<1> QED BY <1>1, ShownStep

\* HonestInv is kept.
LEMMA HonestStable == TypeInv /\ SentInv /\ HonestInv /\ [Next]_vars => HonestInv'
<1>1. ASSUME HonestInv, UNCHANGED vars PROVE HonestInv'
  BY <1>1 DEF vars, durable, tick, register, dispatch, outside, history, HonestInv,
              HonestOutcome, Halting, Walking, Chosen, Written
<1> QED BY <1>1, HonestStep

\* All that is invariant about the dispatcher.
Invariants == /\ TypeInv /\ SentInv /\ HonestInv /\ ReserveInv
              /\ ActiveInv /\ DispatchedInv /\ UsingInv

\* They all hold in every reachable state.
LEMMA Inductive == Spec => []Invariants
<1>1. Init => Invariants
  BY TypeInit, SentInit, HonestInit, ReserveInit, ActiveInit, DispatchedInit, UsingInit
  DEF Invariants
<1>2. Invariants /\ [Next]_vars => Invariants'
  BY TypeNext, SentStable, HonestStable, ReserveStable, ActiveStable, DispatchedStable,
     UsingStable
  DEF Invariants
<1> QED BY <1>1, <1>2, PTL DEF Spec

\* What also holds as long as no admission is rolled back.
LEMMA SteadyInductive == ASSUME Steady PROVE Spec => [](LeftInv /\ ShownInv)
<1>1. Init => LeftInv /\ ShownInv
  BY LeftInit, ShownInit
<1>2. Invariants /\ LeftInv /\ ShownInv /\ [Next]_vars => LeftInv' /\ ShownInv'
  BY LeftStable, ShownStable DEF Invariants
<1> QED BY <1>1, <1>2, Inductive, PTL DEF Spec

(***************************************************************************)
(* A conversation with an uncertain turn shows it, whichever of the many   *)
(* writers of sessions.state came last.  The assumption leaves out the     *)
(* admission that names a turn to the runtime it reuses and then fails to  *)
(* commit: with a second failure in the catch clause the turn stays queued *)
(* on that runtime, and its doubt can be settled while a later turn of the *)
(* conversation works and announces itself.                                *)
(***************************************************************************)
THEOREM UncertainIsShown == ASSUME Steady PROVE Spec => []UncertaintyShown
<1>1. ShownInv => UncertaintyShown
  BY DEF ShownInv
<1> QED BY <1>1, SteadyInductive, PTL

-----------------------------------------------------------------------------
(* The moment a request is written.                                        *)

\* What SendFenced asks for when the request of t is written.
SentFenced(t) ==
    LET s == SessionOf[t]
        g == opGen[t]
    IN
    /\ op[t] = "dispatching" /\ ~emergency
    /\ member[s].gen = g /\ member[s].ident /\ sgen[s] = g
    /\ \A u \in TurnsOf(s) \ {t} : op[u] \notin Active \cup {"uncertain"}

\* The fence holds in the step that writes the request.
LEMMA SendStep ==
    ASSUME Invariants, Next, NEW t \in Turn, sent'[t] # sent[t]
    PROVE  SentFenced(t)
<1>1. /\ TypeInv /\ ActiveInv /\ DispatchedInv /\ UsingInv
      /\ Mapped /\ Recorded
  BY DEF Invariants, ReserveInv
<1>2. Send /\ t = cur /\ at = "send"
  BY <1>1, SentGrows
<1>3. Fenced(tgen, SessionOf[t])
  BY <1>2 DEF Send
<1>4. tgen \in Turn /\ tgen # 0 /\ SessionOf[tgen] = SessionOf[t] /\ opGen[t] = tgen
  BY <1>1, <1>2, ConstantsAssumption DEF UsingInv, Running, Turn
<1>5. SessionOf[t] \in Session /\ map[SessionOf[t]] = tgen
  BY <1>3, <1>4, ConstantsAssumption DEF Fenced, Current
<1>6. member[SessionOf[t]].gen = tgen /\ rt[tgen] # "absent"
  BY <1>1, <1>4, <1>5 DEF Mapped
<1>7. member[SessionOf[t]].ident
  BY <1>1, <1>4, <1>6 DEF Recorded
<1>8. op[t] = "dispatching"
  BY <1>1, <1>2, <1>3
  DEF DispatchedInv, StillSendable, Admitted, Bringing, Fenced, HasUncertain, TurnsOf
<1>9. \A u \in TurnsOf(SessionOf[t]) \ {t} : op[u] \notin Active \cup {"uncertain"}
  BY <1>1, <1>3, <1>8 DEF Fenced, HasUncertain, TurnsOf, ActiveInv, OneActive, ActiveTurns, Active
<1> QED BY <1>3, <1>4, <1>6, <1>7, <1>8, <1>9 DEF Fenced, SentFenced

(***************************************************************************)
(* The fence reads the runtimes map, the session and the uncertain turns   *)
(* under the lock; that the turn itself is still dispatching, that the row *)
(* reserves the runtime under a recorded identity and that no other turn   *)
(* of the conversation is active are not read again: they follow from what *)
(* the admission did and from what every other handler leaves alone.       *)
(***************************************************************************)
THEOREM SendIsFenced == Spec => SendFenced
<1>1. ASSUME UNCHANGED vars, NEW t \in Turn PROVE sent'[t] = sent[t]
  BY <1>1 DEF vars, outside, history
<1>2. ASSUME Invariants, [Next]_vars
      PROVE  [\A t \in Turn : sent'[t] # sent[t] => SentFenced(t)]_vars
  BY <1>1, <1>2, SendStep
<1> QED BY <1>2, Inductive, PTL DEF Spec, SendFenced, SentFenced

-----------------------------------------------------------------------------
(* The ledger of turns.                                                    *)

\* A single turn changes its state, except in the emergency stop's sweep of the
\* queue and in a restart.
OneMoves == \E t \in Turn : \A u \in Turn \ {t} : op'[u] = op[u]

\* ... so that every other step changes one row.
LEMMA OneTurnMoves ==
    TypeInv /\ Next => \/ op' = op \/ OneMoves \/ HaltQueue
                       \/ \E absent \in SUBSET Session : Startup(absent)
<1> SUFFICES ASSUME TypeInv, TurnStep, ~HaltQueue,
                    ~(\E absent \in SUBSET Session : Startup(absent))
             PROVE  op' = op \/ OneMoves
    BY TurnSteps
<1>0. op \in [Turn -> OpState]
  BY DEF TypeInv, TypeOK, DurableOK
<1>1. ASSUME NEW t \in Turn, NEW state, op' = [op EXCEPT ![t] = state] PROVE OneMoves
  BY <1>0, <1>1 DEF OneMoves
<1>2. ASSUME NEW t \in Turn, NEW state, op' = Updated(t, state) PROVE op' = op \/ OneMoves
  BY <1>1, <1>2 DEF Updated
<1>3. ASSUME NEW t \in Turn, Accept(t) \/ CancelQueued(t) \/ SettleUncertain(t)
      PROVE  op' = op \/ OneMoves
  BY <1>1, <1>2, <1>3 DEF Accept, CancelQueued, SettleUncertain
<1>4. ASSUME NEW g \in Turn, TurnCompleted(g) \/ NativeRequests(g) PROVE op' = op \/ OneMoves
  <2>1. native[g] \in Turn
    BY <1>4, GenTurn DEF TurnCompleted, NativeRequests, Belongs, TypeInv, TypeOK, OutsideOK
  <2>2. op' = op \/ \E state \in {"waiting", FinalState(reported[native[g]])} :
                      op' = [op EXCEPT ![native[g]] = state]
    BY <1>4 DEF TurnCompleted, NativeRequests
  <2> QED BY <1>1, <2>1, <2>2
<1>5. ASSUME InterruptOperation \/ AnswerLost \/ RefuseAuthority \/ FailOperation
             \/ AdmitReuse \/ AdmitNew \/ MarkRunning
      PROVE  op' = op \/ OneMoves
  <2>1. cur \in Turn
    BY <1>5 DEF InterruptOperation, AnswerLost, RefuseAuthority, FailOperation, AdmitReuse,
       AdmitNew, MarkRunning, TypeInv, StageOK, TurnStages
  <2>2. \/ op' = op
        \/ \E state \in OpState : op' = Updated(cur, state)
        \/ \E state \in OpState : op' = [op EXCEPT ![cur] = state]
    BY <1>5, <2>1, <1>0 DEF InterruptOperation, AnswerLost, RefuseAuthority, FailOperation,
       FailedState, AdmitReuse, AdmitNew, MarkRunning, Dispatching, OpState, Unsettled, Active,
       Settled
  <2> QED BY <1>1, <1>2, <2>1, <2>2
<1> QED BY <1>3, <1>4, <1>5 DEF TurnStep

\* Who names the native turn of a runtime.
LEMMA RtTurnSteps ==
    TypeInv /\ Next => \A g \in Turn :
        \/ rtTurn'[g] \in {0, rtTurn[g]}
        \/ Acknowledge(TRUE) /\ rtTurn'[g] = cur /\ at' = "mark" /\ g = tgen
<1> DEFINE Lower == \A g \in Turn : rtTurn'[g] \in {0, rtTurn[g]}
<1> SUFFICES ASSUME TypeInv, Next, ~Lower
             PROVE  /\ Acknowledge(TRUE) /\ at' = "mark"
                    /\ \A g \in Turn : rtTurn'[g] = rtTurn[g] \/ (rtTurn'[g] = cur /\ g = tgen)
    OBVIOUS
<1>0. rtTurn \in [Turn -> Gen]
  BY DEF TypeInv, TypeOK, MemoryOK
<1> USE DEF memory
<1>1. Api \/ Native => Lower
  BY DEF Api, Accept, BackgroundStop, EmergencyStop, Native, ProcessDies, NativeFinishes
<1>2. Mailbox => Lower
  BY DEF Mailbox, Poison, SettleUncertain, TurnCompleted, TurnFinished, NativeRequests,
         Inspect, Classify
<1>3. Retirement => Lower
  BY <1>0 DEF Retirement, Retire, RetireLost, RetirementConfirmed, RetirementUnconfirmed, Forget,
         Release, RetirementUncertain, SettlementLost
<1>4. Control => Lower
  BY DEF Control, BeginPass, HaltRuntime, InterruptOperation, HaltQueue, ReconcileMember,
         ReconcileRuntime, AnswerRequest, AnswerRecorded, AnswerLost, CloseAdapter, CancelQueued
<1>5. CASE Dispatch
  <2>1. Claim => Lower
    BY <1>0 DEF Claim
  <2>2. ~Acknowledge(FALSE)
    BY DEF Acknowledge
  <2>3. Claim \/ rtTurn' = rtTurn \/ \E answered \in BOOLEAN : Acknowledge(answered)
    BY <1>5 DEF Dispatch, Snapshot, EndPass, Consider, ConsiderCapacity, Blocked, RefuseAuthority,
       Route, Evict, EvictionDone, Capture, RetireAwaited, Retired, DispatchThrows, AdmitReuse,
       AdmitNew, Launch, SaveIdentity, Transport, Send, MarkRunning, MarkLost, FailOperation,
       Cleanup
  <2>4. Acknowledge(TRUE)
    BY <2>1, <2>2, <2>3
  <2>5. at' = "mark" /\ rtTurn' = [rtTurn EXCEPT ![tgen] = cur]
    BY <2>4 DEF Acknowledge
  <2> QED BY <1>0, <2>4, <2>5
<1>6. Failure => Lower
  BY <1>0 DEF Failure, PassLost, AwaitLost, AdmissionLost, ReuseLost, Crash, Startup
<1> QED BY <1>1, <1>2, <1>3, <1>4, <1>5, <1>6 DEF Next

\* Who writes harbor_meta.emergency.
LEMMA EmergencySteps == Next => EmergencyStop \/ emergency' = emergency
<1> USE DEF durable, rows, others
<1>1. Api \/ Native => EmergencyStop \/ emergency' = emergency
  BY DEF Api, Accept, BackgroundStop, Native, ProcessDies, NativeFinishes
<1>2. Mailbox => emergency' = emergency
  BY DEF Mailbox, Poison, SettleUncertain, TurnCompleted, TurnFinished, NativeRequests,
         Inspect, Classify
<1>3. Retirement => emergency' = emergency
  BY DEF Retirement, Retire, RetireLost, RetirementConfirmed, RetirementUnconfirmed,
         Release, RetirementUncertain, SettlementLost
<1>4. Control => emergency' = emergency
  BY DEF Control, BeginPass, HaltRuntime, InterruptOperation, HaltQueue, ReconcileMember,
         ReconcileRuntime, AnswerRequest, AnswerRecorded, AnswerLost, CloseAdapter, CancelQueued
<1>5. Dispatch => emergency' = emergency
  BY DEF Dispatch, Snapshot, EndPass, Consider, ConsiderCapacity, Blocked, RefuseAuthority,
         Route, Evict, EvictionDone, Capture, RetireAwaited, Retired, DispatchThrows, AdmitReuse,
         AdmitNew, Launch, SaveIdentity, Transport, Claim, Send, Acknowledge, MarkRunning,
         MarkLost, FailOperation, Cleanup
<1>6. Failure => emergency' = emergency
  BY DEF Failure, PassLost, AwaitLost, AdmissionLost, ReuseLost, Crash, Startup
<1> QED BY <1>1, <1>2, <1>3, <1>4, <1>5, <1>6 DEF Next

\* What leads to the wait for an answer and to the catch clause.
LEMMA FailMoves ==
    ASSUME TypeInv, Next, at' \in {"ack", "fail"}
    PROVE  \/ cur' = cur /\ (Chosen \/ at \in {"ack", "fail"})
           \/ MarkLost
<1> DEFINE Goal == cur' = cur /\ (Chosen \/ at \in {"ack", "fail"})
<1> USE DEF tick, register, dispatch
<1>1. ~Skip /\ ~AbandonPass
  BY DEF Skip, AbandonPass
<1>2. ASSUME UNCHANGED tick PROVE Goal
  BY <1>2
<1>3. CASE Control
  <2>1. ~BeginPass /\ ~InterruptOperation /\ ~HaltQueue /\ ~AnswerRecorded /\ ~AnswerLost
        /\ ~CloseAdapter
    BY DEF BeginPass, InterruptOperation, AwaitRetire, HaltQueue, AnswerRecorded, AnswerLost,
           CloseAdapter
  <2>2. \A s \in Session :
           /\ ~HaltRuntime(s) /\ ~ReconcileMember(s)
           /\ \A c \in Classification, expired \in BOOLEAN : ~ReconcileRuntime(s, c, expired)
           /\ \A delivered \in BOOLEAN : ~AnswerRequest(s, delivered)
    BY DEF HaltRuntime, ReconcileMember, ReconcileRuntime, AnswerRequest, AwaitRetire
  <2>3. \A t \in Turn : ~CancelQueued(t)
    BY DEF CancelQueued
  <2> QED BY <1>3, <2>1, <2>2, <2>3 DEF Control
<1>4. ASSUME at \in Awaiting PROVE ~Continue(wait.next) /\ ~NotRetired
  <2>1. wait.next \in {"halt", "control", "evict", "replace", "dispatch"}
    BY <1>4, WaitType DEF TypeInv, TypeOK, TickOK, StageOK, Awaiting, NextStage
  <2> QED BY <1>1, <2>1 DEF Continue, NotRetired
<1>5. CASE Dispatch
  <2>1. ASSUME Special PROVE Goal
    BY <1>1, <2>1 DEF Special, Snapshot, Consider, AdmitReuse, AdmitNew, Send, Throw, Chosen,
       Choosing, Bringing
  <2>2. ASSUME DispatchThrows \/ SaveIdentity PROVE Goal
    BY <2>2 DEF DispatchThrows, SaveIdentity, Throw, Chosen, Choosing, Bringing
  <2>3. ASSUME NEW answered \in BOOLEAN, Acknowledge(answered) PROVE Goal
    BY <2>3 DEF Acknowledge, Throw
  <2>4. \A c \in Classification : ~RetireAwaited(c)
    BY <1>4 DEF RetireAwaited, Awaiting
  <2>5. ~Retired
    BY <1>4 DEF Retired, Awaiting
  <2>6. /\ \A v \in Session : ~Evict(v)
        /\ \A replace \in BOOLEAN : ~Capture(replace)
        /\ ~EndPass /\ ~ConsiderCapacity /\ ~Blocked /\ ~RefuseAuthority /\ ~Route /\ ~EvictionDone
        /\ ~Launch /\ ~Transport /\ ~Claim /\ ~MarkRunning /\ ~FailOperation /\ ~Cleanup
    BY <1>1 DEF Evict, Capture, EndPass, ConsiderCapacity, Blocked, RefuseAuthority, Route,
       EvictionDone, Launch, Transport, Claim, MarkRunning, FailOperation, Cleanup, AwaitRetire
  <2> HIDE DEF Goal
  <2>7. Goal \/ MarkLost
    BY <1>5, <2>1, <2>2, <2>3, <2>4, <2>5, <2>6 DEF Dispatch, Special
  <2> QED BY <2>7 DEF Goal
<1>6. CASE Failure
  <2>1. ~PassLost /\ ~Crash
    BY <1>1 DEF PassLost, Crash
  <2>2. ASSUME AwaitLost \/ AdmissionLost PROVE Goal
    BY <1>1, <2>2 DEF AwaitLost, AdmissionLost, AwaitRejects, Chosen, Awaiting
  <2>3. ASSUME ReuseLost PROVE Goal
    BY <2>3 DEF ReuseLost, Throw, Chosen, Choosing
  <2> QED BY <1>2, <1>6, <2>1, <2>2, <2>3 DEF Failure, Startup
<1> QED BY NotTheTick, <1>2, <1>3, <1>5, <1>6 DEF Next

-----------------------------------------------------------------------------
(* Outcomes that stand.                                                    *)

\* Who names the runtime of a turn.
LEMMA OpGenMoves ==
    TypeInv /\ Next => \A t \in Turn :
        \/ opGen'[t] = opGen[t]
        \/ /\ t = cur /\ opGen'[t] = tgen
           /\ \/ AdmitReuse /\ at' = "claim"
              \/ AdmitNew /\ at' = "prepare"
              \/ Claim
<1> SUFFICES ASSUME TypeInv, Next, NEW t \in Turn, opGen'[t] # opGen[t]
             PROVE  /\ t = cur /\ opGen'[t] = tgen
                    /\ \/ AdmitReuse /\ at' = "claim"
                       \/ AdmitNew /\ at' = "prepare"
                       \/ Claim
    OBVIOUS
<1>1. opGen \in [Turn -> Gen]
  BY DEF TypeInv, TypeOK, DurableOK
<1>2. AdmitReuse => /\ opGen' \in {opGen, [opGen EXCEPT ![cur] = tgen]}
                    /\ opGen' # opGen => at' = "claim"
  BY DEF AdmitReuse
<1>3. AdmitNew => /\ opGen' \in {opGen, [opGen EXCEPT ![cur] = tgen]}
                  /\ opGen' # opGen => at' = "prepare"
  BY DEF AdmitNew
<1>4. Claim => opGen' = [opGen EXCEPT ![cur] = tgen]
  BY DEF Claim
<1>5. opGen' = [opGen EXCEPT ![cur] = tgen] => t = cur /\ opGen'[t] = tgen
  BY <1>1
<1> QED BY OpGenSteps, <1>2, <1>3, <1>4, <1>5

\* The turn in hand was not sent before it is.
LEMMA NotSent ==
    ASSUME TypeInv, SentInv, Chosen
    PROVE  cur \in Turn /\ cur # 0 /\ sent[cur] = 0
<1>1. ~Written
  BY DEF Chosen, Written, Choosing, Bringing, Awaiting
<1>2. cur \in cands /\ cur \in Turn
  BY DEF SentInv, TypeInv, TypeOK, TickOK
<1>3. cur # 0
  BY <1>2, ConstantsAssumption DEF Turn
<1> QED BY <1>1, <1>2, <1>3 DEF SentInv

\* The native turn a runtime names was sent.
NamesSent == \A g \in Turn : rtTurn[g] # 0 => sent[rtTurn[g]] > 0

\* A runtime names a turn when it answers its request.
LEMMA NamesSentKept ==
    ASSUME TypeInv, HonestInv, UsingInv, NamesSent, Next
    PROVE  NamesSent'
<1> SUFFICES ASSUME NEW g \in Turn, rtTurn'[g] # 0 PROVE sent'[rtTurn'[g]] > 0
    BY DEF NamesSent
<1>1. rtTurn \in [Turn -> Gen]
  BY DEF TypeInv, TypeOK, MemoryOK
<1>2. CASE rtTurn'[g] = rtTurn[g]
  <2>1. rtTurn[g] \in Turn /\ sent[rtTurn[g]] > 0
    BY <1>1, <1>2, GenTurn DEF NamesSent
  <2> QED BY <1>2, <2>1, StaysSent
<1>3. CASE Acknowledge(TRUE) /\ rtTurn'[g] = cur
  <2>1. native[tgen] = cur /\ at = "ack"
    BY <1>3 DEF Acknowledge
  <2>2. cur \in Turn /\ tgen \in Turn /\ cur # 0
    BY <2>1, ConstantsAssumption DEF TypeInv, StageOK, TurnStages, UsingInv, Running, Turn
  <2>3. sent[cur] > 0
    BY <2>1, <2>2 DEF HonestInv
  <2> QED BY <1>3, <2>2, <2>3, StaysSent
<1> QED BY <1>2, <1>3, RtTurnSteps

\* Transactions that failed are counted.
LEMMA LostSteps == TypeInv /\ Next => lost' \in {lost, lost + 1}
<1> USE DEF faults
<1>1. Api \/ Native => lost' = lost
  BY DEF Api, Accept, BackgroundStop, EmergencyStop, Native, ProcessDies, NativeFinishes
<1>2. Mailbox => lost' = lost
  BY DEF Mailbox, Poison, SettleUncertain, TurnCompleted, TurnFinished, NativeRequests,
         Inspect, Classify
<1>3. Retirement => lost' \in {lost, lost + 1}
  BY DEF Retirement, Retire, RetireLost, RetirementConfirmed, RetirementUnconfirmed,
         Release, RetirementUncertain, SettlementLost
<1>4. Control => lost' = lost
  BY DEF Control, BeginPass, HaltRuntime, InterruptOperation, HaltQueue, ReconcileMember,
         ReconcileRuntime, AnswerRequest, AnswerRecorded, AnswerLost, CloseAdapter, CancelQueued
<1>5. Dispatch => lost' \in {lost, lost + 1}
  BY DEF Dispatch, Snapshot, EndPass, Consider, ConsiderCapacity, Blocked, RefuseAuthority,
         Route, Evict, EvictionDone, Capture, RetireAwaited, Retired, DispatchThrows, AdmitReuse,
         AdmitNew, Launch, SaveIdentity, Transport, Claim, Send, Acknowledge, MarkRunning,
         MarkLost, FailOperation, Cleanup
<1>6. Failure => lost' \in {lost, lost + 1}
  BY DEF Failure, PassLost, AwaitLost, AdmissionLost, ReuseLost, Crash, Startup
<1> QED BY <1>1, <1>2, <1>3, <1>4, <1>5, <1>6 DEF Next

(***************************************************************************)
(* As long as no transaction failed the catch clause overwrites no outcome:*)
(* a runtime can only end the turn it acknowledged, and the tick that was  *)
(* answered marks the turn running.                                        *)
(***************************************************************************)
LedgerInv ==
    /\ emergency => Emergencies
    /\ NamesSent
    /\ lost = 0 /\ at \in {"ack", "fail"} =>
         /\ op[cur] \in {"queued", "dispatching", "uncertain"}
         /\ \A g \in Turn : rtTurn[g] # cur

\* Every step keeps it.
LEMMA LedgerInvStep ==
    ASSUME Invariants, LedgerInv, Next
    PROVE  LedgerInv'
<1>1. /\ TypeInv /\ SentInv /\ HonestInv /\ DispatchedInv /\ UsingInv
  BY DEF Invariants
<1>2. rtTurn \in [Turn -> Gen] /\ cands \subseteq Turn
  BY <1>1 DEF TypeInv, TypeOK, MemoryOK, TickOK
<1>3. emergency' => Emergencies
  BY EmergencySteps DEF EmergencyStop, LedgerInv
<1>4. NamesSent'
  BY <1>1, NamesSentKept DEF LedgerInv
<1>5. ASSUME lost' = 0, at' \in {"ack", "fail"}
      PROVE  /\ op'[cur'] \in {"queued", "dispatching", "uncertain"}
             /\ \A g \in Turn : rtTurn'[g] # cur'
  <2>0. lost \in Nat
    BY <1>1, ConstantsAssumption DEF TypeInv, TypeOK, OutsideOK
  <2>1. lost = 0 /\ ~MarkLost
    BY <1>1, <1>5, <2>0, LostSteps DEF MarkLost
  <2>2. cur' = cur /\ (Chosen \/ at \in {"ack", "fail"})
    BY <1>1, <1>5, <2>1, FailMoves
  <2>3. /\ cur \in Turn /\ cur # 0
        /\ op[cur] \in {"queued", "dispatching", "uncertain"}
        /\ \A g \in Turn : rtTurn[g] # cur
    <3>1. CASE at \in {"ack", "fail"}
      BY <1>1, <2>1, <3>1, ConstantsAssumption DEF LedgerInv, TypeInv, StageOK, TurnStages, Turn
    <3>2. CASE Chosen
      <4>0. ~Written
        BY <3>2 DEF Chosen, Written, Choosing, Bringing, Awaiting
      <4>1. cur \in cands /\ cur \in Turn
        BY <1>1, <1>2, <3>2 DEF SentInv
      <4>2. cur # 0
        BY <4>1, ConstantsAssumption DEF Turn
      <4>3. sent[cur] = 0
        BY <1>1, <4>0, <4>1 DEF SentInv
      <4>4. op[cur] \in {"queued", "dispatching", "uncertain"}
        BY <1>1, <4>0, <4>1 DEF DispatchedInv, CandsOpen, StillSendable
      <4> QED BY <1>2, <4>1, <4>2, <4>3, <4>4 DEF LedgerInv, NamesSent
    <3> QED BY <2>2, <3>1, <3>2
  <2>4. at \notin {"halt", "control", "interrupt", "mark"}
    BY <2>2 DEF Chosen, Choosing, Bringing, Awaiting
  <2>5. ~RefuseAuthority /\ ~Admission /\ ~FailOperation
    BY <1>5 DEF RefuseAuthority, Skip, Admission, FailOperation
  <2>6. op'[cur] \in {"queued", "dispatching", "uncertain"}
    BY <1>1, <2>3, <2>4, <2>5, TurnMoves DEF TurnMove, MarkRunning
  <2>7. \A g \in Turn : rtTurn'[g] # cur
    BY <1>1, <1>5, <2>3, RtTurnSteps
  <2> QED BY <2>2, <2>6, <2>7
<1> QED BY <1>3, <1>4, <1>5 DEF LedgerInv

\* ... and so does a stutter.
LEMMA LedgerInvStable == Invariants /\ LedgerInv /\ [Next]_vars => LedgerInv'
<1>1. ASSUME LedgerInv, UNCHANGED vars PROVE LedgerInv'
  BY <1>1 DEF vars, durable, memory, tick, register, dispatch, outside, history, faults,
     LedgerInv, NamesSent
<1> QED BY <1>1, LedgerInvStep

\* What was refused was still queued, or is uncertain and stays so.
LEMMA RefusedWaited ==
    ASSUME Invariants, RefuseAuthority, op'[cur] # op[cur]
    PROVE  op[cur] = "queued"
<1>1. op[cur] \in {"queued", "uncertain"} /\ cur \in Turn
  BY DEF Invariants, RefuseAuthority, DispatchedInv, CandsOpen, SentInv, Chosen, Choosing,
         Admitted, Bringing, Written, Awaiting, TypeInv, TypeOK, TickOK
<1> QED BY <1>1, OpSteps DEF Invariants, RefuseAuthority, Updated, TypeInv, TypeOK, DurableOK

\* An outcome stays, unless the emergency stop was pressed or a transaction failed.
OutcomeStands == [][\A t \in Turn :
    op[t] \in Settled => op'[t] = op[t] \/ emergency \/ lost > 0]_vars

\* No step overwrites an outcome, short of these two.
LEMMA OutcomeStep ==
    ASSUME Invariants, LedgerInv, Next, NEW t \in Turn, op[t] \in Settled, ~emergency, lost = 0
    PROVE  op'[t] = op[t]
<1>1. TypeInv /\ HonestInv
  BY DEF Invariants
<1>2. TurnMove(t)
  BY <1>1, TurnMoves
<1>3. at # "interrupt"
  BY <1>1 DEF HonestInv, Halting
<1>4. ~(t = cur /\ RefuseAuthority) \/ op'[t] = op[t]
  BY RefusedWaited DEF Settled
<1>5. ~(t = cur /\ FailOperation /\ op'[t] = "failed")
  <2> SUFFICES ASSUME t = cur, FailOperation, op'[t] = "failed" PROVE FALSE
      OBVIOUS
  <2>1. at = "fail"
    BY DEF FailOperation
  <2> QED BY <2>1 DEF LedgerInv, Settled
<1> QED BY <1>2, <1>3, <1>4, <1>5 DEF TurnMove, Settled, Unsettled, Active

(***************************************************************************)
(* A turn that ended keeps its outcome until the emergency stop is pressed *)
(* or a transaction fails.  The run emergency_overwrites shows that the    *)
(* emergency stop does overwrite outcomes; the theorem says that nothing   *)
(* else does while the database answers: a late disconnect, a cancel, an   *)
(* undelivered approval and a restart leave every outcome alone.           *)
(***************************************************************************)
THEOREM OutcomesStand == Spec => OutcomeStands
<1>1. Init => LedgerInv
  BY DEF Init, LedgerInv, NamesSent
<1>2. Invariants /\ LedgerInv /\ [Next]_vars =>
        [\A t \in Turn : op[t] \in Settled => op'[t] = op[t] \/ emergency \/ lost > 0]_vars
  <2>1. Invariants => lost \in Nat
    BY ConstantsAssumption DEF Invariants, TypeInv, TypeOK, OutsideOK
  <2> QED BY <2>1, OutcomeStep
<1> QED BY <1>1, <1>2, LedgerInvStable, Inductive, PTL DEF Spec, OutcomeStands

-----------------------------------------------------------------------------
(* Failures that were announced.                                           *)

\* Who makes a turn fail.
LEMMA FailureSteps ==
    TypeInv /\ Next => \A t \in Turn : op'[t] = "failed" /\ op[t] # "failed" =>
        \/ reported[t] = "failed"
        \/ t = cur /\ (RefuseAuthority \/ FailOperation)
<1> DEFINE Fair(t) == op'[t] = "failed" /\ op[t] # "failed" =>
        \/ reported[t] = "failed"
        \/ t = cur /\ (RefuseAuthority \/ FailOperation)
<1> SUFFICES ASSUME TypeInv, Next PROVE \A t \in Turn : Fair(t)
    OBVIOUS
<1>0. op \in [Turn -> OpState]
  BY DEF TypeInv, TypeOK, DurableOK
<1>1. ASSUME NEW u, NEW state \in {"interrupted", "uncertain"}, op' = Updated(u, state)
      PROVE  \A t \in Turn : Fair(t)
  BY <1>0, <1>1 DEF Updated
<1>2. ASSUME NEW g \in Turn, TurnCompleted(g) PROVE \A t \in Turn : Fair(t)
  <2>1. \/ UNCHANGED op
        \/ op' = [op EXCEPT ![native[g]] = FinalState(reported[native[g]])]
    BY <1>2 DEF TurnCompleted
  <2>2. native[g] \in Turn /\ reported[native[g]] \in {"completed", "failed", "interrupted"}
    BY <1>2, ConstantsAssumption, GenTurn DEF TurnCompleted, Belongs, TypeInv, TypeOK, OutsideOK
  <2> QED BY <1>0, <2>1, <2>2 DEF FinalState
<1>3. ASSUME InterruptOperation \/ AnswerLost PROVE \A t \in Turn : Fair(t)
  BY <1>1, <1>3 DEF InterruptOperation, AnswerLost
<1>4. ASSUME HaltQueue PROVE \A t \in Turn : Fair(t)
  BY <1>4 DEF HaltQueue
<1>5. ASSUME NEW u \in Turn, CancelQueued(u) PROVE \A t \in Turn : Fair(t)
  BY <1>0, <1>5 DEF CancelQueued
<1>6. ASSUME NEW u \in Turn, Accept(u) \/ NativeRequests(u) PROVE \A t \in Turn : Fair(t)
  BY <1>0, <1>6 DEF Accept, NativeRequests
<1>7. ASSUME AdmitReuse \/ AdmitNew \/ MarkRunning PROVE \A t \in Turn : Fair(t)
  BY <1>0, <1>7 DEF AdmitReuse, AdmitNew, MarkRunning, Dispatching
<1>8. ASSUME NEW absent \in SUBSET Session, Startup(absent) PROVE \A t \in Turn : Fair(t)
  <2>1. op' = [t \in Turn |-> Recovered(t)]
    BY <1>8 DEF Startup
  <2> QED BY <2>1 DEF Recovered
<1>9. ASSUME NEW u \in Turn, SettleUncertain(u) PROVE \A t \in Turn : Fair(t)
  BY <1>1, <1>9 DEF SettleUncertain
<1>10. ASSUME RefuseAuthority \/ FailOperation PROVE \A t \in Turn : Fair(t)
  <2>1. \E state \in OpState : op' = Updated(cur, state)
    BY <1>10 DEF RefuseAuthority, FailOperation, FailedState, OpState, Settled
  <2> QED BY <1>0, <1>10, <2>1 DEF Updated
<1>11. ASSUME UNCHANGED op PROVE \A t \in Turn : Fair(t)
  BY <1>11
<1> HIDE DEF Fair
<1>12. \A t \in Turn : Fair(t)
  BY TurnSteps, <1>2, <1>3, <1>4, <1>5, <1>6, <1>7, <1>8, <1>9, <1>10, <1>11 DEF TurnStep
<1> QED BY <1>12 DEF Fair

\* The tick knows whether it launched the runtime the request goes to.
BroughtUp == at \in {"claim", "send"} /\ tgen = cur => launched
Reusing   == Written /\ launched = FALSE /\ sent[cur] > 0 => opGen[cur] # cur

\* A turn that was sent to the runtime launched for it fails on its word alone.
OwnFailure == \A t \in Turn :
    op[t] = "failed" /\ sent[t] > 0 /\ opGen[t] = t => reported[t] = "failed"

FailureInv == BroughtUp /\ Reusing /\ OwnFailure

\* Only the launch of its own runtime gives a dispatch that runtime's name.
LEMMA BroughtUpKept ==
    ASSUME TypeInv, ReserveInv, BroughtUp, Next
    PROVE  BroughtUp'
<1> SUFFICES ASSUME at' \in {"claim", "send"}, tgen' = cur' PROVE launched'
    BY DEF BroughtUp
<1> USE DEF tick, register, dispatch
<1>1. CASE UNCHANGED tick
  BY <1>1 DEF BroughtUp
<1>2. ~AdmitReuse
  BY DEF AdmitReuse, Skip
<1>3. CASE Transport
  <2>1. launched = (at # "prepare") /\ at = "saved"
    BY <1>3, OwnGeneration DEF Reserved, Transport
  <2> QED BY <1>3, <2>1 DEF Transport
<1>4. CASE Claim
  BY <1>4 DEF Claim, BroughtUp
<1>5. ~Send /\ ~Chooses
  BY DEF Send, Throw, Chooses
<1>6. \A answered \in BOOLEAN : ~Acknowledge(answered)
  BY DEF Acknowledge, Throw
<1> QED BY <1>1, <1>2, <1>3, <1>4, <1>5, <1>6, RunningMoves DEF Running

\* A turn whose runtime is being named was not sent.
LEMMA NamedBefore ==
    ASSUME TypeInv, SentInv, Next, NEW t \in Turn, opGen'[t] # opGen[t]
    PROVE  t = cur /\ Chosen /\ sent'[t] = 0
<1>1. t = cur /\ at \in {"admit", "claim"}
  BY OpGenMoves DEF AdmitReuse, AdmitNew, Claim
<1>2. Chosen
  BY <1>1 DEF Chosen, Choosing, Bringing
<1>3. sent'[t] = sent[t]
  BY <1>1, SentGrows
<1> QED BY <1>1, <1>2, <1>3, NotSent

\* A written turn of a reused runtime does not name the runtime after itself.
LEMMA ReusingKept ==
    ASSUME TypeInv, SentInv, ReserveInv, UsingInv, BroughtUp, Reusing, Next
    PROVE  Reusing'
<1> SUFFICES ASSUME Written', launched' = FALSE, sent'[cur'] > 0 PROVE opGen'[cur'] # cur'
    BY DEF Reusing
<1>1. Registered /\ InHand'
  BY DEF ReserveInv, InHand
<1>2. InHand /\ cur' = cur /\ launched = FALSE
  <2>1. CASE UNCHANGED tick
    BY <1>1, <2>1 DEF tick, register, dispatch, InHand, Chosen, Written
  <2>2. CASE Holds
    BY <1>1, <2>2 DEF Holds
  <2>3. ~LetsGo
    BY <1>1 DEF LetsGo
  <2>4. ~Begins
    BY DEF Begins, Snapshot, Consider, Launch, Transport, Written, Awaiting
  <2> QED BY <1>1, <2>1, <2>2, <2>3, <2>4, TickHolds
<1>3. cur \in Turn
  BY <1>1, <1>2 DEF Registered
<1>4. opGen'[cur] = opGen[cur]
  BY <1>2, <1>3, NamedBefore, ConstantsAssumption
<1>5. CASE sent'[cur] = sent[cur]
  <2>1. Written
    <3>1. Chosen => sent[cur] = 0
      BY NotSent
    <3> QED BY <1>2, <1>5, <3>1 DEF InHand
  <2> QED BY <1>2, <1>4, <1>5, <2>1 DEF Reusing
<1>6. CASE Send /\ at = "send"
  <2>1. opGen[cur] = tgen
    BY <1>6 DEF UsingInv
  <2> QED BY <1>2, <1>4, <1>6, <2>1 DEF BroughtUp
<1> QED BY <1>3, <1>5, <1>6, SentGrows

\* The catch clause fails such a turn only if nothing was written.
LEMMA OwnFailureKept ==
    ASSUME TypeInv, SentInv, DispatchedInv, Reusing, OwnFailure, Next
    PROVE  OwnFailure'
<1> SUFFICES ASSUME NEW t \in Turn, op'[t] = "failed", sent'[t] > 0, opGen'[t] = t
             PROVE  reported'[t] = "failed"
    BY DEF OwnFailure
<1>1. opGen[t] = t
  BY NamedBefore
<1>2. sent[t] > 0
  <2>1. ASSUME Send, t = cur, at = "send" PROVE FALSE
    <3>1. op[cur] \in {"dispatching", "uncertain"} /\ op' = op
      BY <2>1 DEF DispatchedInv, StillSendable, Admitted, Bringing, Send, durable
    <3> QED BY <2>1, <3>1
  <2> QED BY <2>1, SentGrows
<1>3. reported[t] = "failed" => reported'[t] = "failed"
  BY KeptSteps DEF Kept
<1>4. CASE op[t] = "failed"
  BY <1>1, <1>2, <1>3, <1>4 DEF OwnFailure
<1>5. ASSUME op[t] # "failed" PROVE reported[t] = "failed"
  <2>1. ~(t = cur /\ RefuseAuthority)
    <3>1. RefuseAuthority => Chosen
      BY DEF RefuseAuthority, Chosen, Choosing
    <3> QED BY <1>2, <3>1, NotSent
  <2>2. ASSUME t = cur, FailOperation PROVE FALSE
    <3>1. op' = Updated(cur, FailedState) /\ Written
      BY <2>2 DEF FailOperation, Written
    <3>2. op[cur] # "queued"
      BY <1>2, <2>2 DEF SentInv, SentOnce
    <3>3. ~ProvenUnstarted
      BY <1>1, <1>2, <2>2, <3>1 DEF ProvenUnstarted, Reusing, TypeInv, TypeOK, TickOK
    <3>4. op' = Updated(cur, "uncertain")
      BY <3>1, <3>2, <3>3 DEF FailedState
    <3> QED BY <1>5, <2>2, <3>4 DEF Updated, TypeInv, TypeOK, DurableOK
  <2> QED BY <1>5, <2>1, <2>2, FailureSteps
<1> QED BY <1>3, <1>4, <1>5

(***************************************************************************)
(* A turn that was sent to the runtime launched for it is shown failed     *)
(* only on that runtime's word, never because its dispatch threw.  The run *)
(* not_started shows a turn shown failed that was sent: to a runtime that  *)
(* was reused.  The theorem says that there is no other way to it.         *)
(***************************************************************************)
THEOREM FailuresAreOwn == Spec => []OwnFailure
<1>1. Init => FailureInv
  BY DEF Init, FailureInv, BroughtUp, Reusing, OwnFailure, Written, Awaiting
<1>2. Invariants /\ FailureInv /\ [Next]_vars => FailureInv'
  <2>1. CASE UNCHANGED vars
    BY <2>1 DEF vars, durable, tick, register, dispatch, outside, history, FailureInv, BroughtUp,
       Reusing, OwnFailure, Written
  <2>2. ASSUME Invariants, FailureInv, Next PROVE FailureInv'
    BY <2>2, BroughtUpKept, ReusingKept, OwnFailureKept DEF Invariants, FailureInv
  <2> QED BY <2>1, <2>2
<1>3. FailureInv => OwnFailure
  BY DEF FailureInv
<1> QED BY <1>1, <1>2, <1>3, Inductive, PTL DEF Spec

-----------------------------------------------------------------------------
(* The ledger of turns.                                                    *)

\* One step of the dispatcher is one step of the ledger, or none.
LEMMA LedgerStep ==
    ASSUME Emergencies = FALSE, MaxLost = 0, Invariants, LeftInv, ShownInv, LedgerInv, Next
    PROVE  [Ledger!Next]_(Ledger!ledger)
<1>1. /\ TypeInv /\ SentInv /\ HonestInv /\ ActiveInv /\ DispatchedInv
  BY DEF Invariants
<1>2. /\ op \in [Turn -> OpState] /\ op' \in [Turn -> OpState]
      /\ sent \in [Turn -> Nat] /\ sent' \in [Turn -> Nat]
  BY <1>1, TypeNext DEF TypeInv, TypeOK, DurableOK, OutsideOK
<1>3. ASSUME NEW t \in Turn, sent'[t] # sent[t] PROVE Ledger!Next
  <2>1. Send /\ t = cur /\ at = "send"
    BY <1>1, <1>3, SentGrows
  <2>2. sent[t] = 0
    BY <1>1, <2>1 DEF SentInv, Chosen, Bringing, Written, Awaiting
  <2>3. sent' = [sent EXCEPT ![t] = 1] /\ op' = op
    BY <1>3, <2>1, <2>2 DEF Send, durable
  <2>4. SentFenced(t)
    BY <1>3, SendStep
  <2>5. Ledger!Send(t)
    BY <2>2, <2>3, <2>4
    DEF SentFenced, TurnsOf, Active, Ledger!Send, Ledger!Siblings, Ledger!Working
  <2> QED BY <2>5 DEF Ledger!Next
<1>4. ASSUME sent' = sent, NEW t \in Turn, \A u \in Turn \ {t} : op'[u] = op[u]
      PROVE  Ledger!Next \/ op' = op
  <2>1. op' = [op EXCEPT ![t] = op'[t]]
    BY <1>2, <1>4
  <2> DEFINE To(value) == op'[t] = value
  <2>2. ASSUME NEW value, op'[t] = value PROVE Ledger!Become(t, value)
    BY <1>4, <2>1, <2>2 DEF Ledger!Become
  <2>3. sent[t] > 0 => sent[t] = 1
    BY <1>1, <1>2 DEF SentInv, SentOnce
  <2>4. ASSUME op[t] = "absent", op'[t] = "queued", ~HasUncertain(SessionOf[t], op)
        PROVE  Ledger!Submit(t)
    BY <2>2, <2>4 DEF Ledger!Submit, Ledger!Siblings, HasUncertain, TurnsOf
  <2>5. ASSUME op[t] = "queued", op'[t] \in {"interrupted", "failed"}
        PROVE  Ledger!Withdraw(t)
    BY <2>2, <2>5 DEF Ledger!Withdraw
  <2>6. ASSUME t = cur, Admission, op[t] = "queued", op'[t] = "dispatching"
        PROVE  Ledger!Admit(t)
    <3>1. Opening
      BY <2>6 DEF Admission, Opening
    <3>2. /\ Cardinality(ActiveTurns) < MaxActive
          /\ \A u \in ActiveTurns : SessionOf[u] # SessionOf[cur]
      BY <1>1, <3>1 DEF ActiveInv
    <3>3. Ledger!WorkingTurns = ActiveTurns
      BY DEF Ledger!WorkingTurns, Ledger!Working, ActiveTurns, Active
    <3>4. \A u \in Ledger!Siblings(t) : op[u] \notin Ledger!Working
      BY <2>6, <3>2 DEF Ledger!Siblings, Ledger!Working, ActiveTurns, Active
    <3>5. Ledger!Cardinality(ActiveTurns) = Cardinality(ActiveTurns)
      BY DEF Ledger!Cardinality, Cardinality
    <3> QED BY <2>2, <2>6, <3>2, <3>3, <3>4, <3>5 DEF Ledger!Admit
  <2>7. ASSUME t = cur, MarkRunning, op[t] = "dispatching", op'[t] = "running"
        PROVE  Ledger!Run(t)
    <3>1. sent[t] = 1
      BY <1>1, <2>3, <2>7 DEF MarkRunning, ShownInv
    <3> QED BY <2>2, <2>7, <3>1 DEF Ledger!Run
  <2>8. ASSUME op[t] \in Active, op'[t] = "failed" PROVE Ledger!Finish(t)
    BY <2>2, <2>8 DEF Ledger!Finish, Ledger!Working, Active
  <2>9. ASSUME op[t] \in Active, op'[t] = "uncertain" PROVE Ledger!Lose(t)
    BY <2>2, <2>9 DEF Ledger!Lose, Ledger!Working, Active
  <2>10. ASSUME op[t] \in Active, op'[t] \in Settled \cup {"waiting"},
                \E g \in Turn : native[g] = t
         PROVE  Ledger!Finish(t) \/ Ledger!Wait(t)
    <3>1. sent[t] = 1
      BY <1>1, <2>3, <2>10, ConstantsAssumption DEF HonestInv, Turn
    <3> QED BY <2>2, <2>10, <3>1
            DEF Ledger!Finish, Ledger!Wait, Ledger!Working, Active, Settled
  <2> DEFINE Moves == \/ Ledger!Submit(t) \/ Ledger!Withdraw(t) \/ Ledger!Admit(t) \/ Ledger!Run(t)
                      \/ Ledger!Finish(t) \/ Ledger!Lose(t) \/ Ledger!Wait(t)
  <2>11. CASE op'[t] = op[t]
    BY <1>2, <2>1, <2>11
  <2>12. ASSUME op'[t] # op[t] PROVE Moves
    <3>1. TurnMove(t)
      BY <1>1, TurnMoves
    <3>2. at # "interrupt"
      BY <1>1 DEF HonestInv, Halting, LedgerInv
    <3>3. ASSUME t = cur, RefuseAuthority, op'[t] = "failed" PROVE op[t] = "queued"
      BY <2>12, <3>3, RefusedWaited
    <3>4. ASSUME t = cur, FailOperation, op'[t] = "failed"
          PROVE  op[t] = "queued" \/ op[t] \in Active
      <4>1. lost = 0
        BY <1>1, ConstantsAssumption DEF TypeInv, TypeOK, OutsideOK
      <4> QED BY <2>12, <3>4, <4>1, <1>2 DEF FailOperation, LedgerInv, Updated, Active
    <3>5. ASSUME op'[t] = "uncertain" PROVE op[t] \in Active
      BY <1>1, <2>12, <3>5, DoubtMoves
    <3> HIDE DEF Moves
    <3>6. \/ op[t] = "absent" /\ op'[t] = "queued" /\ ~HasUncertain(SessionOf[t], op)
          \/ op[t] = "queued" /\ op'[t] \in {"interrupted", "failed"}
          \/ t = cur /\ Admission /\ op[t] = "queued" /\ op'[t] = "dispatching"
          \/ t = cur /\ MarkRunning /\ op[t] = "dispatching" /\ op'[t] = "running"
          \/ op[t] \in Active /\ op'[t] \in {"failed", "uncertain"}
          \/ /\ op[t] \in Active /\ op'[t] \in Settled \cup {"waiting"}
             /\ \E g \in Turn : native[g] = t
      BY <2>12, <3>1, <3>2, <3>3, <3>4, <3>5 DEF TurnMove
    <3> QED BY <2>4, <2>5, <2>6, <2>7, <2>8, <2>9, <2>10, <3>6 DEF Moves
  <2> QED BY <2>11, <2>12 DEF Ledger!Next
<1>5. ASSUME NEW absent \in SUBSET Session, Startup(absent) PROVE Ledger!Next
  <2>1. op' = [t \in Turn |-> Recovered(t)] /\ sent' = sent
    BY <1>5 DEF Startup, outside, history
  <2>2. Ledger!Restart
    BY <2>1 DEF Ledger!Restart, Recovered, Ledger!Working, Active
  <2> QED BY <2>2 DEF Ledger!Next
<1>6. ~HaltQueue
  BY <1>1 DEF HaltQueue, HonestInv, Halting, LedgerInv
<1>7. CASE sent' = sent
  <2>1. Ledger!Next \/ op' = op
    BY <1>1, <1>4, <1>5, <1>6, <1>7, OneTurnMoves DEF OneMoves
  <2> QED BY <1>7, <2>1 DEF Ledger!ledger
<1>8. CASE sent' # sent
  <2>1. \E t \in Turn : sent'[t] # sent[t]
    BY <1>2, <1>8
  <2> QED BY <1>3, <2>1
<1> QED BY <1>7, <1>8

(***************************************************************************)
(* The dispatcher implements the ledger of turns, as long as no emergency  *)
(* stop is pressed and no transaction fails: the two assumptions are those *)
(* the property is stated under, and the findings say what happens without *)
(* them.                                                                   *)
(***************************************************************************)
THEOREM LedgerIsKept ==
    ASSUME Emergencies = FALSE, MaxLost = 0
    PROVE  Spec => LedgerKept
<1>1. Init => Ledger!Init /\ LedgerInv
  BY DEF Init, Ledger!Init, LedgerInv, NamesSent
<1>2. Invariants /\ LedgerInv /\ [Next]_vars => LedgerInv'
  BY LedgerInvStable
<1>3. Invariants /\ LeftInv /\ ShownInv /\ LedgerInv /\ [Next]_vars
        => [Ledger!Next]_(Ledger!ledger)
  <2>1. UNCHANGED vars => UNCHANGED <<op, sent>>
    BY DEF vars, durable, outside, history
  <2> QED BY <2>1, LedgerStep DEF Ledger!ledger
<1>4. Steady
  BY DEF Steady
<1>5. Spec => [](LeftInv /\ ShownInv)
  BY <1>4, SteadyInductive
<1> QED BY <1>1, <1>2, <1>3, <1>5, Inductive, PTL DEF Spec, LedgerKept, Ledger!Spec
=============================================================================
