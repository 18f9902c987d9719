----------------------- MODULE RuntimeReservation_proofs -----------------------
(***************************************************************************)
(* What the rows of conversation_runtimes promise about the processes: a   *)
(* runtime that may still run is counted by the row of its conversation,   *)
(* the rows stay under their ceiling, and background_until names a row.    *)
(* The argument follows one generation from the admission that mints it to *)
(* the settlement that gives its place back.                               *)
(***************************************************************************)
EXTENDS TurnOutcome_proofs, FiniteSetTheorems

\* The tick has a turn in hand; it brings up a new runtime for it.
InHand    == Chosen \/ Written
Beginning == {"prepare", "spawned", "saved"}

\* No runtime was launched for the dispatch of t.
Unused(t) == proc[t] = "none" /\ rt[t] = "absent"

-----------------------------------------------------------------------------
(* The inductive invariant, in named parts.                                *)

\* The registers of the tick name runtimes the supervisor knows.
Registered ==
    /\ InHand => cur \in Turn
    /\ ~InHand => tgen = 0
    /\ ~Admitted /\ ~Written => launched = FALSE
    /\ tgen # 0 => tgen = cur \/ rt[tgen] # "absent"
    /\ at \in AnswerStages => rt[wait.gen] # "absent"

\* A generation is minted by the dispatch of its turn and by nothing else.
FreshTurns ==
    /\ \A t \in Turn : op[t] \in {"absent", "queued"} => Unused(t)
    /\ \A t \in cands : Unused(t) \/ (t = cur /\ InHand /\ launched)
    /\ InHand => launched \/ Unused(cur)

\* From its reservation to its publication a generation owns its conversation.
Reserved ==
    LET s == SessionOf[cur] IN
    /\ tgen = cur /\ sgen[s] = cur /\ member[s].gen = cur
    /\ rt[cur] = "absent"
    /\ launched = (at # "prepare")
    /\ at = "saved" => member[s].ident

Started == at \in Beginning => Reserved

\* An entry of the runtimes map has a row and an open mailbox.
Mapped == \A s \in Session : map[s] # 0 =>
    LET g == map[s] IN
    /\ SessionOf[g] = s /\ member[s].gen = g
    /\ rt[g] # "absent" /\ ~poisoned[g]

\* What the supervisor's record of a runtime says about the runtime.
Recorded == \A g \in Turn :
    /\ poisoned[g] => rt[g] # "absent"
    /\ rt[g] = "confirmed" => proc[g] = "dead" /\ poisoned[g]
    /\ rt[g] # "absent" /\ member[SessionOf[g]].gen = g => member[SessionOf[g]].ident

\* A conversation whose processes may be reused later has an identified row.
RetainedIdentified == \A s \in Session : retained[s] => member[s].ident

\* A supervisor that is down remembers nothing.
Down == ~up => at = "rest" /\ \A s \in Session : map[s] = 0

ReserveInv ==
    /\ Registered /\ FreshTurns /\ Started /\ Mapped /\ Recorded
    /\ RetainedIdentified /\ Down /\ LiveReserved

-----------------------------------------------------------------------------
(* Where the tick goes, now with its registers.                            *)

\* A register keeps its generation, or takes one the tick may name.
GenMoves == \/ tgen' \in {tgen, 0, cur'}
            \/ at = "capture" /\ tgen' = map[SessionOf[cur]]

\* The tick keeps the turn in hand, or keeps having none.
Holds == /\ InHand <=> InHand'
         /\ UNCHANGED <<cands, launched>>
         /\ InHand => cur' = cur
         /\ Admitted \/ Written => Admitted' \/ Written'
         /\ ~InHand => tgen' = tgen
         /\ GenMoves
         /\ at' \notin Beginning
         /\ at' \in AnswerStages =>
              \/ at \in AnswerStages /\ wait'.gen = wait.gen
              \/ \E s \in Session : map[s] # 0 /\ wait'.gen = map[s]

\* The tick lets go of its turn.
LetsGo == /\ ~InHand' /\ tgen' = 0 /\ launched' = FALSE
          /\ cands' \subseteq cands
          /\ InHand => cur \notin cands'
          /\ at' \notin AnswerStages

\* The steps of the tick that begin something.
Begins == \/ Snapshot \/ Consider
          \/ AdmitNew /\ at' = "prepare"
          \/ Launch
          \/ SaveIdentity /\ at' = "saved"
          \/ Transport

\* The ways a stage of the tick ends.
LEMMA SkipLetsGo == Skip => LetsGo
BY DEF Skip, Idle, LetsGo, InHand, Chosen, Written, Choosing, Bringing, Awaiting, AnswerStages

LEMMA AbandonLetsGo == AbandonPass => LetsGo
BY DEF AbandonPass, Idle, LetsGo, InHand, Chosen, Written, Choosing, Bringing, Awaiting,
       AnswerStages

LEMMA ThrowHolds == InHand /\ Throw => Holds
BY DEF Throw, Holds, GenMoves, InHand, Admitted, Chosen, Written, Choosing, Bringing, Awaiting,
       Beginning, AnswerStages

LEMMA ContinueHolds ==
    ASSUME TypeInv, Registered, at \in Awaiting, Continue(wait.next)
    PROVE  Holds \/ LetsGo
<1>1. wait.next \in {"halt", "control", "evict", "replace", "dispatch"}
  BY WaitType DEF TypeInv, TypeOK, TickOK, StageOK, Awaiting, NextStage
<1>2. CASE wait.next = "dispatch"
  BY <1>2, SkipLetsGo DEF Continue
<1>3. CASE wait.next # "dispatch"
  BY <1>1, <1>3 DEF Continue, Holds, GenMoves, InHand, Admitted, Chosen, Written, Choosing, Bringing,
     Awaiting, Beginning, AnswerStages, dispatch, Registered
<1> QED BY <1>2, <1>3

LEMMA NotRetiredHolds ==
    ASSUME TypeInv, Registered, at \in Awaiting, NotRetired
    PROVE  Holds \/ LetsGo
BY SkipLetsGo, ContinueHolds DEF NotRetired

LEMMA AwaitRejectsHolds ==
    ASSUME at \in Awaiting, AwaitRejects
    PROVE  Holds \/ LetsGo
<1>1. CASE wait.next = "replace"
  BY <1>1 DEF AwaitRejects, Holds, GenMoves, InHand, Admitted, Chosen, Written, Choosing, Bringing,
              Awaiting, Beginning, AnswerStages
<1>2. CASE wait.next # "replace"
  BY <1>2, AbandonLetsGo DEF AwaitRejects
<1> QED BY <1>1, <1>2

\* The control part has no turn in hand.
LEMMA ControlHolds == TypeInv /\ Registered /\ Control => Holds
<1> SUFFICES ASSUME TypeInv, Registered, Control PROVE Holds
    OBVIOUS
<1> USE DEF Holds, GenMoves, InHand, Admitted, Chosen, Written, Choosing, Bringing, Awaiting,
            Beginning, AnswerStages, tick, register, dispatch, AwaitRetire, Registered
<1>1. ASSUME BeginPass PROVE Holds
  BY <1>1 DEF BeginPass
<1>2. ASSUME NEW s \in Session, HaltRuntime(s) PROVE Holds
  BY <1>2 DEF HaltRuntime
<1>3. ASSUME InterruptOperation PROVE Holds
  BY <1>3 DEF InterruptOperation
<1>4. ASSUME HaltQueue PROVE Holds
  BY <1>4 DEF HaltQueue
<1>5. ASSUME NEW s \in Session, ReconcileMember(s) PROVE Holds
  BY <1>5 DEF ReconcileMember
<1>6. ASSUME NEW s \in Session, NEW c \in Classification, NEW expired \in BOOLEAN,
             ReconcileRuntime(s, c, expired)
      PROVE  Holds
  BY <1>6 DEF ReconcileRuntime
<1>7. ASSUME NEW s \in Session, NEW delivered \in BOOLEAN, AnswerRequest(s, delivered)
      PROVE  Holds
  <2>1. /\ at = "control" /\ at' \in {"answered", "unanswered"} /\ map[s] # 0
        /\ wait' = [NoWait EXCEPT !.gen = map[s]]
        /\ UNCHANGED <<tgen, launched, failed, cands>>
    BY <1>7 DEF AnswerRequest
  <2>2. wait'.gen = map[s]
    BY <2>1 DEF NoWait
  <2> QED BY <2>1, <2>2
<1>8. ASSUME AnswerRecorded \/ AnswerLost \/ CloseAdapter PROVE Holds
  BY <1>8 DEF AnswerRecorded, AnswerLost, CloseAdapter, Idle
<1>9. ASSUME NEW t \in Turn, CancelQueued(t) PROVE Holds
  BY <1>9 DEF CancelQueued
<1> HIDE DEF Holds
<1> QED BY <1>1, <1>2, <1>3, <1>4, <1>5, <1>6, <1>7, <1>8, <1>9 DEF Control

\* The dispatch loop.
LEMMA DispatchHolds == TypeInv /\ Registered /\ Dispatch => Holds \/ LetsGo \/ Begins
<1> SUFFICES ASSUME TypeInv, Registered, Dispatch PROVE Holds \/ LetsGo \/ Begins
    OBVIOUS
<1> DEFINE Stage == /\ UNCHANGED <<cands, cur, launched, wait>> /\ GenMoves
                    /\ at \in Choosing \cup Bringing \cup {"ack", "mark", "fail"}
                    /\ at' \in (Choosing \cup Bringing \cup {"ack", "mark", "cleanup"}) \ Beginning
                    /\ at \in Choosing \/ at' \notin Choosing
<1>1. Stage => Holds
  BY DEF Holds, GenMoves, InHand, Admitted, Chosen, Written, Choosing, Bringing, Awaiting, Beginning,
         AnswerStages
<1>2. at \in Choosing \cup Bringing \cup {"ack", "mark"} => InHand
  BY DEF InHand, Chosen, Written
<1>3. ASSUME Snapshot \/ Consider \/ Launch \/ Transport PROVE Begins
  BY <1>3 DEF Begins
<1>4. ASSUME EndPass PROVE Holds
  BY <1>4 DEF EndPass, Holds, GenMoves, InHand, Admitted, Chosen, Written, Choosing, Bringing, Awaiting,
              Beginning, AnswerStages, register, dispatch
<1>5. ASSUME Blocked \/ RefuseAuthority \/ MarkRunning PROVE LetsGo
  BY <1>5, SkipLetsGo DEF Blocked, RefuseAuthority, MarkRunning
<1>6. ASSUME ConsiderCapacity \/ Route \/ EvictionDone \/ AdmitReuse \/ Claim \/ FailOperation
      PROVE  Stage \/ LetsGo
  BY <1>6, SkipLetsGo DEF ConsiderCapacity, Route, EvictionDone, AdmitReuse, Claim, FailOperation,
     Choosing, Bringing, Beginning, GenMoves, register, dispatch
<1>7. ASSUME NEW v \in Session, Evict(v) PROVE Holds
  BY <1>7 DEF Evict, AwaitRetire, Holds, GenMoves, InHand, Admitted, Chosen, Written, Choosing, Bringing,
     Awaiting, Beginning, AnswerStages, dispatch
<1>8. ASSUME NEW replace \in BOOLEAN, Capture(replace) PROVE Holds
  BY <1>8 DEF Capture, AwaitRetire, Holds, GenMoves, InHand, Admitted, Chosen, Written, Choosing, Bringing,
     Awaiting, Beginning, AnswerStages
<1>9. ASSUME NEW c \in Classification, RetireAwaited(c) PROVE Holds \/ LetsGo
  <2>1. at = "retire" /\ (NotRetired \/ (at' = "await" /\ UNCHANGED <<cands, register>>))
    BY <1>9 DEF RetireAwaited
  <2>2. CASE at' = "await" /\ UNCHANGED <<cands, register>>
    BY <2>1, <2>2 DEF Holds, GenMoves, InHand, Admitted, Chosen, Written, Choosing, Bringing,
       Awaiting, Beginning, AnswerStages, register, dispatch
  <2> QED BY <2>1, <2>2, NotRetiredHolds DEF Awaiting
<1>10. ASSUME Retired PROVE Holds \/ LetsGo
  BY <1>10, ContinueHolds, NotRetiredHolds DEF Retired, Awaiting
<1>11. ASSUME DispatchThrows \/ MarkLost PROVE Holds
  BY <1>2, <1>11, ThrowHolds DEF DispatchThrows, MarkLost, Choosing, Bringing
<1>12. ASSUME AdmitNew \/ SaveIdentity PROVE Holds \/ Begins
  BY <1>2, <1>12, ThrowHolds DEF AdmitNew, SaveIdentity, Begins, Choosing, Bringing
<1>13. ASSUME Send PROVE Holds
  <2>1. Stage \/ (at = "send" /\ Throw)
    BY <1>13 DEF Send, Choosing, Bringing, Beginning, GenMoves, register, dispatch
  <2> QED BY <1>1, <1>2, <2>1, ThrowHolds DEF Bringing
<1>14. ASSUME NEW answered \in BOOLEAN, Acknowledge(answered) PROVE Holds
  <2>1. Stage \/ (at = "ack" /\ Throw)
    BY <1>14 DEF Acknowledge, Choosing, Bringing, Beginning, GenMoves, register, dispatch
  <2> QED BY <1>1, <1>2, <2>1, ThrowHolds
<1>15. ASSUME Cleanup PROVE Holds \/ LetsGo
  <2>1. \/ Skip
        \/ at = "cleanup" /\ at' = "retire" /\ wait'.next = "dispatch" /\ UNCHANGED <<cands, dispatch>>
    BY <1>15 DEF Cleanup, AwaitRetire
  <2> QED BY <2>1, SkipLetsGo DEF Holds, GenMoves, InHand, Admitted, Chosen, Written, Choosing, Bringing,
     Awaiting, Beginning, AnswerStages, dispatch
<1> HIDE DEF Stage
<1> QED BY <1>1, <1>3, <1>4, <1>5, <1>6, <1>7, <1>8, <1>9, <1>10, <1>11, <1>12, <1>13,
           <1>14, <1>15 DEF Dispatch

\* Every step of the dispatcher.
LEMMA TickHolds ==
    TypeInv /\ Registered /\ Next => UNCHANGED tick \/ Holds \/ LetsGo \/ Begins
<1> SUFFICES ASSUME TypeInv, Registered, Next
             PROVE  UNCHANGED tick \/ Holds \/ LetsGo \/ Begins
    OBVIOUS
<1>1. ASSUME PassLost \/ Crash PROVE LetsGo
  BY <1>1, AbandonLetsGo DEF PassLost, Crash
<1>2. ASSUME AwaitLost \/ AdmissionLost PROVE Holds \/ LetsGo
  BY <1>2, AwaitRejectsHolds DEF AwaitLost, AdmissionLost, Awaiting
<1>3. ASSUME NEW absent \in SUBSET Session, Startup(absent) PROVE UNCHANGED tick
  BY <1>3 DEF Startup
<1>4. ASSUME ReuseLost PROVE Holds
  <2>1. InHand /\ Throw
    BY <1>4 DEF ReuseLost, InHand, Chosen, Choosing
  <2> QED BY <2>1, ThrowHolds
<1> QED BY NotTheTick, ControlHolds, DispatchHolds, <1>1, <1>2, <1>3, <1>4 DEF Next, Failure

-----------------------------------------------------------------------------
(* What the steps do to the supervisor's memory and to the processes.      *)

\* A record of a runtime only goes forward, and Transport makes one; absence
\* is confirmed of a disconnected runtime whose cgroup is empty.
RtStep(g) ==
    \/ rt'[g] = rt[g]
    \/ /\ rt[g] # "absent" /\ rt'[g] \notin {"absent", "present"}
       /\ rt'[g] = "confirmed" => poisoned[g] /\ proc[g] = "dead"
    \/ Transport /\ g = tgen /\ rt'[g] = "present"

LEMMA RtSteps == TypeInv /\ Next => Crash \/ \A g \in Turn : RtStep(g)
<1> SUFFICES ASSUME TypeInv, Next, ~Crash PROVE \A g \in Turn : RtStep(g)
    OBVIOUS
<1>0. rt \in [Turn -> RtPhase]
  BY DEF TypeInv, TypeOK, MemoryOK
<1>1. ASSUME NEW g, NEW phase, rt' = [rt EXCEPT ![g] = phase], rt[g] # "absent",
             phase \notin {"absent", "present"},
             phase = "confirmed" => poisoned[g] /\ proc[g] = "dead"
      PROVE  \A h \in Turn : RtStep(h)
  BY <1>0, <1>1 DEF RtStep
<1>2. ASSUME rt' = rt PROVE \A h \in Turn : RtStep(h)
  BY <1>2 DEF RtStep
<1> USE DEF memory
<1>3. Api \/ Native \/ Mailbox \/ Control => rt' = rt
  <2>1. Api \/ Native => rt' = rt
    BY DEF Api, Accept, BackgroundStop, EmergencyStop, Native, ProcessDies, NativeFinishes
  <2>2. Mailbox => rt' = rt
    BY DEF Mailbox, Poison, SettleUncertain, TurnCompleted, TurnFinished, NativeRequests,
           Inspect, Classify
  <2>3. Control => rt' = rt
    BY DEF Control, BeginPass, HaltRuntime, InterruptOperation, HaltQueue, ReconcileMember,
           ReconcileRuntime, AnswerRequest, AnswerRecorded, AnswerLost, CloseAdapter,
           CancelQueued
  <2> QED BY <2>1, <2>2, <2>3
<1>4. CASE Retirement
  <2>1. ASSUME NEW g \in Turn, NEW done \in Gen, Retire(g, done) \/ RetireLost(g, done)
        PROVE  \A h \in Turn : RtStep(h)
    <3>1. \/ rt' = rt
          \/ rt[g] = "present" /\ \E phase \in {"killing", "stuck"} : rt' = [rt EXCEPT ![g] = phase]
      BY <2>1 DEF Retire, RetireLost, BeginRetirement, Admissible
    <3> QED BY <1>1, <1>2, <3>1
  <2>2. ASSUME NEW g \in Turn, RetirementConfirmed(g) \/ RetirementUnconfirmed(g)
        PROVE  \A h \in Turn : RtStep(h)
    BY <1>1, <2>2 DEF RetirementConfirmed, RetirementUnconfirmed
  <2>3. ASSUME NEW g \in Turn, Release(g) \/ RetirementUncertain(g) \/ SettlementLost(g)
        PROVE  \A h \in Turn : RtStep(h)
    <3>1. /\ rt[g] \in {"confirmed", "unconfirmed"}
          /\ \E phase \in {"released", "doubtful", "aborted", "gone"} : rt' = [rt EXCEPT ![g] = phase]
      BY <2>3 DEF Release, RetirementUncertain, SettlementLost, Settle
    <3> QED BY <1>1, <3>1
  <2> QED BY <1>4, <2>1, <2>2, <2>3 DEF Retirement
<1>5. CASE Dispatch
  <2>1. ASSUME NEW c \in Classification, RetireAwaited(c) PROVE \A h \in Turn : RtStep(h)
    <3>1. \/ rt' = rt
          \/ rt[wait.gen] = "present" /\ rt' = [rt EXCEPT ![wait.gen] = "killing"]
      BY <2>1 DEF RetireAwaited, BeginRetirement, Admissible
    <3> QED BY <1>1, <1>2, <3>1
  <2>2. ASSUME Retired PROVE \A h \in Turn : RtStep(h)
    <3>1. \E g \in {wait.gen} : rt[g] # "absent" /\ rt' = [rt EXCEPT ![g] = "gone"]
      BY <2>2 DEF Retired
    <3> QED BY <1>1, <3>1
  <2>3. ASSUME Transport PROVE \A h \in Turn : RtStep(h)
    BY <1>0, <2>3 DEF Transport, RtStep
  <2>4. \/ Retired \/ Transport \/ rt' = rt
        \/ \E c \in Classification : RetireAwaited(c)
    BY <1>5 DEF Dispatch, Snapshot, EndPass, Consider, ConsiderCapacity, Blocked, RefuseAuthority,
       Route, Evict, EvictionDone, Capture, DispatchThrows, AdmitReuse, AdmitNew, Launch,
       SaveIdentity, Claim, Send, Acknowledge, MarkRunning, MarkLost, FailOperation, Cleanup
  <2> QED BY <1>2, <2>1, <2>2, <2>3, <2>4
<1>6. CASE Failure
  <2>1. ASSUME AwaitLost PROVE \A h \in Turn : RtStep(h)
    <3>1. \E g \in {wait.gen} : rt[g] # "absent" /\ rt' = [rt EXCEPT ![g] = "gone"]
      BY <2>1 DEF AwaitLost
    <3> QED BY <1>1, <3>1
  <2>2. ASSUME AdmissionLost PROVE \A h \in Turn : RtStep(h)
    <3>1. \/ rt' = rt
          \/ \E g \in {wait.gen} : rt[g] # "absent" /\ rt' = [rt EXCEPT ![g] = "stuck"]
      BY <2>2 DEF AdmissionLost, Admissible
    <3> QED BY <1>1, <1>2, <3>1
  <2>3. AwaitLost \/ AdmissionLost \/ rt' = rt
    BY <1>6 DEF Failure, PassLost, ReuseLost, Startup
  <2> QED BY <1>2, <2>1, <2>2, <2>3
<1> QED BY <1>2, <1>3, <1>4, <1>5, <1>6 DEF Next

\* A mailbox is poisoned for good, and with it goes the entry of the map.
LEMMA MailSteps ==
    TypeInv /\ Registered /\ Next =>
        \/ Crash \/ Transport \/ UNCHANGED <<map, poisoned>>
        \/ \E g \in Turn : rt[g] # "absent" /\ PoisonEffect(g)
<1> SUFFICES ASSUME TypeInv, Registered, Next
             PROVE  \/ Crash \/ Transport \/ UNCHANGED <<map, poisoned>>
                    \/ \E g \in Turn : rt[g] # "absent" /\ PoisonEffect(g)
    OBVIOUS
<1> USE DEF memory
<1>1. Api \/ Native => UNCHANGED <<map, poisoned>>
  BY DEF Api, Accept, BackgroundStop, EmergencyStop, Native, ProcessDies, NativeFinishes
<1>2. Mailbox => UNCHANGED <<map, poisoned>>
                 \/ \E g \in Turn : rt[g] # "absent" /\ PoisonEffect(g)
  BY DEF Mailbox, Poison, SettleUncertain, TurnCompleted, TurnFinished, NativeRequests,
         Inspect, Classify
<1>3. Retirement => UNCHANGED <<map, poisoned>>
  BY DEF Retirement, Retire, RetireLost, RetirementConfirmed, RetirementUnconfirmed,
         Release, RetirementUncertain, SettlementLost
<1>4. CASE Control
  <2>1. CloseAdapter \/ UNCHANGED <<map, poisoned>>
    BY <1>4 DEF Control, BeginPass, HaltRuntime, InterruptOperation, HaltQueue,
       ReconcileMember, ReconcileRuntime, AnswerRequest, AnswerRecorded, AnswerLost, CancelQueued
  <2>2. ASSUME CloseAdapter
        PROVE  UNCHANGED <<map, poisoned>> \/ \E g \in Turn : rt[g] # "absent" /\ PoisonEffect(g)
    <3>1. wait.gen \in Turn /\ rt[wait.gen] # "absent"
      BY <2>2 DEF CloseAdapter, TypeInv, StageOK, AnswerStages, Registered
    <3>2. UNCHANGED <<map, poisoned>> \/ PoisonEffect(wait.gen)
      BY <2>2 DEF CloseAdapter
    <3> QED BY <3>1, <3>2
  <2> QED BY <2>1, <2>2
<1>5. Dispatch => Transport \/ UNCHANGED <<map, poisoned>>
  BY DEF Dispatch, Snapshot, EndPass, Consider, ConsiderCapacity, Blocked, RefuseAuthority,
         Route, Evict, EvictionDone, Capture, RetireAwaited, Retired, DispatchThrows, AdmitReuse,
         AdmitNew, Launch, SaveIdentity, Claim, Send, Acknowledge, MarkRunning, MarkLost,
         FailOperation, Cleanup
<1>6. Failure => Crash \/ UNCHANGED <<map, poisoned>>
  BY DEF Failure, PassLost, AwaitLost, AdmissionLost, ReuseLost, Startup
<1> QED BY <1>1, <1>2, <1>3, <1>4, <1>5, <1>6 DEF Next

\* Only Launch starts a process, and a dead one stays dead.
ProcStep(g) ==
    \/ proc'[g] = proc[g]
    \/ proc[g] \in {"paused", "live"} /\ proc'[g] \in {"live", "dead"}
    \/ Launch /\ g = tgen /\ proc'[g] = "paused"

LEMMA ProcSteps == TypeInv /\ Next => \A g \in Turn : ProcStep(g)
<1> SUFFICES ASSUME TypeInv, Next PROVE \A g \in Turn : ProcStep(g)
    OBVIOUS
<1>0. proc \in [Turn -> {"none", "paused", "live", "dead"}]
  BY DEF TypeInv, TypeOK, OutsideOK
<1>1. ASSUME proc' = proc PROVE \A g \in Turn : ProcStep(g)
  BY <1>1 DEF ProcStep
<1> USE DEF outside
<1>2. Api => proc' = proc
  BY DEF Api, Accept, BackgroundStop, EmergencyStop
<1>3. ASSUME Native PROVE \A g \in Turn : ProcStep(g)
  BY <1>0, <1>3 DEF Native, ProcessDies, NativeFinishes, ProcStep
<1>4. Mailbox => proc' = proc
  BY DEF Mailbox, Poison, SettleUncertain, TurnCompleted, TurnFinished, NativeRequests,
         Inspect, Classify
<1>5. Retirement => proc' = proc
  BY DEF Retirement, Retire, RetireLost, RetirementConfirmed, RetirementUnconfirmed,
         Release, RetirementUncertain, SettlementLost
<1>6. Control => proc' = proc
  BY DEF Control, BeginPass, HaltRuntime, InterruptOperation, HaltQueue, ReconcileMember,
         ReconcileRuntime, AnswerRequest, AnswerRecorded, AnswerLost, CloseAdapter, CancelQueued
<1>7. Dispatch => Launch \/ Transport \/ proc' = proc
  BY DEF Dispatch, Snapshot, EndPass, Consider, ConsiderCapacity, Blocked, RefuseAuthority,
         Route, Evict, EvictionDone, Capture, RetireAwaited, Retired, DispatchThrows, AdmitReuse,
         AdmitNew, SaveIdentity, Claim, Send, Acknowledge, MarkRunning, MarkLost,
         FailOperation, Cleanup
<1>8. Failure => proc' = proc
  BY DEF Failure, PassLost, AwaitLost, AdmissionLost, ReuseLost, Crash, Startup
<1>9. ASSUME Launch \/ Transport PROVE \A g \in Turn : ProcStep(g)
  BY <1>0, <1>9 DEF Launch, Transport, ProcStep
<1> QED BY <1>1, <1>2, <1>3, <1>4, <1>5, <1>6, <1>7, <1>8, <1>9 DEF Next

\* The generation of a conversation is written by an admission and a claim only.
LEMMA SgenSteps == Next => AdmitNew \/ Claim \/ sgen' = sgen
<1> USE DEF durable, rows, others
<1>1. Api \/ Native => sgen' = sgen
  BY DEF Api, Accept, BackgroundStop, EmergencyStop, Native, ProcessDies, NativeFinishes
<1>2. Mailbox => sgen' = sgen
  BY DEF Mailbox, Poison, SettleUncertain, TurnCompleted, TurnFinished, NativeRequests,
         Inspect, Classify
<1>3. Retirement => sgen' = sgen
  BY DEF Retirement, Retire, RetireLost, RetirementConfirmed, RetirementUnconfirmed,
         Release, RetirementUncertain, SettlementLost
<1>4. Control => sgen' = sgen
  BY DEF Control, BeginPass, HaltRuntime, InterruptOperation, HaltQueue, ReconcileMember,
         ReconcileRuntime, AnswerRequest, AnswerRecorded, AnswerLost, CloseAdapter, CancelQueued
<1>5. Dispatch => AdmitNew \/ Claim \/ sgen' = sgen
  BY DEF Dispatch, Snapshot, EndPass, Consider, ConsiderCapacity, Blocked, RefuseAuthority,
         Route, Evict, EvictionDone, Capture, RetireAwaited, Retired, DispatchThrows, AdmitReuse,
         Launch, SaveIdentity, Transport, Send, Acknowledge, MarkRunning, MarkLost,
         FailOperation, Cleanup
<1>6. Failure => sgen' = sgen
  BY DEF Failure, PassLost, AwaitLost, AdmissionLost, ReuseLost, Crash, Startup
<1> QED BY <1>1, <1>2, <1>3, <1>4, <1>5, <1>6 DEF Next

\* The supervisor goes down in a crash and comes up in a startup.
LEMMA UpSteps ==
    Next => \/ Crash \/ (\E absent \in SUBSET Session : Startup(absent))
            \/ up' = up /\ (up \/ UNCHANGED <<map, tick>>)
<1> USE DEF memory, tick
<1>1. Api \/ Native => up' = up /\ UNCHANGED <<map, tick>>
  BY DEF Api, Accept, BackgroundStop, EmergencyStop, Native, ProcessDies, NativeFinishes
<1>2. Mailbox => up' = up /\ up
  BY DEF Mailbox, Poison, SettleUncertain, TurnCompleted, TurnFinished, NativeRequests,
         Inspect, Classify
<1>3. Retirement => up' = up /\ up
  BY DEF Retirement, Retire, RetireLost, RetirementConfirmed, RetirementUnconfirmed,
         Release, RetirementUncertain, SettlementLost
<1>4. Control => up' = up /\ up
  BY DEF Control, BeginPass, HaltRuntime, InterruptOperation, HaltQueue, ReconcileMember,
         ReconcileRuntime, AnswerRequest, AnswerRecorded, AnswerLost, CloseAdapter, CancelQueued
<1>5. Dispatch => up' = up /\ up
  BY DEF Dispatch, Snapshot, EndPass, Consider, ConsiderCapacity, Blocked, RefuseAuthority,
         Route, Evict, EvictionDone, Capture, RetireAwaited, Retired, DispatchThrows, AdmitReuse,
         AdmitNew, Launch, SaveIdentity, Transport, Claim, Send, Acknowledge, MarkRunning,
         MarkLost, FailOperation, Cleanup
<1>6. Failure => \/ Crash \/ (\E absent \in SUBSET Session : Startup(absent))
                 \/ up' = up
  BY DEF Failure, PassLost, AwaitLost, AdmissionLost, ReuseLost
<1>7. PassLost \/ AwaitLost \/ AdmissionLost \/ ReuseLost => up
  BY DEF PassLost, AwaitLost, AdmissionLost, ReuseLost
<1> QED BY <1>1, <1>2, <1>3, <1>4, <1>5, <1>6, <1>7 DEF Next, Failure

-----------------------------------------------------------------------------
(* What the steps do to the row of a conversation.                         *)

\* The row stays with its generation; the retention is only granted to a
\* conversation whose runtime is in the map.
RowKept(s) ==
    /\ member'[s].gen = member[s].gen
    /\ member'[s] = NoMember <=> member[s] = NoMember
    /\ member[s].ident => member'[s].ident
    /\ retained'[s] => retained[s] \/ map[s] # 0

\* The row is deleted, with the retention and the stop, for a runtime that is
\* verifiably gone: its retirement confirmed it, or an inspection without an entry
\* in the map.
RowFreed(s) ==
    /\ member'[s] = NoMember /\ ~retained'[s] /\ ~stopRequested'[s]
    /\ \/ \E g \in Turn : SessionOf[g] = s /\ rt[g] = "confirmed" /\ member[s].gen \in {0, g}
       \/ at = "control" /\ map[s] = 0 /\ proc[member[s].gen] = "dead"
       \/ ~up /\ proc[member[s].gen] = "dead"

\* The catch clause deletes the row of a runtime that was never launched.
RowDropped(s) ==
    /\ at = "cleanup" /\ s = SessionOf[cur] /\ tgen # 0 /\ ~launched
    /\ member[s] = [state |-> "starting", gen |-> tgen, ident |-> FALSE]
    /\ member'[s] = NoMember /\ (retained'[s] => retained[s])

\* An admission reserves the row of the generation it mints.
RowReserved(s) ==
    /\ AdmitNew /\ at' = "prepare" /\ s = SessionOf[cur] /\ member[s] = NoMember
    /\ member'[s] = [state |-> "starting", gen |-> cur, ident |-> FALSE]
    /\ retained'[s] => retained[s]

RowStep(s) == RowKept(s) \/ RowFreed(s) \/ RowDropped(s) \/ RowReserved(s)

\* runtimeState() keeps every row.
LEMMA MemberAsKept ==
    ASSUME TypeInv, NEW h, NEW g, NEW state \in MemberState, NEW s \in Session,
           member' = MemberAs(h, g, state),
           retained'[s] => retained[s] \/ map[s] # 0
    PROVE  RowKept(s)
BY DEF TypeInv, TypeOK, DurableOK, Member, MemberAs, MemberState, NoMember, RowKept

\* The row of another conversation than the freed one is untouched.
LEMMA FreeMemberStep ==
    ASSUME TypeInv, NEW h \in Session, FreeMember(h), NEW s \in Session
    PROVE  /\ s # h => RowKept(s)
           /\ s = h => member'[s] = NoMember /\ ~retained'[s] /\ ~stopRequested'[s]
BY DEF TypeInv, TypeOK, DurableOK, FreeMember, RowKept

\* The mailbox handlers.
LEMMA MailboxRows == TypeInv /\ Mailbox => \A s \in Session : RowStep(s)
<1> SUFFICES ASSUME TypeInv, Mailbox, NEW s \in Session PROVE RowKept(s)
    BY DEF RowStep
<1> USE DEF durable, rows, others
<1>1. ASSUME UNCHANGED <<member, retained>> PROVE RowKept(s)
  BY <1>1 DEF RowKept
<1>2. ASSUME NEW g \in Turn, TurnCompleted(g) PROVE RowKept(s)
  <2>1. CASE UNCHANGED <<member, retained>>
    BY <1>1, <2>1
  <2>2. CASE /\ member' = MemberAs(SessionOf[g], g, "idle")
             /\ retained' \in {retained, [retained EXCEPT ![SessionOf[g]] = TRUE]}
    <3>1. map[SessionOf[g]] # 0
      BY <1>2, ConstantsAssumption DEF TurnCompleted, Current, Turn
    <3>2. retained'[s] => retained[s] \/ map[s] # 0
      BY <2>2, <3>1 DEF TypeInv, TypeOK, DurableOK
    <3>3. "idle" \in MemberState
      BY DEF MemberState
    <3> QED BY <2>2, <3>2, <3>3, MemberAsKept
  <2> QED BY <1>2, <2>1, <2>2 DEF TurnCompleted
<1>3. ASSUME NEW g \in Turn, NativeRequests(g) PROVE RowKept(s)
  <2>1. member' = MemberAs(SessionOf[g], g, "waiting") /\ retained' = retained
    BY <1>3 DEF NativeRequests
  <2>2. "waiting" \in MemberState
    BY DEF MemberState
  <2> QED BY <2>1, <2>2, MemberAsKept
<1>4. ASSUME NEW g \in Turn, Classify(g) PROVE RowKept(s)
  <2>1. /\ \/ member' = member
           \/ hook[g] \in {"idle", "protected", "unknown"} /\ member' = MemberAs(SessionOf[g], g, hook[g])
        /\ retained' = retained
    BY <1>4 DEF Classify, Classification
  <2>2. {"idle", "protected", "unknown"} \subseteq MemberState
    BY DEF MemberState
  <2> QED BY <1>1, <2>1, <2>2, MemberAsKept
<1>5. \/ UNCHANGED <<member, retained>>
      \/ \E g \in Turn : TurnCompleted(g) \/ NativeRequests(g) \/ Classify(g)
  BY DEF Mailbox, Poison, SettleUncertain, TurnFinished, Inspect
<1> QED BY <1>1, <1>2, <1>3, <1>4, <1>5

\* retireSessionRuntime.
LEMMA RetirementRows == TypeInv /\ Retirement => \A s \in Session : RowStep(s)
<1> SUFFICES ASSUME TypeInv, Retirement, NEW s \in Session PROVE RowStep(s)
    OBVIOUS
<1> USE DEF durable, rows, others
<1>1. ASSUME UNCHANGED <<member, retained>> PROVE RowKept(s)
  BY <1>1 DEF RowKept
<1>2. ASSUME NEW g \in Turn, NEW done \in Gen, Retire(g, done) PROVE RowKept(s)
  <2>1. member' \in {member, MemberAs(SessionOf[g], g, "retiring")} /\ retained' = retained
    BY <1>2 DEF Retire, BeginRetirement
  <2>2. "retiring" \in MemberState
    BY DEF MemberState
  <2> QED BY <1>1, <2>1, <2>2, MemberAsKept
<1>3. ASSUME NEW g \in Turn, Release(g) PROVE RowStep(s)
  <2> DEFINE h == SessionOf[g]
  <2>1. CASE UNCHANGED <<member, retained>>
    BY <1>1, <2>1 DEF RowStep
  <2>2. CASE member[h].gen \in {0, g} /\ FreeMember(h)
    <3>1. h \in Session /\ rt[g] = "confirmed"
      BY <1>3, ConstantsAssumption DEF Release
    <3> QED BY <2>2, <3>1, FreeMemberStep DEF RowStep, RowFreed
  <2> QED BY <1>3, <2>1, <2>2 DEF Release
<1>4. ASSUME NEW g \in Turn, RetirementUncertain(g) PROVE RowKept(s)
  <2>1. member' = MemberAs(SessionOf[g], g, "unknown")
        /\ retained' \in {retained, [retained EXCEPT ![SessionOf[g]] = FALSE]}
    BY <1>4 DEF RetirementUncertain
  <2>2. "unknown" \in MemberState
    BY DEF MemberState
  <2>3. retained'[s] => retained[s]
    BY <2>1 DEF TypeInv, TypeOK, DurableOK
  <2> QED BY <2>1, <2>2, <2>3, MemberAsKept
<1>5. \/ UNCHANGED <<member, retained>>
      \/ \E g \in Turn : Release(g) \/ RetirementUncertain(g) \/ \E done \in Gen : Retire(g, done)
  BY DEF Retirement, RetireLost, RetirementConfirmed, RetirementUnconfirmed, SettlementLost
<1> QED BY <1>1, <1>2, <1>3, <1>4, <1>5 DEF RowStep

\* The control part of the tick.
LEMMA ControlRows == TypeInv /\ Control => \A s \in Session : RowStep(s)
<1> SUFFICES ASSUME TypeInv, Control, NEW s \in Session PROVE RowStep(s)
    OBVIOUS
<1> USE DEF durable, rows, others
<1>1. ASSUME UNCHANGED <<member, retained>> PROVE RowKept(s)
  BY <1>1 DEF RowKept
<1>2. ASSUME NEW h \in Session, ReconcileMember(h) PROVE RowStep(s)
  <2>1. CASE UNCHANGED <<member, retained>>
    BY <1>1, <2>1 DEF RowStep
  <2>2. CASE VerifiablyAbsent(h) /\ FreeMember(h)
    <3>1. at = "control" /\ map[h] = 0 /\ proc[member[h].gen] = "dead"
      BY <1>2, <2>2 DEF ReconcileMember, VerifiablyAbsent
    <3> QED BY <2>2, <3>1, FreeMemberStep DEF RowStep, RowFreed
  <2> QED BY <1>2, <2>1, <2>2 DEF ReconcileMember
<1>3. ASSUME NEW h \in Session, NEW c \in Classification, NEW expired \in BOOLEAN,
             ReconcileRuntime(h, c, expired)
      PROVE  RowKept(s)
  <2>1. /\ \/ member' = member
           \/ c # "gone" /\ member' = MemberAs(h, map[h], c)
        /\ retained' = retained
    BY <1>3 DEF ReconcileRuntime
  <2>2. c # "gone" => c \in MemberState
    BY DEF MemberState, Classification
  <2> QED BY <1>1, <2>1, <2>2, MemberAsKept
<1>4. ASSUME AnswerRecorded PROVE RowKept(s)
  <2>1. member' = MemberAs(SessionOf[cur], wait.gen, "active") /\ retained' = retained
    BY <1>4 DEF AnswerRecorded
  <2>2. "active" \in MemberState
    BY DEF MemberState
  <2> QED BY <2>1, <2>2, MemberAsKept
<1>5. \/ UNCHANGED <<member, retained>> \/ AnswerRecorded
      \/ \E h \in Session : ReconcileMember(h)
      \/ \E h \in Session, c \in Classification, expired \in BOOLEAN : ReconcileRuntime(h, c, expired)
  BY DEF Control, BeginPass, HaltRuntime, InterruptOperation, HaltQueue,
         AnswerRequest, AnswerLost, CloseAdapter, CancelQueued
<1> QED BY <1>1, <1>2, <1>3, <1>4, <1>5 DEF RowStep

\* The dispatch loop.
LEMMA DispatchRows == TypeInv /\ Dispatch => \A s \in Session : RowStep(s)
<1> SUFFICES ASSUME TypeInv, Dispatch, NEW s \in Session PROVE RowStep(s)
    OBVIOUS
<1> USE DEF durable, rows, others
<1>0. member \in [Session -> Member]
  BY DEF TypeInv, TypeOK, DurableOK
<1>1. ASSUME UNCHANGED <<member, retained>> PROVE RowKept(s)
  BY <1>1 DEF RowKept
<1>2. ASSUME NEW c \in Classification, RetireAwaited(c) PROVE RowKept(s)
  <2> DEFINE g == wait.gen
             h == SessionOf[g]
  <2>1. /\ \/ member' \in {member, MemberAs(h, g, "retiring"), MemberAs(h, g, "unknown")}
           \/ c # "gone" /\ member' = MemberAs(h, g, c)
        /\ retained' = retained
    BY <1>2 DEF RetireAwaited, BeginRetirement
  <2>2. {"retiring", "unknown"} \subseteq MemberState /\ (c # "gone" => c \in MemberState)
    BY DEF MemberState, Classification
  <2> HIDE DEF g, h
  <2> QED BY <1>1, <2>1, <2>2, MemberAsKept
<1>3. ASSUME AdmitReuse \/ Claim PROVE RowKept(s)
  <2>1. member' \in {member, MemberAs(SessionOf[cur], tgen, "active")} /\ retained' = retained
    BY <1>3 DEF AdmitReuse, Claim
  <2>2. "active" \in MemberState
    BY DEF MemberState
  <2> QED BY <1>1, <2>1, <2>2, MemberAsKept
<1>4. ASSUME AdmitNew PROVE RowStep(s)
  <2> DEFINE h == SessionOf[cur]
  <2>1. CASE UNCHANGED <<member, retained>>
    BY <1>1, <2>1 DEF RowStep
  <2>2. CASE /\ member[h] = NoMember /\ at' = "prepare" /\ retained' = retained
             /\ member' = [member EXCEPT ![h] =
                             [state |-> "starting", gen |-> cur, ident |-> FALSE]]
    <3>1. s # h => RowKept(s)
      BY <1>0, <2>2 DEF RowKept
    <3>2. s = h => RowReserved(s)
      BY <1>0, <1>4, <2>2 DEF RowReserved
    <3> QED BY <3>1, <3>2 DEF RowStep
  <2> QED BY <1>4, <2>1, <2>2 DEF AdmitNew
<1>5. ASSUME SaveIdentity PROVE RowKept(s)
  <2> DEFINE h == SessionOf[cur]
  <2>1. CASE UNCHANGED <<member, retained>>
    BY <1>1, <2>1
  <2>2. CASE /\ member[h].state = "starting" /\ retained' = retained
             /\ member' = [member EXCEPT ![h] = [member[h] EXCEPT !.ident = TRUE]]
    <3>1. \A m \in Member : m.state = "starting" =>
            LET n == [m EXCEPT !.ident = TRUE]
            IN  n.gen = m.gen /\ n.ident /\ m # NoMember /\ n # NoMember
      BY DEF Member, NoMember
    <3> HIDE DEF h
    <3>2. CASE s = h
      BY <1>0, <2>2, <3>1, <3>2 DEF RowKept
    <3>3. CASE s # h
      BY <1>0, <2>2, <3>3 DEF RowKept
    <3> QED BY <3>2, <3>3
  <2> QED BY <1>5, <2>1, <2>2 DEF SaveIdentity
<1>6. ASSUME Cleanup PROVE RowStep(s)
  <2> DEFINE h == SessionOf[cur]
  <2>1. CASE UNCHANGED <<member, retained>>
    BY <1>1, <2>1 DEF RowStep
  <2>2. CASE member' = MemberAs(h, tgen, "unknown") /\ retained' = retained
    <3>1. "unknown" \in MemberState
      BY DEF MemberState
    <3> QED BY <2>2, <3>1, MemberAsKept DEF RowStep
  <2>3. CASE /\ tgen # 0 /\ ~launched /\ retained' = retained
             /\ member[h] = [state |-> "starting", gen |-> tgen, ident |-> FALSE]
             /\ member' = [member EXCEPT ![h] = NoMember]
    <3>1. at = "cleanup"
      BY <1>6 DEF Cleanup
    <3>2. s # h => RowKept(s)
      BY <1>0, <2>3 DEF RowKept
    <3>3. s = h => RowDropped(s)
      BY <1>0, <2>3, <3>1 DEF RowDropped
    <3> QED BY <3>2, <3>3 DEF RowStep
  <2> QED BY <1>6, <2>1, <2>2, <2>3 DEF Cleanup, ProvenUnstarted
<1>7. \/ UNCHANGED <<member, retained>>
      \/ AdmitReuse \/ Claim \/ AdmitNew \/ SaveIdentity \/ Cleanup
      \/ \E c \in Classification : RetireAwaited(c)
  BY DEF Dispatch, Snapshot, EndPass, Consider, ConsiderCapacity, Blocked, RefuseAuthority,
         Route, Evict, EvictionDone, Capture, Retired, DispatchThrows, Launch, Transport, Send,
         Acknowledge, MarkRunning, MarkLost, FailOperation
<1> QED BY <1>1, <1>2, <1>3, <1>4, <1>5, <1>6, <1>7 DEF RowStep

\* Startup deletes the rows whose runtime it finds gone and keeps the others.
LEMMA StartupRows ==
    ASSUME TypeInv, NEW absent \in SUBSET Session, Startup(absent), NEW s \in Session
    PROVE  RowStep(s)
<1>0. /\ member \in [Session -> Member] /\ retained \in [Session -> BOOLEAN]
      /\ "unknown" # "none"
  BY DEF TypeInv, TypeOK, DurableOK
<1>1. CASE s \in absent
  <2>1. VerifiablyAbsent(s) /\ ~up /\ member'[s] = NoMember
    BY <1>1 DEF Startup
  <2>2. ~retained'[s] /\ ~stopRequested'[s]
    BY <1>1, <2>1 DEF Startup, VerifiablyAbsent, Members
  <2> QED BY <2>1, <2>2 DEF RowStep, RowFreed, VerifiablyAbsent
<1>2. CASE s \notin absent
  <2> DEFINE kept == {h \in Members : member[h].gen = sgen[h]} \ absent
  <2>1. member'[s] = IF s \in kept THEN [member[s] EXCEPT !.state = "unknown"] ELSE member[s]
    BY <1>2 DEF Startup
  <2>3. kept \subseteq Members
    OBVIOUS
  <2>2. retained'[s] => retained[s]
    BY DEF Startup
  <2>4. \A m \in Member : m # NoMember =>
          LET n == [m EXCEPT !.state = "unknown"]
          IN  n.gen = m.gen /\ n.ident = m.ident /\ n # NoMember
    BY DEF Member, NoMember
  <2> HIDE DEF kept
  <2> QED BY <1>0, <2>1, <2>2, <2>3, <2>4 DEF RowStep, RowKept, Members
<1> QED BY <1>1, <1>2

\* Every step of the dispatcher.
LEMMA RowSteps == TypeInv /\ Next => \A s \in Session : RowStep(s)
<1> SUFFICES ASSUME TypeInv, Next PROVE \A s \in Session : RowStep(s)
    OBVIOUS
<1> USE DEF durable, rows, others
<1>1. ASSUME UNCHANGED <<member, retained>> PROVE \A s \in Session : RowStep(s)
  BY <1>1 DEF RowStep, RowKept
<1>2. Api \/ Native => UNCHANGED <<member, retained>>
  BY DEF Api, Accept, BackgroundStop, EmergencyStop, Native, ProcessDies, NativeFinishes
<1>3. Failure => UNCHANGED <<member, retained>> \/ \E absent \in SUBSET Session : Startup(absent)
  BY DEF Failure, PassLost, AwaitLost, AdmissionLost, ReuseLost, Crash
<1> QED BY <1>1, <1>2, <1>3, MailboxRows, RetirementRows, ControlRows, DispatchRows, StartupRows
        DEF Next

-----------------------------------------------------------------------------
(* Every part is kept by every step.                                       *)

\* A launch and a transport are of the generation the dispatch minted.
LEMMA OwnGeneration ==
    ASSUME TypeInv, ReserveInv, Launch \/ SaveIdentity \/ Transport
    PROVE  /\ at \in Beginning /\ Reserved /\ cur \in Turn /\ tgen = cur
           /\ SessionOf[cur] \in Session
BY ConstantsAssumption
DEF ReserveInv, Started, Reserved, Beginning, Launch, SaveIdentity, Transport, TypeInv,
    StageOK, TurnStages

\* A runtime that was not launched stays unlaunched, but for the turn in hand.
LEMMA UnusedKept ==
    ASSUME TypeInv, ReserveInv, Next, NEW t \in Turn, Unused(t),
           ~(Launch /\ t = cur), ~(Transport /\ t = cur)
    PROVE  Unused(t)'
<1>1. proc'[t] = "none"
  BY ProcSteps, OwnGeneration DEF ProcStep, Unused
<1>2. CASE Crash
  BY <1>1, <1>2 DEF Crash, Unused
<1>3. CASE ~Crash
  BY <1>1, <1>3, RtSteps, OwnGeneration DEF RtStep, Unused
<1> QED BY <1>2, <1>3

\* A record of a runtime is lost in a crash only.
LEMMA KnownKept ==
    ASSUME TypeInv, Next, ~Crash, NEW g \in Turn, rt[g] # "absent"
    PROVE  rt'[g] # "absent"
BY RtSteps DEF RtStep

\* After a crash.
LEMMA CrashForgets ==
    ASSUME Crash
    PROVE  /\ LetsGo /\ at' = "rest"
           /\ \A s \in Session : map'[s] = 0
           /\ \A g \in Turn : rt'[g] = "absent" /\ ~poisoned'[g]
BY AbandonLetsGo DEF Crash, AbandonPass

LEMMA RegisteredKept ==
    ASSUME TypeInv, ReserveInv, Next
    PROVE  Registered'
<1>0. /\ cands \subseteq Turn /\ tgen \in Gen
      /\ InHand => cur \in Turn
      /\ Registered /\ Mapped
  BY DEF ReserveInv, Registered, TypeInv, TypeOK, TickOK
<1>1. CASE UNCHANGED tick /\ ~Crash
  <2>1. UNCHANGED <<at, cur, tgen, launched, wait>>
    BY <1>1 DEF tick, register, dispatch
  <2>2. (InHand' <=> InHand) /\ (Admitted' <=> Admitted) /\ (Written' <=> Written)
    BY <2>1 DEF InHand, Chosen, Admitted, Written
  <2>3. tgen' # 0 => tgen' = cur' \/ rt'[tgen'] # "absent"
    BY <1>0, <1>1, <2>1, KnownKept, GenTurn DEF Registered
  <2>4. at' \in AnswerStages => rt'[wait'.gen] # "absent"
    BY <1>0, <1>1, <2>1, KnownKept DEF Registered, TypeInv, StageOK
  <2> QED BY <1>0, <2>1, <2>2, <2>3, <2>4 DEF Registered
<1>2. CASE Holds /\ ~Crash
  <2>1. /\ InHand' => cur' \in Turn
        /\ ~InHand' => tgen' = 0
        /\ ~Admitted' /\ ~Written' => launched' = FALSE
    BY <1>0, <1>2 DEF Holds, Registered
  <2>2. tgen' # 0 => tgen' = cur' \/ rt'[tgen'] # "absent"
    <3>1. CASE at = "capture" /\ tgen' = map[SessionOf[cur]]
      <4>1. InHand /\ SessionOf[cur] \in Session
        BY <1>0, <3>1, ConstantsAssumption DEF InHand, Chosen, Choosing
      <4>2. map[SessionOf[cur]] \in Gen
        BY <4>1 DEF TypeInv, TypeOK, MemoryOK
      <4>3. tgen' # 0 => tgen' \in Turn /\ rt[tgen'] # "absent"
        BY <1>0, <3>1, <4>1, <4>2, GenTurn DEF Mapped
      <4> QED BY <1>2, <4>3, KnownKept
    <3>2. CASE tgen' = tgen
      <4>1. ~InHand => tgen = 0
        BY <1>0 DEF Registered
      <4>2. InHand => cur' = cur
        BY <1>2 DEF Holds
      <4> QED BY <1>0, <1>2, <3>2, <4>1, <4>2, KnownKept, GenTurn DEF Registered
    <3> QED BY <1>2, <3>1, <3>2 DEF Holds, GenMoves
  <2>3. at' \in AnswerStages => rt'[wait'.gen] # "absent"
    <3>1. CASE at \in AnswerStages /\ wait'.gen = wait.gen
      BY <1>0, <1>2, <3>1, KnownKept DEF Registered, TypeInv, StageOK
    <3>2. ASSUME NEW s \in Session, map[s] # 0, wait'.gen = map[s]
          PROVE  rt'[wait'.gen] # "absent"
      <4>1. map[s] \in Turn
        BY <3>2, GenTurn DEF TypeInv, TypeOK, MemoryOK
      <4> QED BY <1>0, <1>2, <3>2, <4>1, KnownKept DEF Mapped
    <3> QED BY <1>2, <3>1, <3>2 DEF Holds
  <2> QED BY <2>1, <2>2, <2>3 DEF Registered
<1>3. CASE LetsGo
  BY <1>3 DEF LetsGo, Registered, InHand, Chosen, Admitted
<1>4. CASE Begins /\ ~Crash
  <2>1. CASE Snapshot
    BY <1>0, <2>1 DEF Snapshot, Registered, InHand, Chosen, Admitted, Written, Choosing, Bringing,
       Awaiting, AnswerStages, register, dispatch
  <2>2. CASE Consider
    BY <1>0, <2>2 DEF Consider, Registered, InHand, Chosen, Admitted, Written, Choosing, Bringing,
       Awaiting, AnswerStages, register, dispatch
  <2>3. CASE AdmitNew /\ at' = "prepare"
    <3>1. at = "admit" /\ UNCHANGED <<cur, tgen>> /\ tgen = cur
      BY <2>3 DEF AdmitNew, Throw, register, dispatch
    <3> QED BY <1>0, <2>3, <3>1 DEF Registered, InHand, Chosen, Admitted, Choosing, Bringing,
            AnswerStages
  <2>4. CASE Launch \/ (SaveIdentity /\ at' = "saved") \/ Transport
    <3>1. /\ at \in Bringing /\ at' \in Bringing /\ UNCHANGED <<cur, tgen>> /\ tgen = cur
      BY <2>4, OwnGeneration
      DEF Launch, SaveIdentity, Transport, Throw, register, dispatch, Bringing
    <3> QED BY <1>0, <3>1 DEF Registered, InHand, Chosen, Admitted, Bringing, AnswerStages
  <2> QED BY <1>4, <2>1, <2>2, <2>3, <2>4 DEF Begins
<1> QED BY <1>0, <1>1, <1>2, <1>3, <1>4, TickHolds, CrashForgets DEF ReserveInv

LEMMA FreshTurnsKept ==
    ASSUME TypeInv, SentInv, ReserveInv, Next
    PROVE  FreshTurns'
<1>0. /\ cands \subseteq Turn /\ op \in [Turn -> OpState]
      /\ InHand => cur \in Turn
      /\ Registered /\ FreshTurns
  BY DEF ReserveInv, Registered, TypeInv, TypeOK, TickOK, DurableOK
<1>1. Launch \/ Transport =>
        /\ at \in Bringing /\ at' \in Bringing /\ UNCHANGED <<cur, cands>>
        /\ launched' = TRUE
  BY OwnGeneration DEF Launch, Transport, Reserved, register, dispatch, Bringing
<1>2. \A t \in Turn : op'[t] \in {"absent", "queued"} => Unused(t)'
  <2> SUFFICES ASSUME NEW t \in Turn, op'[t] \in {"absent", "queued"} PROVE Unused(t)'
      OBVIOUS
  <2>1. op[t] \in {"absent", "queued"}
    BY OpSteps DEF OpStep
  <2>2. (Launch \/ Transport) /\ t = cur => FALSE
    BY <1>1, <2>1 DEF SentInv, Chosen, Admitted, Choosing
  <2> QED BY <1>0, <2>1, <2>2, UnusedKept DEF FreshTurns
<1>3. CASE Launch \/ Transport
  <2>1. InHand' /\ launched' /\ cur' = cur /\ cands' = cands
    BY <1>1, <1>3 DEF InHand, Chosen, Bringing
  <2>2. \A t \in cands : t # cur => Unused(t)'
    BY <1>0, UnusedKept DEF FreshTurns
  <2> QED BY <1>2, <2>1, <2>2 DEF FreshTurns
<1>4. CASE ~Launch /\ ~Transport
  <2>1. \A t \in Turn : Unused(t) => Unused(t)'
    BY <1>4, UnusedKept
  <2>2. CASE (UNCHANGED tick \/ Holds) \/ (AdmitNew /\ at' = "prepare") \/ (SaveIdentity /\ at' = "saved")
    <3>1. /\ InHand <=> InHand'
          /\ UNCHANGED <<cands, launched>>
          /\ InHand => cur' = cur
      <4>1. CASE UNCHANGED tick \/ Holds
        BY <4>1 DEF tick, register, dispatch, Holds, InHand, Chosen, Written
      <4>2. CASE (AdmitNew /\ at' = "prepare") \/ (SaveIdentity /\ at' = "saved")
        BY <4>2 DEF AdmitNew, SaveIdentity, Throw, register, dispatch, InHand, Chosen, Choosing, Bringing
      <4> QED BY <2>2, <4>1, <4>2
    <3> QED BY <1>0, <1>2, <2>1, <3>1 DEF FreshTurns
  <2>3. CASE LetsGo
    BY <1>0, <1>2, <2>1, <2>3 DEF LetsGo, FreshTurns
  <2>4. CASE Snapshot
    <3>1. \A t \in cands' : t \in Turn /\ op'[t] = "queued"
      BY <2>4 DEF Snapshot, durable
    <3>2. ~InHand'
      BY <2>4 DEF Snapshot, InHand, Chosen, Written, Choosing, Bringing, Awaiting
    <3> QED BY <1>2, <3>1, <3>2 DEF FreshTurns
  <2>5. CASE Consider
    <3>1. ~InHand /\ cands' \subseteq cands
      BY <2>5 DEF Consider, InHand, Chosen, Written, Choosing, Bringing, Awaiting
    <3>2. \A t \in cands : Unused(t)'
      BY <1>0, <2>1, <3>1 DEF FreshTurns
    <3>3. InHand' => cur' \in cands
      BY <2>5 DEF Consider, InHand, Chosen, Written, Choosing, Bringing, Awaiting
    <3> QED BY <1>2, <3>1, <3>2, <3>3 DEF FreshTurns
  <2> QED BY <1>0, <1>4, <2>2, <2>3, <2>4, <2>5, TickHolds DEF Begins
<1> QED BY <1>3, <1>4

\* While a turn waits to be admitted nothing was launched for it.
LEMMA AdmissionFresh ==
    ASSUME TypeInv, ReserveInv, AdmitNew
    PROVE  cur \in Turn /\ SessionOf[cur] \in Session /\ Unused(cur) /\ launched = FALSE
BY ConstantsAssumption
DEF ReserveInv, Registered, FreshTurns, AdmitNew, InHand, Chosen, Admitted, Written, Choosing,
    Bringing, Awaiting, TypeInv, StageOK, TurnStages

LEMMA StartedKept ==
    ASSUME TypeInv, ReserveInv, Next
    PROVE  Started'
<1> SUFFICES ASSUME at' \in Beginning PROVE Reserved'
    BY DEF Started
<1>1. CASE UNCHANGED tick
  <2> DEFINE s == SessionOf[cur]
  <2>1. /\ UNCHANGED <<at, cur, tgen, launched>> /\ at \in Beginning
        /\ Reserved /\ cur \in Turn /\ s \in Session
    BY <1>1, ConstantsAssumption
    DEF tick, register, dispatch, ReserveInv, Started, Beginning, TypeInv, StageOK, TurnStages
  <2>2. ~Crash /\ ~Transport /\ ~AdmitNew /\ ~Claim
    BY <2>1 DEF Crash, AbandonPass, Transport, AdmitNew, Claim, Beginning
  <2>3. rt'[cur] = "absent" /\ sgen' = sgen
    BY <2>1, <2>2, RtSteps, SgenSteps DEF Reserved, RtStep
  <2>4. RowKept(s)
    <3>1. RowStep(s)
      BY <2>1, RowSteps
    <3>2. ~RowFreed(s)
      BY <2>1, GenTurn, ConstantsAssumption
      DEF RowFreed, Reserved, Turn, ReserveInv, Down, Beginning
    <3> QED BY <2>1, <2>2, <3>1, <3>2 DEF RowStep, RowDropped, RowReserved, Beginning
  <2> QED BY <2>1, <2>3, <2>4 DEF Reserved, RowKept
<1>2. CASE AdmitNew /\ at' = "prepare"
  <2> DEFINE s == SessionOf[cur]
  <2>1. /\ tgen' = cur /\ cur' = cur /\ launched' = launched /\ rt' = rt
        /\ sgen' = [sgen EXCEPT ![s] = cur]
        /\ member' = [member EXCEPT ![s] = [state |-> "starting", gen |-> cur, ident |-> FALSE]]
    BY <1>2 DEF AdmitNew, Throw, register, dispatch, memory
  <2>2. sgen'[s] = cur /\ member'[s].gen = cur
    BY <1>2, <2>1, AdmissionFresh DEF TypeInv, TypeOK, DurableOK
  <2> QED BY <1>2, <2>1, <2>2, AdmissionFresh DEF Reserved, Unused
<1>3. CASE Launch
  BY <1>3, OwnGeneration DEF Launch, Reserved, durable, memory
<1>4. CASE SaveIdentity /\ at' = "saved"
  <2> DEFINE s == SessionOf[cur]
  <2>1. /\ tgen' = tgen /\ cur' = cur /\ launched' = launched /\ rt' = rt /\ sgen' = sgen
        /\ at = "spawned" /\ member' = [member EXCEPT ![s].ident = TRUE]
    BY <1>4 DEF SaveIdentity, Throw, register, dispatch, memory, others
  <2>2. member'[s].gen = member[s].gen /\ member'[s].ident
    BY <1>4, <2>1, OwnGeneration DEF TypeInv, TypeOK, DurableOK, Member
  <2> QED BY <1>4, <2>1, <2>2, OwnGeneration DEF Reserved
<1>5. ~Holds /\ ~LetsGo
  BY DEF Holds, LetsGo, InHand, Chosen, Bringing, Beginning
<1>6. ~Snapshot /\ ~Consider /\ ~Transport
  BY DEF Snapshot, Consider, Transport, Beginning
<1> QED BY <1>1, <1>2, <1>3, <1>4, <1>5, <1>6, TickHolds DEF Begins, ReserveInv

\* A published generation keeps its row as long as it is in the map.
LEMMA MappedRow ==
    ASSUME TypeInv, ReserveInv, Next, NEW s \in Session, map[s] # 0
    PROVE  member'[s].gen = map[s]
<1>1. /\ map[s] \in Turn /\ SessionOf[map[s]] = s /\ member[s].gen = map[s]
      /\ rt[map[s]] # "absent" /\ ~poisoned[map[s]]
  BY GenTurn DEF TypeInv, TypeOK, MemoryOK, ReserveInv, Mapped
<1>2. member[s].ident
  BY <1>1 DEF ReserveInv, Recorded
<1>3. ~RowFreed(s)
  BY <1>1 DEF RowFreed, ReserveInv, Recorded, Down
<1>4. ~RowDropped(s)
  BY <1>2 DEF RowDropped
<1>5. ~RowReserved(s)
  BY <1>1 DEF RowReserved, NoMember
<1> QED BY <1>1, <1>3, <1>4, <1>5, RowSteps DEF RowStep, RowKept

LEMMA MappedKept ==
    ASSUME TypeInv, ReserveInv, Next
    PROVE  Mapped'
<1> SUFFICES ASSUME NEW s \in Session, map'[s] # 0
             PROVE  /\ SessionOf[map'[s]] = s /\ member'[s].gen = map'[s]
                    /\ rt'[map'[s]] # "absent" /\ ~poisoned'[map'[s]]
    BY DEF Mapped
<1>0. map \in [Session -> Gen] /\ poisoned \in [Turn -> BOOLEAN]
  BY DEF TypeInv, TypeOK, MemoryOK
<1>1. ~Crash
  BY CrashForgets
<1>2. map[s] # 0 =>
        /\ map[s] \in Turn /\ SessionOf[map[s]] = s /\ member'[s].gen = map[s]
        /\ rt[map[s]] # "absent" /\ ~poisoned[map[s]] /\ rt'[map[s]] # "absent"
  BY <1>0, <1>1, GenTurn, MappedRow, KnownKept DEF ReserveInv, Mapped
<1>3. CASE Transport
  <2>1. /\ at \in Beginning /\ Reserved /\ cur \in Turn /\ tgen = cur
        /\ SessionOf[cur] \in Session
    BY <1>3, OwnGeneration
  <2>2. /\ map' = [map EXCEPT ![SessionOf[cur]] = cur] /\ rt' = [rt EXCEPT ![cur] = "present"]
        /\ poisoned' = poisoned /\ member' = member
    BY <1>3, <2>1 DEF Transport, durable
  <2>3. rt'[cur] = "present" /\ ~poisoned[cur]
    BY <2>1, <2>2 DEF TypeInv, TypeOK, MemoryOK, ReserveInv, Recorded, Reserved
  <2> QED BY <1>0, <1>2, <2>1, <2>2, <2>3 DEF Reserved
<1>4. CASE UNCHANGED <<map, poisoned>>
  BY <1>2, <1>4
<1>5. ASSUME NEW g \in Turn, rt[g] # "absent", PoisonEffect(g)
      PROVE  map'[s] = map[s] /\ map[s] # g /\ \A h \in Turn : h # g => poisoned'[h] = poisoned[h]
  BY <1>0, <1>2, <1>5 DEF PoisonEffect
<1> QED BY <1>1, <1>2, <1>3, <1>4, <1>5, MailSteps DEF ReserveInv

LEMMA RecordedKept ==
    ASSUME TypeInv, ReserveInv, Next
    PROVE  Recorded'
<1> SUFFICES ASSUME NEW g \in Turn
             PROVE  /\ poisoned'[g] => rt'[g] # "absent"
                    /\ rt'[g] = "confirmed" => proc'[g] = "dead" /\ poisoned'[g]
                    /\ rt'[g] # "absent" /\ member'[SessionOf[g]].gen = g
                         => member'[SessionOf[g]].ident
    BY DEF Recorded
<1>1. CASE Crash
  BY <1>1, CrashForgets
<1>2. CASE ~Crash
  <2>0. /\ poisoned \in [Turn -> BOOLEAN] /\ Recorded /\ SessionOf[g] \in Session
    BY ConstantsAssumption DEF TypeInv, TypeOK, MemoryOK, ReserveInv
  <2>1. poisoned[g] => poisoned'[g]
    BY <1>2, <2>0, MailSteps DEF PoisonEffect, Transport, ReserveInv
  <2>2. poisoned'[g] => rt[g] # "absent"
    BY <1>2, <2>0, MailSteps DEF PoisonEffect, Transport, ReserveInv, Recorded
  <2>3. proc[g] = "dead" /\ rt[g] # "absent" => proc'[g] = "dead"
    BY ProcSteps, OwnGeneration DEF ProcStep, Reserved
  <2>4. rt'[g] = "confirmed" => proc'[g] = "dead" /\ poisoned'[g]
    BY <1>2, <2>0, <2>1, <2>3, RtSteps DEF RtStep, Recorded
  <2>5. ASSUME rt'[g] # "absent", member'[SessionOf[g]].gen = g
        PROVE  member'[SessionOf[g]].ident
    <3> DEFINE s == SessionOf[g]
    <3>1. CASE Transport
      BY <1>2, <2>0, <2>5, <3>1, OwnGeneration, RtSteps
      DEF Transport, Reserved, durable, Recorded, RtStep
    <3>2. CASE ~Transport
      <4>1. rt[g] # "absent"
        BY <1>2, <2>5, <3>2, RtSteps DEF RtStep
      <4>2. CASE RowKept(s)
        BY <2>0, <2>5, <4>1, <4>2 DEF RowKept, Recorded
      <4>3. CASE RowFreed(s) \/ RowDropped(s)
        BY <2>5, <4>3, ConstantsAssumption DEF RowFreed, RowDropped, NoMember, Turn
      <4>4. CASE RowReserved(s)
        <5>1. cur = g /\ AdmitNew
          BY <2>5, <4>4 DEF RowReserved
        <5> QED BY <4>1, <5>1, AdmissionFresh DEF Unused
      <4> QED BY <2>0, <4>2, <4>3, <4>4, RowSteps DEF RowStep
    <3> QED BY <3>1, <3>2
  <2> QED BY <1>2, <2>2, <2>4, <2>5, KnownKept
<1> QED BY <1>1, <1>2

\* The row of a runtime that may still run is never deleted.
LEMMA LiveReservedKept ==
    ASSUME TypeInv, ReserveInv, Next
    PROVE  LiveReserved'
<1> SUFFICES ASSUME NEW g \in Turn, proc'[g] \in {"paused", "live"}
             PROVE  member'[SessionOf[g]].gen = g
    BY DEF LiveReserved
<1> DEFINE s == SessionOf[g]
<1>0. s \in Session /\ g # 0 /\ RowStep(s) /\ Recorded
  BY ConstantsAssumption, RowSteps DEF Turn, ReserveInv
<1>1. CASE proc[g] \in {"paused", "live"}
  <2>1. member[s].gen = g
    BY <1>1 DEF ReserveInv, LiveReserved
  <2>2. ~RowFreed(s)
    BY <1>0, <1>1, <2>1 DEF RowFreed, Recorded
  <2>3. ~RowDropped(s)
    <3>1. SUFFICES ASSUME RowDropped(s) PROVE FALSE
        OBVIOUS
    <3>2. tgen = g /\ ~member[s].ident /\ ~launched /\ InHand
      BY <2>1, <3>1 DEF RowDropped, InHand, Written
    <3>3. g = cur \/ rt[g] # "absent"
      BY <1>0, <3>2 DEF ReserveInv, Registered
    <3>4. CASE g = cur
      BY <1>1, <3>2, <3>4 DEF ReserveInv, FreshTurns, Unused
    <3>5. CASE rt[g] # "absent"
      BY <1>0, <2>1, <3>2, <3>5 DEF Recorded
    <3> QED BY <3>3, <3>4, <3>5
  <2>4. ~RowReserved(s)
    BY <1>0, <2>1 DEF RowReserved, NoMember
  <2> QED BY <1>0, <2>1, <2>2, <2>3, <2>4 DEF RowStep, RowKept
<1>2. CASE Launch /\ g = tgen
  BY <1>2, OwnGeneration DEF Launch, Reserved, durable
<1> QED BY <1>1, <1>2, ProcSteps DEF ProcStep

LEMMA RetainedKept ==
    ASSUME TypeInv, ReserveInv, Next
    PROVE  RetainedIdentified'
<1> SUFFICES ASSUME NEW s \in Session, retained'[s] PROVE member'[s].ident
    BY DEF RetainedIdentified
<1>1. CASE RowKept(s)
  <2>1. CASE retained[s]
    BY <1>1, <2>1 DEF RowKept, ReserveInv, RetainedIdentified
  <2>2. CASE map[s] # 0
    <3>1. map[s] \in Turn
      BY <2>2, GenTurn DEF TypeInv, TypeOK, MemoryOK
    <3>2. member[s].ident
      BY <2>2, <3>1 DEF ReserveInv, Mapped, Recorded
    <3> QED BY <1>1, <3>2 DEF RowKept
  <2> QED BY <1>1, <2>1, <2>2 DEF RowKept
<1>2. ~RowFreed(s)
  BY DEF RowFreed
<1>3. ~RowDropped(s) /\ ~RowReserved(s)
  <2>1. retained[s] => member[s].ident
    BY DEF ReserveInv, RetainedIdentified
  <2>2. RowDropped(s) \/ RowReserved(s) => retained[s] /\ member[s].ident = FALSE
    BY DEF RowDropped, RowReserved, NoMember
  <2> QED BY <2>1, <2>2
<1> QED BY <1>1, <1>2, <1>3, RowSteps DEF RowStep

LEMMA DownKept ==
    ASSUME ReserveInv, Next
    PROVE  Down'
<1>1. CASE Crash
  BY <1>1, CrashForgets DEF Down
<1>2. ASSUME NEW absent \in SUBSET Session, Startup(absent) PROVE Down'
  BY <1>2 DEF Startup, Down
<1>3. CASE up' = up /\ (up \/ UNCHANGED <<map, tick>>)
  BY <1>3 DEF tick, Down, ReserveInv
<1> QED BY <1>1, <1>2, <1>3, UpSteps

\* ReserveInv holds at first and is kept.
LEMMA ReserveInit == Init => ReserveInv
BY ConstantsAssumption
DEF Init, ReserveInv, Registered, FreshTurns, Started, Beginning, Mapped, Recorded,
    RetainedIdentified, Down, LiveReserved, Unused, InHand, Chosen, Written, Choosing, Bringing,
    Awaiting, AnswerStages

LEMMA ReserveStep == TypeInv /\ SentInv /\ ReserveInv /\ Next => ReserveInv'
BY RegisteredKept, FreshTurnsKept, StartedKept, MappedKept, RecordedKept, LiveReservedKept,
   RetainedKept, DownKept
DEF ReserveInv

LEMMA ReserveStable == TypeInv /\ SentInv /\ ReserveInv /\ [Next]_vars => ReserveInv'
<1> SUFFICES ASSUME TypeInv, SentInv, ReserveInv, UNCHANGED vars PROVE ReserveInv'
    BY ReserveStep
<1> USE DEF vars, durable, memory, tick, register, dispatch, outside, history, ReserveInv
<1>1. Registered' /\ FreshTurns'
  BY DEF Registered, FreshTurns, Unused, InHand, Chosen, Admitted, Written
<1>2. Started' /\ Mapped' /\ Recorded'
  BY DEF Started, Reserved, Mapped, Recorded
<1>3. RetainedIdentified' /\ Down' /\ LiveReserved'
  BY DEF RetainedIdentified, Down, LiveReserved
<1> QED BY <1>1, <1>2, <1>3

(***************************************************************************)
(* A runtime whose processes may still run is counted by the row of its    *)
(* conversation, from the launch of the guardian through publication,      *)
(* reuse, retirement, crash and restart: a row is only deleted for a       *)
(* runtime that was never launched or is verifiably gone.                  *)
(***************************************************************************)
THEOREM LiveIsReserved == Spec => []LiveReserved
<1>1. ReserveInv => LiveReserved
  BY DEF ReserveInv
<1> QED BY <1>1, TypeInit, TypeNext, SentInit, SentStable, ReserveInit, ReserveStable, PTL DEF Spec

(***************************************************************************)
(* background_until is only kept for a conversation that has a row, so     *)
(* nothing is retained for a runtime nobody counts.                        *)
(***************************************************************************)
THEOREM RetentionIsCounted == Spec => []RetainedNamesMember
<1>1. ReserveInv => RetainedNamesMember
  BY DEF ReserveInv, RetainedIdentified, RetainedNamesMember, NoMember
<1> QED BY <1>1, TypeInit, TypeNext, SentInit, SentStable, ReserveInit, ReserveStable, PTL DEF Spec

-----------------------------------------------------------------------------
(* Stops that nothing will clear.                                          *)

\* A stop that was requested waits for a runtime nobody counts.
StopStray(s) == stopRequested[s] /\ member[s] = NoMember

\* The two steps that leave one behind.
DropsStarting(s)  == at = "cleanup" /\ s = SessionOf[cur] /\ ~launched
DoubtsReleased(s) == \E g \in Turn : SessionOf[g] = s /\ RetirementUncertain(g)

\* Who requests a stop.
LEMMA StopSteps ==
    ASSUME TypeInv, Next, NEW s \in Session, stopRequested'[s], ~stopRequested[s]
    PROVE  \/ BackgroundStop(s)
           \/ DoubtsReleased(s)
           \/ \E absent \in SUBSET Session : Startup(absent)
<1> USE DEF durable, rows, others
<1>0. stopRequested \in [Session -> BOOLEAN]
  BY DEF TypeInv, TypeOK, DurableOK
<1>1. stopRequested' # stopRequested
  OBVIOUS
<1>2. ASSUME Api PROVE BackgroundStop(s)
  BY <1>0, <1>1, <1>2 DEF Api, Accept, BackgroundStop, EmergencyStop
<1>3. ~Native
  BY <1>1 DEF Native, ProcessDies, NativeFinishes
<1>4. ~Mailbox
  <2>1. ASSUME NEW g \in Turn, TurnCompleted(g) PROVE FALSE
    BY <1>0, <2>1 DEF TurnCompleted
  <2> QED BY <1>1, <2>1 DEF Mailbox, Poison, SettleUncertain, TurnFinished, NativeRequests,
                           Inspect, Classify
<1>5. ASSUME Retirement PROVE DoubtsReleased(s)
  <2>1. ASSUME NEW g \in Turn, Release(g) PROVE FALSE
    BY <1>0, <2>1 DEF Release, FreeMember
  <2>2. ASSUME NEW g \in Turn, RetirementUncertain(g) PROVE SessionOf[g] = s
    BY <1>0, <2>2 DEF RetirementUncertain
  <2>3. \E g \in Turn : RetirementUncertain(g)
    BY <1>1, <1>5, <2>1 DEF Retirement, Retire, RetireLost, RetirementConfirmed,
       RetirementUnconfirmed, SettlementLost
  <2> QED BY <2>2, <2>3 DEF DoubtsReleased
<1>6. ~Control
  <2>1. ASSUME NEW h \in Session, ReconcileMember(h) PROVE FALSE
    BY <1>0, <1>1, <2>1 DEF ReconcileMember, FreeMember
  <2> QED BY <1>1, <2>1 DEF Control, BeginPass, HaltRuntime, InterruptOperation, HaltQueue,
         ReconcileRuntime, AnswerRequest, AnswerRecorded, AnswerLost, CloseAdapter, CancelQueued
<1>7. ~Dispatch
  BY <1>1 DEF Dispatch, Snapshot, EndPass, Consider, ConsiderCapacity, Blocked, RefuseAuthority,
         Route, Evict, EvictionDone, Capture, RetireAwaited, Retired, DispatchThrows, AdmitReuse,
         AdmitNew, Launch, SaveIdentity, Transport, Claim, Send, Acknowledge, MarkRunning,
         MarkLost, FailOperation, Cleanup
<1>8. ASSUME Failure PROVE \E absent \in SUBSET Session : Startup(absent)
  BY <1>1, <1>8 DEF Failure, PassLost, AwaitLost, AdmissionLost, ReuseLost, Crash
<1> QED BY <1>2, <1>3, <1>4, <1>5, <1>6, <1>7, <1>8 DEF Next

\* A stop whose row goes, or that comes without one, is left by one of the two.
StopsFollowed == [][\A s \in Session :
    StopStray(s)' /\ ~StopStray(s) => DropsStarting(s) \/ DoubtsReleased(s)]_vars

LEMMA StopFollowed ==
    ASSUME TypeInv, ReserveInv, Next, NEW s \in Session, StopStray(s)', ~StopStray(s)
    PROVE  DropsStarting(s) \/ DoubtsReleased(s)
<1>1. stopRequested'[s] /\ member'[s] = NoMember
  BY DEF StopStray
<1>2. ~RowFreed(s) /\ ~RowReserved(s)
  BY <1>1 DEF RowFreed, RowReserved, NoMember
<1>3. CASE RowDropped(s)
  BY <1>3 DEF RowDropped, DropsStarting
<1>4. CASE RowKept(s)
  <2>1. member[s] = NoMember /\ ~stopRequested[s]
    BY <1>1, <1>4 DEF RowKept, StopStray
  <2>2. ~retained[s]
    BY <2>1 DEF ReserveInv, RetainedIdentified, NoMember
  <2>3. ~BackgroundStop(s)
    BY <2>1 DEF BackgroundStop, Stoppable
  <2>4. ASSUME NEW absent \in SUBSET Session, Startup(absent) PROVE ~stopRequested'[s]
    BY <2>1, <2>2, <2>4 DEF Startup, Members
  <2> QED BY <1>1, <2>1, <2>3, <2>4, StopSteps
<1> QED BY <1>2, <1>3, <1>4, RowSteps DEF RowStep

(***************************************************************************)
(* The run stop_flag shows a requested background stop that outlives the   *)
(* runtime it waits for.  There are two ways to that: the catch clause     *)
(* gives back the row of a dispatch that launched nothing, and the         *)
(* settlement of an unconfirmed retirement requests the stop of a          *)
(* conversation whose row reconciliation has released.  A release, a       *)
(* reconciliation, a request of the owner and a restart leave none.        *)
(***************************************************************************)
THEOREM StopsAreFollowed == Spec => StopsFollowed
<1>1. ASSUME UNCHANGED vars, NEW s \in Session PROVE StopStray(s)' = StopStray(s)
  BY <1>1 DEF vars, durable, StopStray
<1>2. TypeInv /\ ReserveInv /\ [Next]_vars =>
        [\A s \in Session : StopStray(s)' /\ ~StopStray(s) =>
                             DropsStarting(s) \/ DoubtsReleased(s)]_vars
  BY StopFollowed
<1> QED BY <1>2, TypeInit, TypeNext, SentInit, SentStable, ReserveInit, ReserveStable, PTL
        DEF Spec, StopsFollowed

-----------------------------------------------------------------------------
(* The ceiling.                                                            *)

\* A part of a finite set is smaller, unless it is all of it.
LEMMA CardShrinks ==
    ASSUME NEW S, IsFiniteSet(S), NEW T \in SUBSET S
    PROVE  /\ IsFiniteSet(T) /\ Cardinality(T) \in Nat
           /\ Cardinality(T) <= Cardinality(S)
           /\ T # S => Cardinality(T) < Cardinality(S)
<1>1. IsFiniteSet(T) /\ Cardinality(T) <= Cardinality(S)
      /\ (Cardinality(S) = Cardinality(T) => S = T)
  BY FS_Subset
<1>2. Cardinality(T) \in Nat /\ Cardinality(S) \in Nat
  BY <1>1, FS_CardinalityType
<1> QED BY <1>1, <1>2

\* One more element makes a set larger by at most one.
LEMMA CardGrows ==
    ASSUME NEW S, IsFiniteSet(S), NEW x, NEW T \in SUBSET (S \cup {x})
    PROVE  Cardinality(T) <= Cardinality(S) + 1
<1>1. IsFiniteSet(S \cup {x}) /\ Cardinality(S \cup {x}) <= Cardinality(S) + 1
  <2>1. Cardinality(S) \in Nat
    BY FS_CardinalityType
  <2> QED BY <2>1, FS_AddElement
<1>2. Cardinality(T) <= Cardinality(S \cup {x}) /\ Cardinality(T) \in Nat
  BY <1>1, CardShrinks
<1>3. Cardinality(S \cup {x}) \in Nat /\ Cardinality(S) \in Nat
  BY <1>1, FS_CardinalityType
<1> QED BY <1>1, <1>2, <1>3

\* The tick found room for a new row, or its conversation has one.
Granted == \/ at \in {"capture", "admit"}
           \/ at \in Awaiting /\ wait.next = "replace"

(***************************************************************************)
(* RuntimeCeiling is not inductive: the admission counts nothing.  The     *)
(* rows were counted when the eviction was done, several awaits earlier;   *)
(* only the tick adds rows, so the room found then is still there.         *)
(***************************************************************************)
CeilingInv ==
    /\ RuntimeCeiling
    /\ Granted => Cardinality(Members) < MaxRuntimes \/ member[SessionOf[cur]] # NoMember

\* Where the room is looked for.
LEMMA GrantMoves ==
    TypeInv /\ Next => ~Granted' \/ (Granted /\ cur' = cur) \/ Route \/ EvictionDone
<1> SUFFICES ASSUME TypeInv, Next, Granted'
             PROVE  (Granted /\ cur' = cur) \/ Route \/ EvictionDone
    OBVIOUS
<1> USE DEF tick, register, dispatch
<1>1. Granted' => Chosen' /\ at' \notin {"busy", "dispatch", "rest", "fail", "ack"} \cup Bringing
  BY DEF Granted, Chosen, Choosing, Bringing, Awaiting
<1>2. ~Skip /\ ~Throw /\ ~AbandonPass
  BY <1>1 DEF Skip, Throw, AbandonPass
<1>3. CASE UNCHANGED tick
  BY <1>3 DEF Granted
<1>4. ~Leaves
  BY <1>1 DEF Leaves
<1>5. CASE Dispatch
  <2>1. ASSUME NEW replace \in BOOLEAN, Capture(replace) PROVE Granted /\ cur' = cur
    BY <2>1 DEF Capture, Granted
  <2>2. ASSUME at \in Awaiting, Continue(wait.next) PROVE Granted /\ cur' = cur
    <3>1. wait.next \in {"halt", "control", "evict", "replace", "dispatch"}
      BY <2>2, WaitType DEF TypeInv, TypeOK, TickOK, StageOK, Awaiting, NextStage
    <3> QED BY <1>2, <2>2, <3>1 DEF Continue, Granted, Awaiting
  <2>3. ASSUME NEW c \in Classification, RetireAwaited(c) PROVE Granted /\ cur' = cur
    <3>1. at = "retire" /\ (NotRetired \/ (at' = "await" /\ UNCHANGED <<cands, register>>))
      BY <2>3 DEF RetireAwaited
    <3> QED BY <1>2, <2>2, <3>1 DEF NotRetired, Granted, Awaiting
  <2>4. ASSUME Retired PROVE Granted /\ cur' = cur
    BY <1>2, <2>2, <2>4 DEF Retired, NotRetired, Awaiting
  <2>5. ASSUME Special PROVE FALSE
    BY <1>1, <2>5, SpecialMoves
  <2>6. ~EndPass /\ ~ConsiderCapacity /\ ~Blocked /\ ~RefuseAuthority /\ ~DispatchThrows
    BY <1>1, <1>2 DEF EndPass, ConsiderCapacity, Blocked, RefuseAuthority, DispatchThrows, Granted,
       Awaiting
  <2>7. ~Launch /\ ~SaveIdentity /\ ~Transport /\ ~Claim /\ ~MarkRunning /\ ~MarkLost
        /\ ~FailOperation /\ ~Cleanup
    BY <1>2 DEF Launch, SaveIdentity, Transport, Claim, MarkRunning, MarkLost, FailOperation,
       Cleanup, AwaitRetire, Granted, Awaiting
  <2>8. \A answered \in BOOLEAN : ~Acknowledge(answered)
    BY <1>2 DEF Acknowledge, Granted, Awaiting
  <2>9. \A v \in Session : ~Evict(v)
    BY DEF Evict, AwaitRetire, Granted, Awaiting
  <2> QED BY <1>5, <2>1, <2>3, <2>4, <2>5, <2>6, <2>7, <2>8, <2>9 DEF Dispatch, Special
<1>6. CASE Failure
  <2>1. ~AwaitRejects
    BY <1>2 DEF AwaitRejects, Granted, Awaiting
  <2> QED BY <1>2, <1>3, <1>6, <2>1 DEF Failure, PassLost, AwaitLost, AdmissionLost, ReuseLost, Crash, Startup
<1> QED BY NotTheTick, ControlLeaves, <1>3, <1>4, <1>5, <1>6 DEF Next

\* Only an admission adds a row.
LEMMA MembersGrow ==
    TypeInv /\ Next =>
        \/ Members' \subseteq Members
        \/ /\ AdmitNew /\ at' = "prepare" /\ member[SessionOf[cur]] = NoMember
           /\ Members' \subseteq Members \cup {SessionOf[cur]}
BY RowSteps DEF RowStep, RowKept, RowFreed, RowDropped, RowReserved, Members

\* The two queries that find the room, or the row.
LEMMA RoomFound ==
    ASSUME TypeInv, ReserveInv, Granted', Route \/ EvictionDone
    PROVE  /\ cur' = cur /\ member' = member
           /\ Cardinality(Members) < MaxRuntimes \/ member[SessionOf[cur]] # NoMember
<1>1. cur' = cur /\ member' = member
  BY DEF Route, EvictionDone, Skip, Granted, Awaiting, register, dispatch, durable
<1>2. CASE Route
  <2>1. SessionOf[cur] \in Session /\ map[SessionOf[cur]] # 0
    BY <1>2, ConstantsAssumption
    DEF Route, Skip, Granted, Awaiting, TypeInv, StageOK, TurnStages
  <2> QED BY <1>1, <2>1 DEF ReserveInv, Mapped, NoMember
<1>3. CASE EvictionDone
  <2>1. ~AtRuntimeLimit
    BY <1>3 DEF EvictionDone, Skip, Granted, Awaiting
  <2>2. Cardinality(Members) \in Nat /\ MaxRuntimes \in Nat
    BY ConstantsAssumption, CardShrinks DEF Members
  <2> QED BY <1>1, <2>1, <2>2 DEF AtRuntimeLimit
<1> QED BY <1>2, <1>3

LEMMA CeilingStep == TypeInv /\ ReserveInv /\ CeilingInv /\ Next => CeilingInv'
<1> SUFFICES ASSUME TypeInv, ReserveInv, CeilingInv, Next PROVE CeilingInv'
    OBVIOUS
<1> DEFINE N == Cardinality(Members)
           s == SessionOf[cur]
<1>1. /\ IsFiniteSet(Members) /\ IsFiniteSet(Members') /\ N \in Nat /\ N' \in Nat
      /\ MaxRuntimes \in Nat
  BY ConstantsAssumption, CardShrinks DEF Members
<1>2. N <= MaxRuntimes
  BY DEF CeilingInv, RuntimeCeiling
<1>3. CASE Members' \subseteq Members
  <2>1. N' <= N /\ (Members' # Members => N' < N)
    BY <1>1, <1>3, CardShrinks
  <2>2. RuntimeCeiling'
    BY <1>1, <1>2, <2>1 DEF RuntimeCeiling
  <2>3. ASSUME Granted' PROVE N' < MaxRuntimes \/ member'[SessionOf[cur']] # NoMember
    <3>1. cur' = cur /\ (N < MaxRuntimes \/ member[s] # NoMember)
      BY <2>3, GrantMoves, RoomFound DEF CeilingInv
    <3>2. s \in Session
      BY <2>3, <3>1, TypeNext, ConstantsAssumption
      DEF Granted, TypeInv, StageOK, TurnStages, Awaiting
    <3>3. CASE N < MaxRuntimes
      BY <1>1, <2>1, <3>3
    <3>4. CASE member[s] # NoMember /\ member'[s] = NoMember
      <4>1. Members' # Members
        BY <3>2, <3>4 DEF Members
      <4> QED BY <1>1, <1>2, <2>1, <4>1
    <3> QED BY <3>1, <3>3, <3>4
  <2> QED BY <2>2, <2>3 DEF CeilingInv
<1>4. CASE /\ AdmitNew /\ at' = "prepare" /\ member[s] = NoMember
           /\ Members' \subseteq Members \cup {s}
  <2>1. N < MaxRuntimes
    BY <1>4 DEF CeilingInv, Granted, AdmitNew
  <2>2. N' <= N + 1
    BY <1>1, <1>4, CardGrows
  <2>3. RuntimeCeiling'
    BY <1>1, <2>1, <2>2 DEF RuntimeCeiling
  <2> QED BY <1>4, <2>3 DEF CeilingInv, Granted, Awaiting
<1> QED BY <1>3, <1>4, MembersGrow

(***************************************************************************)
(* Never more rows than HARBOR_MAX_CONVERSATION_RUNTIMES, though a turn is *)
(* admitted several awaits after the rows were counted.                    *)
(***************************************************************************)
THEOREM CeilingKept == Spec => []RuntimeCeiling
<1>1. Init => CeilingInv
  <2>1. ASSUME Init PROVE Members = {}
    BY <2>1 DEF Init, Members
  <2>2. Cardinality({}) = 0
    BY FS_EmptySet
  <2>3. ASSUME Init PROVE RuntimeCeiling
    BY <2>1, <2>2, <2>3, ConstantsAssumption DEF RuntimeCeiling
  <2>4. ASSUME Init PROVE ~Granted
    BY <2>4 DEF Init, Granted, Awaiting
  <2> QED BY <2>3, <2>4 DEF CeilingInv
<1>2. TypeInv /\ ReserveInv /\ CeilingInv /\ [Next]_vars => CeilingInv'
  <2>1. CASE UNCHANGED vars
    BY <2>1 DEF vars, durable, tick, register, dispatch, CeilingInv, RuntimeCeiling, Granted, Members
  <2> QED BY <2>1, CeilingStep
<1>3. CeilingInv => RuntimeCeiling
  BY DEF CeilingInv
<1> QED BY <1>1, <1>2, <1>3, TypeInit, TypeNext, SentInit, SentStable, ReserveInit, ReserveStable,
           PTL DEF Spec

=============================================================================
