------------------------ MODULE HealthyRuntimes_proofs ------------------------
(***************************************************************************)
(* That no retirement takes a healthy runtime away from an active turn.    *)
(* Four callers ask for retirements and their calls run late: the poison   *)
(* callback, the mailbox handler, the control part of the tick and the     *)
(* dispatch loop.  The admission of a retirement reads the runtime and the *)
(* session, never the turns; the invariant says what each call was asked   *)
(* for and why that is still so when it is admitted.                       *)
(***************************************************************************)
EXTENDS ActiveTurns_proofs

-----------------------------------------------------------------------------
(* The inductive invariant, in named parts.                                *)

\* The runtime g is not healthy, or works on no active turn, or on t alone.
Free(g)       == rt[g] = "present" /\ ~poisoned[g] =>
                     \A t \in ActiveTurns : opGen[t] # g
FreeBut(g, t) == rt[g] = "present" /\ ~poisoned[g] =>
                     \A u \in ActiveTurns : opGen[u] = g => u = t

\* The turn was worked on and is not any more.
Done(t) == op[t] \notin Unsettled \cup {"absent"}

\* A turn is worked on by a runtime of its conversation.
OwnRuntime == \A t \in Turn : opGen[t] # 0 => SessionOf[opGen[t]] = SessionOf[t]

\* The tick holds the one active turn of the conversation, if there is one.
Alone == Admitted \/ Written =>
            \A t \in ActiveTurns : SessionOf[t] = SessionOf[cur] => t = cur

\* The catch clause retires the runtime of its turn, and ends that turn first.
GivenUp ==
    /\ at \in {"fail", "cleanup"} /\ failed # 0 => SessionOf[failed] = SessionOf[cur]
    /\ at = "cleanup" => op[cur] \notin Active

\* A healthy runtime says which active turn it works on.
WorksOn == \A g \in Turn, t \in ActiveTurns :
    opGen[t] = g /\ rt[g] = "present" /\ ~poisoned[g] => rtOp[g] = t

\* The mailbox handler committed the end of a turn.
Ending == {"completed", "ended"}

HookInv == \A g \in Turn :
    /\ poisoned[g] \/ rt[g] = "absent" => hook[g] = "none"
    /\ hook[g] = "gone" => proc[g] = "dead"
    /\ hook[g] \in Ending => /\ rtTurn[g] # 0 /\ Done(rtTurn[g])
                             /\ rt[g] = "present" => rtOp[g] = rtTurn[g]

\* Why a call nobody awaits was made.
AskedInv == \A g \in Turn :
    /\ 0 \in asked[g] => poisoned[g] \/ proc[g] = "dead"
    /\ \A t \in asked[g] : t # 0 => Done(t)

\* The runtime being given a turn has none to end.
ClaimInv == at \in {"claim", "send", "ack"} =>
    /\ rtOp[tgen] \in {0, cur} /\ rtTurn[tgen] # cur
    /\ hook[tgen] \notin Ending

\* Why the tick awaits a retirement.
AwaitInv == /\ at = "retire" => wait.gen \in Turn /\ Free(wait.gen)
            /\ at = "interrupt" => wait.gen \in Turn /\ FreeBut(wait.gen, cur)

SparedInv == OwnRuntime /\ Alone /\ GivenUp /\ WorksOn /\ NamesSent /\ HookInv
             /\ AskedInv /\ ClaimInv /\ AwaitInv

-----------------------------------------------------------------------------
(* What the steps do to a runtime and to its mailbox.                      *)

\* A turn that was worked on is not worked on again.
LEMMA DoneStays ==
    ASSUME TypeInv, Next, NEW t \in Turn, Done(t)
    PROVE  Done(t)'
BY TurnMoves DEF TurnMove, Done, Unsettled, Active, Settled

\* Only the two admission actions admit.
LEMMA AdmissionIs ==
    TypeInv /\ Next /\ Admission => AdmitReuse \/ AdmitNew
<1> SUFFICES ASSUME TypeInv, Next, Admission PROVE AdmitReuse \/ AdmitNew
    OBVIOUS
<1>1. ~Stays /\ ~Leaves
  BY DEF Admission, Stays, Leaves, Admitted, Chosen, Choosing, Bringing
<1>2. ~Snapshot /\ ~Consider /\ ~Send
  BY DEF Admission, Snapshot, Consider, Send
<1> QED BY <1>1, <1>2, TickMoves DEF Special

\* Who clears the operation of a runtime that stays.
LEMMA RtOpMoves ==
    TypeInv /\ Next => \A g \in Turn :
        \/ rtOp'[g] = rtOp[g]
        \/ rt'[g] # "present"
        \/ rtOp'[g] = 0 /\ hook[g] = "completed" /\ hook'[g] = "classify" /\ rtOp[g] = rtTurn[g]
        \/ /\ g = tgen /\ rtOp'[g] = cur /\ cur' = cur
           /\ (AdmitReuse /\ at' = "claim") \/ Transport \/ Claim \/ ReuseLost
<1> DEFINE Move(g) ==
        \/ rtOp'[g] = rtOp[g]
        \/ rt'[g] # "present"
        \/ rtOp'[g] = 0 /\ hook[g] = "completed" /\ hook'[g] = "classify" /\ rtOp[g] = rtTurn[g]
        \/ /\ g = tgen /\ rtOp'[g] = cur /\ cur' = cur
           /\ (AdmitReuse /\ at' = "claim") \/ Transport \/ Claim \/ ReuseLost
<1> SUFFICES ASSUME TypeInv, Next PROVE \A g \in Turn : Move(g)
    OBVIOUS
<1>0. rtOp \in [Turn -> Gen] /\ rt \in [Turn -> RtPhase] /\ hook \in [Turn -> {"none",
        "completed", "ended", "classify"} \cup Classification]
  BY DEF TypeInv, TypeOK, MemoryOK
<1>1. ASSUME rtOp' = rtOp PROVE \A g \in Turn : Move(g)
  BY <1>1
<1> USE DEF memory
<1>2. Api \/ Native \/ Control => rtOp' = rtOp
  BY DEF Api, Accept, BackgroundStop, EmergencyStop, Native, ProcessDies, NativeFinishes,
         Control, BeginPass, HaltRuntime, InterruptOperation, HaltQueue, ReconcileMember,
         ReconcileRuntime, AnswerRequest, AnswerRecorded, AnswerLost, CloseAdapter, CancelQueued
<1>3. CASE Mailbox
  <2>1. ASSUME NEW g \in Turn, TurnFinished(g) PROVE \A h \in Turn : Move(h)
    BY <1>0, <2>1 DEF TurnFinished
  <2>2. (\E g \in Turn : TurnFinished(g)) \/ rtOp' = rtOp
    BY <1>3 DEF Mailbox, Poison, SettleUncertain, TurnCompleted, NativeRequests, Inspect, Classify
  <2> QED BY <1>1, <2>1, <2>2
<1>4. CASE Retirement
  <2>1. ASSUME NEW g \in Turn, rtOp' = rtOp \/ rtOp' = [rtOp EXCEPT ![g] = 0],
               \E phase \in {"killing", "stuck", "confirmed", "unconfirmed"} :
                  rt' = [rt EXCEPT ![g] = phase]
        PROVE  \A h \in Turn : Move(h)
    BY <1>0, <2>1
  <2>2. ASSUME NEW g \in Turn, NEW done \in Gen, Retire(g, done) \/ RetireLost(g, done)
        PROVE  \A h \in Turn : Move(h)
    BY <1>1, <2>1, <2>2 DEF Retire, RetireLost, BeginRetirement
  <2>3. ASSUME NEW g \in Turn, RetirementConfirmed(g) \/ RetirementUnconfirmed(g)
        PROVE  \A h \in Turn : Move(h)
    BY <2>1, <2>3 DEF RetirementConfirmed, RetirementUnconfirmed, Forget
  <2>4. ASSUME NEW g \in Turn, Release(g) \/ RetirementUncertain(g) \/ SettlementLost(g)
        PROVE  rtOp' = rtOp
    BY <2>4 DEF Release, RetirementUncertain, SettlementLost
  <2> HIDE DEF Move
  <2> QED BY <1>1, <1>4, <2>2, <2>3, <2>4 DEF Retirement
<1>5. CASE Dispatch
  <2>1. ASSUME AdmitReuse PROVE \A g \in Turn : Move(g)
    <3>1. \/ rtOp' = rtOp
          \/ rtOp' = [rtOp EXCEPT ![tgen] = cur] /\ at' = "claim" /\ cur' = cur
      BY <2>1 DEF AdmitReuse, register, dispatch
    <3> QED BY <1>0, <2>1, <3>1
  <2>2. ASSUME Transport \/ Claim PROVE \A g \in Turn : Move(g)
    BY <1>0, <2>2 DEF Transport, Claim, register, dispatch
  <2>3. ASSUME NEW c \in Classification, RetireAwaited(c) PROVE rtOp' = rtOp
    BY <2>3 DEF RetireAwaited, BeginRetirement
  <2>4. \/ AdmitReuse \/ Transport \/ Claim \/ rtOp' = rtOp
        \/ \E c \in Classification : RetireAwaited(c)
    BY <1>5 DEF Dispatch, Snapshot, EndPass, Consider, ConsiderCapacity, Blocked, RefuseAuthority,
       Route, Evict, EvictionDone, Capture, Retired, DispatchThrows, AdmitNew, Launch,
       SaveIdentity, Send, Acknowledge, MarkRunning, MarkLost, FailOperation, Cleanup
  <2> HIDE DEF Move
  <2> QED BY <1>1, <2>1, <2>2, <2>3, <2>4
<1>6. CASE Failure
  <2>1. ASSUME Crash PROVE \A g \in Turn : Move(g)
    BY <2>1 DEF Crash
  <2>2. Crash \/ ReuseLost \/ rtOp' = rtOp
    BY <1>6 DEF Failure, PassLost, AwaitLost, AdmissionLost, Startup
  <2>3. ASSUME ReuseLost PROVE \A g \in Turn : Move(g)
    BY <1>0, <2>3 DEF ReuseLost, Throw
  <2> QED BY <1>1, <2>1, <2>2, <2>3
<1> QED BY <1>1, <1>2, <1>3, <1>4, <1>5, <1>6 DEF Next

\* Who writes the next step of a mailbox handler.
HookStep(g) ==
    \/ hook'[g] \in {hook[g], "none"}
    \/ /\ hook[g] # "none" /\ hook'[g] \notin Ending
       /\ hook'[g] = "gone" => proc[g] = "dead"
    \/ /\ hook'[g] \in Ending /\ ~poisoned[g] /\ rt[g] # "absent"
       /\ rtTurn[g] \in Turn /\ rtTurn[g] = rtOp[g] /\ op'[rtTurn[g]] \in Settled
       /\ UNCHANGED <<rt, rtOp, rtTurn, poisoned>>

\* Every step moves a handler in one of these ways.
LEMMA HookSteps == TypeInv /\ Next => \A g \in Turn : HookStep(g)
<1> SUFFICES ASSUME TypeInv, Next PROVE \A g \in Turn : HookStep(g)
    OBVIOUS
<1>0. hook \in [Turn -> {"none", "completed", "ended", "classify"} \cup Classification]
  BY DEF TypeInv, TypeOK, MemoryOK
<1>1. ASSUME hook' = hook PROVE \A g \in Turn : HookStep(g)
  BY <1>1 DEF HookStep
<1>2. ASSUME NEW g \in Turn, hook' = [hook EXCEPT ![g] = "none"] PROVE \A h \in Turn : HookStep(h)
  BY <1>0, <1>2 DEF HookStep
<1> USE DEF memory
<1>3. Api \/ Native => hook' = hook
  BY DEF Api, Accept, BackgroundStop, EmergencyStop, Native, ProcessDies, NativeFinishes
<1>4. CASE Mailbox
  <2>1. ASSUME NEW g \in Turn, Poison(g) PROVE hook' = [hook EXCEPT ![g] = "none"]
    BY <2>1 DEF Poison, PoisonEffect
  <2>2. ASSUME NEW g \in Turn, TurnCompleted(g) PROVE \A h \in Turn : HookStep(h)
    <3>1. CASE hook' = hook
      BY <1>1, <3>1
    <3>2. CASE op[native[g]] \in Active /\ opGen[native[g]] = g
      <4>1. /\ ~poisoned[g] /\ rt[g] # "absent"
            /\ rtTurn[g] = native[g] /\ rtTurn[g] = rtOp[g] /\ rtTurn[g] \in Turn
            /\ UNCHANGED <<rt, rtOp, rtTurn, poisoned>>
        BY <2>2, GenTurn DEF TurnCompleted, Belongs, Current, TypeInv, TypeOK, OutsideOK
      <4>2. /\ hook' \in {[hook EXCEPT ![g] = "completed"], [hook EXCEPT ![g] = "ended"]}
            /\ op' = [op EXCEPT ![native[g]] = FinalState(reported[native[g]])]
        BY <2>2, <3>2 DEF TurnCompleted
      <4>3. FinalState(reported[native[g]]) \in Settled
        BY <2>2, <4>1, ConstantsAssumption
        DEF TurnCompleted, FinalState, TypeInv, TypeOK, OutsideOK, Settled
      <4>4. op'[rtTurn[g]] \in Settled
        BY <4>1, <4>2, <4>3 DEF TypeInv, TypeOK, DurableOK
      <4> QED BY <1>0, <4>1, <4>2, <4>4 DEF HookStep, Ending
    <3> QED BY <2>2, <3>1, <3>2 DEF TurnCompleted
  <2>3. ASSUME NEW g \in Turn, TurnFinished(g) PROVE \A h \in Turn : HookStep(h)
    BY <1>0, <2>3 DEF TurnFinished, HookStep, Ending
  <2>4. ASSUME NEW g \in Turn, NEW c \in Classification, Inspect(g, c)
        PROVE  \A h \in Turn : HookStep(h)
    <3>1. /\ hook[g] = "classify"
          /\ \/ hook' = [hook EXCEPT ![g] = "none"]
             \/ hook' = [hook EXCEPT ![g] = c] /\ (c = "gone" => proc[g] = "dead")
      BY <2>4 DEF Inspect, Inspection
    <3>2. c \notin Ending
      BY DEF Classification, Ending
    <3> QED BY <1>0, <1>2, <3>1, <3>2 DEF HookStep
  <2>5. ASSUME NEW g \in Turn, Classify(g) PROVE hook' = [hook EXCEPT ![g] = "none"]
    BY <2>5 DEF Classify
  <2>6. ASSUME NEW g \in Turn, SettleUncertain(g) \/ NativeRequests(g) PROVE hook' = hook
    BY <2>6 DEF SettleUncertain, NativeRequests
  <2> QED BY <1>1, <1>2, <1>4, <2>1, <2>2, <2>3, <2>4, <2>5, <2>6 DEF Mailbox
<1>5. Retirement => hook' = hook
  BY DEF Retirement, Retire, RetireLost, RetirementConfirmed, RetirementUnconfirmed,
         Release, RetirementUncertain, SettlementLost
<1>6. CASE Control
  <2>1. CloseAdapter \/ hook' = hook
    BY <1>6 DEF Control, BeginPass, HaltRuntime, InterruptOperation, HaltQueue, ReconcileMember,
         ReconcileRuntime, AnswerRequest, AnswerRecorded, AnswerLost, CancelQueued
  <2>2. ASSUME CloseAdapter
        PROVE  hook' = hook \/ \E g \in Turn : hook' = [hook EXCEPT ![g] = "none"]
    BY <2>2 DEF CloseAdapter, PoisonEffect, TypeInv, StageOK, AnswerStages
  <2> QED BY <1>1, <1>2, <2>1, <2>2
<1>7. Dispatch => hook' = hook
  BY DEF Dispatch, Snapshot, EndPass, Consider, ConsiderCapacity, Blocked, RefuseAuthority,
         Route, Evict, EvictionDone, Capture, RetireAwaited, Retired, DispatchThrows, AdmitReuse,
         AdmitNew, Launch, SaveIdentity, Transport, Claim, Send, Acknowledge, MarkRunning,
         MarkLost, FailOperation, Cleanup
<1>8. CASE Failure
  <2>1. ASSUME Crash PROVE \A g \in Turn : HookStep(g)
    BY <2>1 DEF Crash, HookStep
  <2>2. Crash \/ hook' = hook
    BY <1>8 DEF Failure, PassLost, AwaitLost, AdmissionLost, ReuseLost, Startup
  <2> QED BY <1>1, <2>1, <2>2
<1> QED BY <1>1, <1>3, <1>4, <1>5, <1>6, <1>7, <1>8 DEF Next

\* Who asks for the retirement of a runtime without awaiting it.
AskedStep(g) == \A t \in asked'[g] :
    \/ t \in asked[g]
    \/ t = 0 /\ poisoned'[g]
    \/ t = 0 /\ hook[g] = "gone"
    \/ t = rtTurn[g] /\ hook[g] \in Ending

\* Every step moves a retirement nobody awaits in one of these ways.
LEMMA AskedSteps == TypeInv /\ Next => \A g \in Turn : AskedStep(g)
<1> SUFFICES ASSUME TypeInv, Next PROVE \A g \in Turn : AskedStep(g)
    OBVIOUS
<1>0. asked \in [Turn -> SUBSET Gen] /\ poisoned \in [Turn -> BOOLEAN]
  BY DEF TypeInv, TypeOK, MemoryOK
<1>1. ASSUME asked' = asked PROVE \A g \in Turn : AskedStep(g)
  BY <1>1 DEF AskedStep
<1>2. ASSUME NEW g, NEW left \in SUBSET asked[g], asked' = [asked EXCEPT ![g] = left]
      PROVE  \A h \in Turn : AskedStep(h)
  BY <1>0, <1>2 DEF AskedStep
<1>3. ASSUME NEW g \in Turn, PoisonEffect(g) PROVE \A h \in Turn : AskedStep(h)
  BY <1>0, <1>3 DEF PoisonEffect, AskedStep
<1> USE DEF memory
<1>4. Api \/ Native => asked' = asked
  BY DEF Api, Accept, BackgroundStop, EmergencyStop, Native, ProcessDies, NativeFinishes
<1>5. CASE Mailbox
  <2>1. ASSUME NEW g \in Turn, TurnFinished(g) PROVE \A h \in Turn : AskedStep(h)
    BY <1>0, <2>1 DEF TurnFinished, AskedStep, Ending
  <2>2. ASSUME NEW g \in Turn, Classify(g) PROVE \A h \in Turn : AskedStep(h)
    BY <1>0, <2>2 DEF Classify, AskedStep
  <2>3. \/ \E g \in Turn : Poison(g) \/ TurnFinished(g) \/ Classify(g)
        \/ asked' = asked
    BY <1>5 DEF Mailbox, SettleUncertain, TurnCompleted, NativeRequests, Inspect
  <2> QED BY <1>1, <1>3, <2>1, <2>2, <2>3 DEF Poison
<1>6. CASE Retirement
  <2>1. ASSUME NEW g \in Turn, NEW done \in Gen, Retire(g, done) \/ RetireLost(g, done)
        PROVE  \E left \in SUBSET asked[g] : asked' = [asked EXCEPT ![g] = left]
    BY <2>1 DEF Retire, RetireLost
  <2>2. \/ \E g \in Turn, done \in Gen : Retire(g, done) \/ RetireLost(g, done)
        \/ asked' = asked
    BY <1>6 DEF Retirement, RetirementConfirmed, RetirementUnconfirmed, Release,
       RetirementUncertain, SettlementLost
  <2> QED BY <1>1, <1>2, <2>1, <2>2
<1>7. CASE Control
  <2>1. CloseAdapter \/ asked' = asked
    BY <1>7 DEF Control, BeginPass, HaltRuntime, InterruptOperation, HaltQueue, ReconcileMember,
         ReconcileRuntime, AnswerRequest, AnswerRecorded, AnswerLost, CancelQueued
  <2>2. ASSUME CloseAdapter PROVE asked' = asked \/ \E g \in Turn : PoisonEffect(g)
    BY <2>2 DEF CloseAdapter, TypeInv, StageOK, AnswerStages
  <2> QED BY <1>1, <1>3, <2>1, <2>2
<1>8. CASE Dispatch
  <2>1. ASSUME NEW c \in Classification, RetireAwaited(c)
        PROVE  asked' = asked \/ \E g \in {wait.gen} : asked' = [asked EXCEPT ![g] = {}]
    BY <2>1 DEF RetireAwaited
  <2>2. (\E c \in Classification : RetireAwaited(c)) \/ asked' = asked
    BY <1>8 DEF Dispatch, Snapshot, EndPass, Consider, ConsiderCapacity, Blocked, RefuseAuthority,
         Route, Evict, EvictionDone, Capture, Retired, DispatchThrows, AdmitReuse, AdmitNew,
         Launch, SaveIdentity, Transport, Claim, Send, Acknowledge, MarkRunning, MarkLost,
         FailOperation, Cleanup
  <2> QED BY <1>1, <1>2, <2>1, <2>2
<1>9. CASE Failure
  <2>1. ASSUME Crash PROVE \A g \in Turn : AskedStep(g)
    BY <2>1 DEF Crash, AskedStep
  <2>2. ASSUME AdmissionLost
        PROVE  asked' = asked \/ \E g \in {wait.gen} : asked' = [asked EXCEPT ![g] = {}]
    BY <2>2 DEF AdmissionLost
  <2>3. Crash \/ AdmissionLost \/ asked' = asked
    BY <1>9 DEF Failure, PassLost, AwaitLost, ReuseLost, Startup
  <2> QED BY <1>1, <1>2, <2>1, <2>2, <2>3
<1> QED BY <1>1, <1>4, <1>5, <1>6, <1>7, <1>8, <1>9 DEF Next

\* Who begins the retirement of a runtime.
LEMMA KillSteps ==
    ASSUME TypeInv, Next, NEW g \in Turn, rt[g] = "present", rt'[g] = "killing"
    PROVE  \/ \E done \in asked[g] : Admissible(g, done)
           \/ at = "retire" /\ g = wait.gen
<1> DEFINE Goal == \/ \E done \in asked[g] : Admissible(g, done)
                   \/ at = "retire" /\ g = wait.gen
<1>0. rt \in [Turn -> RtPhase]
  BY DEF TypeInv, TypeOK, MemoryOK
<1>1. ASSUME NEW h, NEW phase, rt' = [rt EXCEPT ![h] = phase] PROVE h = g /\ phase = "killing"
  BY <1>0, <1>1
<1>2. rt' # rt
  OBVIOUS
<1> USE DEF memory
<1>3. ~Api /\ ~Native /\ ~Mailbox /\ ~Control
  <2>1. ~Api /\ ~Native
    BY <1>2 DEF Api, Accept, BackgroundStop, EmergencyStop, Native, ProcessDies, NativeFinishes
  <2>2. ~Mailbox
    BY <1>2 DEF Mailbox, Poison, SettleUncertain, TurnCompleted, TurnFinished, NativeRequests,
           Inspect, Classify
  <2>3. ~Control
    BY <1>2 DEF Control, BeginPass, HaltRuntime, InterruptOperation, HaltQueue, ReconcileMember,
           ReconcileRuntime, AnswerRequest, AnswerRecorded, AnswerLost, CloseAdapter,
           CancelQueued
  <2> QED BY <2>1, <2>2, <2>3
<1>4. ASSUME Retirement PROVE Goal
  <2>1. ASSUME NEW h \in Turn, NEW done \in Gen, Retire(h, done) PROVE Goal
    <3>1. done \in asked[h] /\ Admissible(h, done) /\ rt' = [rt EXCEPT ![h] = "killing"]
      BY <1>2, <2>1 DEF Retire, BeginRetirement
    <3> QED BY <1>1, <3>1
  <2>2. \A h \in Turn, done \in Gen : ~RetireLost(h, done)
    BY <1>1 DEF RetireLost
  <2>3. \A h \in Turn : ~RetirementConfirmed(h) /\ ~RetirementUnconfirmed(h)
    BY <1>1 DEF RetirementConfirmed, RetirementUnconfirmed
  <2>4. \A h \in Turn : ~Release(h) /\ ~RetirementUncertain(h) /\ ~SettlementLost(h)
    BY <1>1 DEF Release, RetirementUncertain, SettlementLost, Settle
  <2> HIDE DEF Goal
  <2> QED BY <1>4, <2>1, <2>2, <2>3, <2>4 DEF Retirement
<1>5. ASSUME Dispatch PROVE Goal
  <2>1. ASSUME NEW c \in Classification, RetireAwaited(c) PROVE Goal
    <3>1. at = "retire" /\ rt' = [rt EXCEPT ![wait.gen] = "killing"]
      BY <1>2, <2>1 DEF RetireAwaited, BeginRetirement
    <3>2. \E h \in {wait.gen} : rt' = [rt EXCEPT ![h] = "killing"]
      BY <3>1
    <3> QED BY <1>1, <3>1, <3>2
  <2>2. ~Retired
    <3>1. Retired => \E h \in {wait.gen} : rt' = [rt EXCEPT ![h] = "gone"]
      BY DEF Retired
    <3> QED BY <1>1, <3>1
  <2>3. ~Transport
    BY <1>0, <1>1 DEF Transport
  <2> HIDE DEF Goal
  <2> QED BY <1>2, <1>5, <2>1, <2>2, <2>3
    DEF Dispatch, Snapshot, EndPass, Consider, ConsiderCapacity, Blocked, RefuseAuthority,
       Route, Evict, EvictionDone, Capture, DispatchThrows, AdmitReuse, AdmitNew, Launch,
       SaveIdentity, Claim, Send, Acknowledge, MarkRunning, MarkLost, FailOperation, Cleanup
<1>6. ~Failure
  <2>1. AwaitLost => \E h \in {wait.gen} : rt' = [rt EXCEPT ![h] = "gone"]
    BY DEF AwaitLost
  <2>2. AdmissionLost => rt' = rt \/ \E h \in {wait.gen} : rt' = [rt EXCEPT ![h] = "stuck"]
    BY DEF AdmissionLost
  <2>3. Crash => rt'[g] = "absent"
    BY DEF Crash
  <2>4. Failure => Crash \/ AwaitLost \/ AdmissionLost \/ rt' = rt
    BY DEF Failure, PassLost, ReuseLost, Startup
  <2> QED BY <1>1, <1>2, <2>1, <2>2, <2>3, <2>4
<1> HIDE DEF Goal
<1>7. Goal
  BY <1>3, <1>4, <1>5, <1>6 DEF Next
<1> QED BY <1>7 DEF Goal
-----------------------------------------------------------------------------
(* Where the tick comes to its exceptions and to its retirements.          *)

\* From its first look at a turn the tick goes on, skips or gives up.
LEMMA FromBusy ==
    ASSUME TypeInv, Next, at = "busy"
    PROVE  at' \in {"busy", "route", "dispatch", "rest"}
<1> USE DEF tick, register, dispatch
<1>1. CASE UNCHANGED tick
  BY <1>1
<1>2. ~Control
  BY DEF Control, BeginPass, HaltRuntime, InterruptOperation, HaltQueue, ReconcileMember,
         ReconcileRuntime, AnswerRequest, AnswerRecorded, AnswerLost, CloseAdapter, CancelQueued
<1>3. ASSUME Dispatch PROVE at' \in {"busy", "route", "dispatch", "rest"}
  <2>1. ConsiderCapacity \/ Blocked
    BY <1>3 DEF Dispatch, Snapshot, EndPass, Consider, RefuseAuthority, Route, Evict,
       EvictionDone, Capture, RetireAwaited, Retired, DispatchThrows, AdmitReuse, AdmitNew,
       Launch, SaveIdentity, Transport, Claim, Send, Acknowledge, MarkRunning, MarkLost,
       FailOperation, Cleanup
  <2> QED BY <2>1 DEF ConsiderCapacity, Blocked, Skip
<1>4. CASE Failure
  BY <1>4 DEF Failure, PassLost, AwaitLost, AdmissionLost, ReuseLost, Crash, Startup, AbandonPass
<1> QED BY NotTheTick, <1>1, <1>2, <1>3, <1>4 DEF Next

\* Only a turn that was found alone is ever finished.
LEMMA WrittenMoves ==
    ASSUME TypeInv, Registered, Next, Written'
    PROVE  cur' = cur /\ (Opening \/ Admitted \/ Written)
<1>1. InHand'
  BY DEF InHand
<1>2. at # "busy"
  BY FromBusy DEF Written, Awaiting
<1>3. InHand => Opening \/ Admitted \/ Written
  BY <1>2 DEF InHand, Chosen, Opening, Admitted, Choosing
<1>4. CASE UNCHANGED tick
  BY <1>4 DEF tick, register, dispatch, Written
<1>5. CASE Holds
  BY <1>1, <1>3, <1>5 DEF Holds
<1>6. ~LetsGo
  BY <1>1 DEF LetsGo
<1>7. ~Begins
  BY DEF Begins, Snapshot, Consider, Launch, Transport, Written, Awaiting
<1> QED BY <1>4, <1>5, <1>6, <1>7, TickHolds

\* The catch clause reads the map at once, and ends the turn first.
LEMMA ThrowMoves ==
    ASSUME TypeInv, Next, at' \in {"fail", "cleanup"}
    PROVE  \/ UNCHANGED <<at, cur, failed>>
           \/ at' = "fail" /\ cur' = cur /\ failed' = map[SessionOf[cur]]
           \/ FailOperation
<1> DEFINE Same == UNCHANGED <<at, cur, failed>>
           Read == at' = "fail" /\ cur' = cur /\ failed' = map[SessionOf[cur]]
<1> USE DEF tick, register, dispatch
<1>1. ~Skip /\ ~AbandonPass
  BY DEF Skip, AbandonPass
<1>2. Throw => Read
  BY DEF Throw
<1>3. UNCHANGED tick => Same
  OBVIOUS
<1>4. ~Control \/ Same
  <2>1. ~BeginPass /\ ~InterruptOperation /\ ~HaltQueue /\ ~AnswerRecorded /\ ~AnswerLost
        /\ ~CloseAdapter
    BY DEF BeginPass, InterruptOperation, AwaitRetire, HaltQueue, AnswerRecorded, AnswerLost,
           CloseAdapter
  <2>2. \A s \in Session :
           /\ ~HaltRuntime(s) /\ ~ReconcileMember(s)
           /\ \A c \in Classification, expired \in BOOLEAN : ~ReconcileRuntime(s, c, expired)
           /\ \A delivered \in BOOLEAN : ~AnswerRequest(s, delivered)
    BY DEF HaltRuntime, ReconcileMember, ReconcileRuntime, AnswerRequest, AwaitRetire
  <2>3. \A t \in Turn : ~CancelQueued(t)
    BY DEF CancelQueued
  <2> QED BY <2>1, <2>2, <2>3 DEF Control
<1>5. ASSUME at \in Awaiting PROVE ~Continue(wait.next) /\ ~NotRetired
  <2>1. wait.next \in {"halt", "control", "evict", "replace", "dispatch"}
    BY <1>5, WaitType DEF TypeInv, TypeOK, TickOK, StageOK, Awaiting, NextStage
  <2> QED BY <1>1, <2>1 DEF Continue, NotRetired
<1>6. CASE Dispatch
  <2>1. ASSUME Special PROVE Read
    BY <1>1, <1>2, <2>1 DEF Special, Snapshot, Consider, AdmitReuse, AdmitNew, Send
  <2>2. ASSUME DispatchThrows \/ SaveIdentity \/ MarkLost PROVE Read
    BY <1>2, <2>2 DEF DispatchThrows, SaveIdentity, MarkLost
  <2>3. ASSUME NEW answered \in BOOLEAN, Acknowledge(answered) PROVE Read
    BY <1>2, <2>3 DEF Acknowledge
  <2>4. \A c \in Classification : ~RetireAwaited(c)
    BY <1>5 DEF RetireAwaited, Awaiting
  <2>5. ~Retired
    BY <1>5 DEF Retired, Awaiting
  <2>6. /\ \A v \in Session : ~Evict(v)
        /\ \A replace \in BOOLEAN : ~Capture(replace)
        /\ ~EndPass /\ ~ConsiderCapacity /\ ~Blocked /\ ~RefuseAuthority /\ ~Route /\ ~EvictionDone
        /\ ~Launch /\ ~Transport /\ ~Claim /\ ~MarkRunning /\ ~Cleanup
    BY <1>1 DEF Evict, Capture, EndPass, ConsiderCapacity, Blocked, RefuseAuthority, Route,
       EvictionDone, Launch, Transport, Claim, MarkRunning, Cleanup, AwaitRetire
  <2> HIDE DEF Read
  <2>7. Read \/ FailOperation
    BY <1>6, <2>1, <2>2, <2>3, <2>4, <2>5, <2>6 DEF Dispatch, Special
  <2> QED BY <2>7 DEF Read
<1>7. CASE Failure
  <2>1. ~PassLost /\ ~Crash
    BY <1>1 DEF PassLost, Crash
  <2>2. ASSUME AwaitLost \/ AdmissionLost PROVE Read
    BY <1>1, <2>2 DEF AwaitLost, AdmissionLost, AwaitRejects
  <2>3. ASSUME ReuseLost PROVE Read
    BY <1>2, <2>3 DEF ReuseLost
  <2> QED BY <1>3, <1>7, <2>1, <2>2, <2>3 DEF Failure, Startup
<1> QED BY NotTheTick, <1>3, <1>4, <1>6, <1>7 DEF Next

\* What the tick reads of the map before it awaits the retirement of an entry.
Finds == \E s \in Session :
    /\ at \in {"halt", "control", "evict"}
    /\ map[s] # 0 /\ wait'.gen = map[s]
    /\ IF rtOp[map[s]] = 0 THEN at' = "retire" ELSE at' = "interrupt" /\ cur' = rtOp[map[s]]

\* How the tick comes to await a retirement or an interruption.
LEMMA RetireMoves ==
    ASSUME TypeInv, Next, at' \in {"retire", "interrupt"}
    PROVE  \/ UNCHANGED <<at, cur, wait>>
           \/ Finds
           \/ InterruptOperation
           \/ Capture(TRUE)
           \/ Cleanup /\ failed # 0
<1> DEFINE Same == UNCHANGED <<at, cur, wait>>
<1> USE DEF tick, register, dispatch
<1>1. ~Skip /\ ~AbandonPass /\ ~Throw
  BY DEF Skip, AbandonPass, Throw
<1>2. UNCHANGED tick => Same
  OBVIOUS
<1>3. CASE Control
  <2>1. ~BeginPass /\ ~HaltQueue /\ ~AnswerRecorded /\ ~AnswerLost /\ ~CloseAdapter
    BY DEF BeginPass, HaltQueue, AnswerRecorded, AnswerLost, CloseAdapter
  <2>2. ASSUME NEW s \in Session, HaltRuntime(s) PROVE Finds
    <3>1. map[s] # 0
      BY <2>2 DEF HaltRuntime
    <3>2. rtOp[map[s]] = 0 => at' = "retire" /\ wait'.gen = map[s]
      BY <2>2, <3>1 DEF HaltRuntime, AwaitRetire
    <3>3. rtOp[map[s]] # 0 => /\ at' = "interrupt" /\ cur' = rtOp[map[s]]
                              /\ wait' = [NoWait EXCEPT !.gen = map[s]]
      BY <2>2, <3>1 DEF HaltRuntime
    <3>4. [NoWait EXCEPT !.gen = map[s]].gen = map[s]
      BY DEF NoWait
    <3> QED BY <2>2, <3>1, <3>2, <3>3, <3>4 DEF HaltRuntime, Finds
  <2>3. ASSUME NEW s \in Session, NEW c \in Classification, NEW expired \in BOOLEAN,
               ReconcileRuntime(s, c, expired)
        PROVE  Finds
    <3>1. at = "control" /\ map[s] # 0 /\ rtOp[map[s]] = 0
      BY <2>3 DEF ReconcileRuntime
    <3>2. AwaitRetire(map[s], FALSE, "control") \/ AwaitRetire(map[s], expired, "control")
      BY <2>3, <3>1 DEF ReconcileRuntime
    <3> QED BY <3>1, <3>2 DEF AwaitRetire, Finds
  <2>4. \A s \in Session : ~ReconcileMember(s)
    BY DEF ReconcileMember
  <2>5. \A s \in Session, delivered \in BOOLEAN : ~AnswerRequest(s, delivered)
    BY DEF AnswerRequest
  <2>6. \A t \in Turn : ~CancelQueued(t)
    BY DEF CancelQueued
  <2> QED BY <1>3, <2>1, <2>2, <2>3, <2>4, <2>5, <2>6 DEF Control
<1>4. ASSUME at \in Awaiting PROVE ~Continue(wait.next) /\ ~NotRetired
  <2>1. wait.next \in {"halt", "control", "evict", "replace", "dispatch"}
    BY <1>4, WaitType DEF TypeInv, TypeOK, TickOK, StageOK, Awaiting, NextStage
  <2> QED BY <1>1, <2>1 DEF Continue, NotRetired
<1>5. CASE Dispatch
  <2>1. ~Special
    BY SpecialMoves DEF Bringing
  <2>2. \A c \in Classification : ~RetireAwaited(c)
    BY <1>4 DEF RetireAwaited, Awaiting
  <2>3. ~Retired
    BY <1>4 DEF Retired, Awaiting
  <2>4. ASSUME NEW v \in Session, Evict(v) PROVE Finds
    BY <2>4 DEF Evict, AwaitRetire, Finds
  <2>5. ASSUME NEW replace \in BOOLEAN, Capture(replace) PROVE Capture(TRUE)
    BY <2>5 DEF Capture
  <2>6. Cleanup => failed # 0
    BY <1>1 DEF Cleanup
  <2>7. /\ \A answered \in BOOLEAN : ~Acknowledge(answered)
        /\ ~EndPass /\ ~ConsiderCapacity /\ ~Blocked /\ ~RefuseAuthority /\ ~Route /\ ~EvictionDone
        /\ ~Launch /\ ~Transport /\ ~Claim /\ ~MarkRunning /\ ~DispatchThrows /\ ~SaveIdentity
        /\ ~MarkLost /\ ~FailOperation
    BY <1>1 DEF Acknowledge, EndPass, ConsiderCapacity, Blocked, RefuseAuthority, Route,
       EvictionDone, Launch, Transport, Claim, MarkRunning, DispatchThrows, SaveIdentity,
       MarkLost, FailOperation
  <2> QED BY <1>5, <2>1, <2>2, <2>3, <2>4, <2>5, <2>6, <2>7 DEF Dispatch, Special
<1>6. CASE Failure
  <2>1. ~PassLost /\ ~Crash
    BY <1>1 DEF PassLost, Crash
  <2>2. ~AwaitLost /\ ~AdmissionLost /\ ~ReuseLost
    BY <1>1 DEF AwaitLost, AdmissionLost, AwaitRejects, ReuseLost
  <2> QED BY <1>2, <1>6, <2>1, <2>2 DEF Failure, Startup
<1> QED BY NotTheTick, <1>2, <1>3, <1>5, <1>6 DEF Next

\* Who forgets the native turn of a runtime.
LEMMA RtTurnForgotten ==
    TypeInv /\ Next => \A g \in Turn :
        \/ rtTurn'[g] = rtTurn[g] \/ poisoned[g] \/ Crash
        \/ g = tgen /\ at \in {"claim", "ack"}
<1> DEFINE Move(g) == \/ rtTurn'[g] = rtTurn[g] \/ poisoned[g] \/ Crash
                      \/ g = tgen /\ at \in {"claim", "ack"}
<1> SUFFICES ASSUME TypeInv, Next PROVE \A g \in Turn : Move(g)
    OBVIOUS
<1>0. rtTurn \in [Turn -> Gen]
  BY DEF TypeInv, TypeOK, MemoryOK
<1>1. ASSUME rtTurn' = rtTurn PROVE \A g \in Turn : Move(g)
  BY <1>1
<1> USE DEF memory
<1>2. Api \/ Native \/ Control => rtTurn' = rtTurn
  BY DEF Api, Accept, BackgroundStop, EmergencyStop, Native, ProcessDies, NativeFinishes,
         Control, BeginPass, HaltRuntime, InterruptOperation, HaltQueue, ReconcileMember,
         ReconcileRuntime, AnswerRequest, AnswerRecorded, AnswerLost, CloseAdapter, CancelQueued
<1>3. Mailbox => rtTurn' = rtTurn
  BY DEF Mailbox, Poison, SettleUncertain, TurnCompleted, TurnFinished, NativeRequests, Inspect,
         Classify
<1>4. CASE Retirement
  <2>1. ASSUME NEW g \in Turn, RetirementConfirmed(g) \/ RetirementUnconfirmed(g)
        PROVE  \A h \in Turn : Move(h)
    BY <1>0, <2>1 DEF RetirementConfirmed, RetirementUnconfirmed, Forget
  <2>2. \/ \E g \in Turn : RetirementConfirmed(g) \/ RetirementUnconfirmed(g)
        \/ rtTurn' = rtTurn
    BY <1>4 DEF Retirement, Retire, RetireLost, Release, RetirementUncertain, SettlementLost
  <2> HIDE DEF Move
  <2> QED BY <1>1, <2>1, <2>2
<1>5. CASE Dispatch
  <2>1. ASSUME Claim PROVE \A g \in Turn : Move(g)
    BY <1>0, <2>1 DEF Claim
  <2>2. ASSUME NEW answered \in BOOLEAN, Acknowledge(answered) PROVE \A g \in Turn : Move(g)
    BY <1>0, <2>2 DEF Acknowledge
  <2>3. Claim \/ (\E answered \in BOOLEAN : Acknowledge(answered)) \/ rtTurn' = rtTurn
    BY <1>5 DEF Dispatch, Snapshot, EndPass, Consider, ConsiderCapacity, Blocked, RefuseAuthority,
       Route, Evict, EvictionDone, Capture, RetireAwaited, Retired, DispatchThrows, AdmitReuse,
       AdmitNew, Launch, SaveIdentity, Transport, Send, MarkRunning, MarkLost, FailOperation,
       Cleanup
  <2> HIDE DEF Move
  <2> QED BY <1>1, <2>1, <2>2, <2>3
<1>6. CASE Failure
  <2>1. Crash \/ rtTurn' = rtTurn
    BY <1>6 DEF Failure, PassLost, AwaitLost, AdmissionLost, ReuseLost, Startup
  <2> QED BY <1>1, <2>1
<1> QED BY <1>1, <1>2, <1>3, <1>4, <1>5, <1>6 DEF Next

-----------------------------------------------------------------------------
(* Every part is kept.                                                     *)

\* Past its admission no step but a transport or a claim makes a runtime
\* healthy again, or gives it a turn.
LEMMA QuietKeeps ==
    ASSUME TypeInv, Registered, Next, at \notin {"admit", "claim", "saved"}, NEW g \in Turn
    PROVE  /\ Free(g) => Free(g)'
           /\ \A t \in Turn : FreeBut(g, t) => FreeBut(g, t)'
<1>1. ActiveTurns' \subseteq ActiveTurns
  BY ActiveGrows DEF Admission
<1>2. opGen' = opGen
  BY OpGenSteps DEF AdmitReuse, AdmitNew, Claim
<1>3. ~Transport
  BY DEF Transport
<1>4. rt'[g] = "present" => rt[g] = "present"
  BY <1>3, RtSteps DEF RtStep, Crash
<1>5. ASSUME rt'[g] = "present", ~poisoned'[g] PROVE ~poisoned[g]
  <2>1. CASE Crash
    BY <1>5, <2>1 DEF Crash
  <2>2. ASSUME NEW h \in Turn, PoisonEffect(h) PROVE poisoned[g] => poisoned'[g]
    BY <2>2 DEF PoisonEffect, TypeInv, TypeOK, MemoryOK
  <2> QED BY <1>3, <1>5, <2>1, <2>2, MailSteps
<1> QED BY <1>1, <1>2, <1>4, <1>5 DEF Free, FreeBut

\* A turn is given to a runtime of its conversation only.
LEMMA OwnRuntimeKept ==
    ASSUME TypeInv, UsingInv, OwnRuntime, Next
    PROVE  OwnRuntime'
<1> SUFFICES ASSUME NEW t \in Turn, opGen'[t] # 0 PROVE SessionOf[opGen'[t]] = SessionOf[t]
    BY DEF OwnRuntime
<1>1. CASE opGen'[t] = opGen[t]
  BY <1>1 DEF OwnRuntime
<1>2. CASE t = cur /\ opGen'[t] = tgen /\ (AdmitReuse \/ AdmitNew \/ Claim)
  <2>1. at \in {"admit", "claim"}
    BY <1>2 DEF AdmitReuse, AdmitNew, Claim
  <2> QED BY <1>2, <2>1 DEF UsingInv, Running
<1> QED BY <1>1, <1>2, OpGenMoves

\* The admission found no sibling active, and none is admitted meanwhile.
LEMMA AloneKept ==
    ASSUME TypeInv, Registered, ActiveInv, Alone, Next
    PROVE  Alone'
<1> SUFFICES ASSUME Admitted' \/ Written', NEW t \in ActiveTurns', SessionOf[t] = SessionOf[cur']
             PROVE  t = cur'
    BY DEF Alone
<1>1. cur' = cur /\ (Opening \/ Admitted \/ Written)
  <2>1. Admission => Opening
    BY DEF Admission, Opening
  <2> QED BY <2>1, AdmittedMoves, WrittenMoves
<1>2. \A u \in ActiveTurns : SessionOf[u] = SessionOf[cur] => u = cur
  BY <1>1 DEF Alone, ActiveInv
<1> QED BY <1>1, <1>2, ActiveGrows

\* After its operation was settled, the turn given up is not active.
LEMMA FailedIs ==
    ASSUME TypeInv, FailOperation
    PROVE  op'[cur] \notin Active
<1>1. cur \in Turn /\ op \in [Turn -> OpState]
  BY DEF FailOperation, TypeInv, TypeOK, DurableOK, StageOK, TurnStages
<1>2. op' = Updated(cur, FailedState) /\ FailedState \in {"uncertain", "failed"}
  BY DEF FailOperation, FailedState
<1> QED BY <1>1, <1>2 DEF Updated, Active, Unsettled

\* The entry the catch clause reads is one of the turn's conversation.
LEMMA GivenUpKept ==
    ASSUME TypeInv, Mapped, GivenUp, Next
    PROVE  GivenUp'
<1> USE DEF GivenUp
<1>1. ASSUME at' \in {"fail", "cleanup"}
      PROVE  /\ failed' # 0 => SessionOf[failed'] = SessionOf[cur']
             /\ at' = "cleanup" => op'[cur'] \notin Active
  <2>1. CASE UNCHANGED <<at, cur, failed>>
    <3>1. cur \in Turn
      BY <1>1, <2>1 DEF TypeInv, StageOK, TurnStages
    <3>2. ActiveTurns' \subseteq ActiveTurns
      BY <1>1, <2>1, ActiveGrows DEF Admission
    <3> QED BY <1>1, <2>1, <3>1, <3>2 DEF ActiveTurns
  <2>2. CASE at' = "fail" /\ cur' = cur /\ failed' = map[SessionOf[cur]]
    <3>1. SessionOf[cur] \in Session \/ failed' = map[SessionOf[cur]]
      BY <2>2
    <3>2. cur \in Turn
      <4>1. cur' \in Turn
        BY <1>1, TypeNext DEF TypeInv, StageOK, TurnStages
      <4> QED BY <2>2, <4>1
    <3>3. SessionOf[cur] \in Session
      BY <3>2, ConstantsAssumption
    <3> QED BY <2>2, <3>3 DEF Mapped
  <2>3. CASE FailOperation
    <3>1. at = "fail" /\ cur' = cur /\ failed' = failed
      BY <2>3 DEF FailOperation, register, dispatch
    <3> QED BY <2>3, <3>1, FailedIs
  <2> QED BY <1>1, <2>1, <2>2, <2>3, ThrowMoves
<1> QED BY <1>1

\* The runtime of the turn in hand, at the moment the turn becomes its own.
LEMMA GivenAlone ==
    ASSUME TypeInv, ReserveInv, ActiveInv, UsingInv, OwnRuntime, Alone, Next,
           (AdmitReuse /\ at' = "claim") \/ Transport \/ Claim,
           NEW t \in ActiveTurns', opGen'[t] = tgen
    PROVE  t = cur
<1>1. cur' = cur /\ Admitted'
  BY DEF AdmitReuse, Skip, Transport, Claim, register, dispatch, Admitted, Bringing
<1>2. Alone' /\ OwnRuntime'
  BY AloneKept, OwnRuntimeKept DEF ReserveInv
<1>3. /\ tgen # 0 /\ SessionOf[tgen] = SessionOf[cur]
  <2>1. CASE Transport
    <3>1. tgen = cur /\ cur \in Turn
      BY <2>1, OwnGeneration
    <3> QED BY <3>1, ConstantsAssumption DEF Turn
  <2>2. CASE AdmitReuse \/ Claim
    <3>1. at \in {"admit", "claim"}
      BY <2>2 DEF AdmitReuse, Claim
    <3>2. tgen \in Turn
      BY <3>1 DEF UsingInv, Running
    <3> QED BY <3>1, <3>2, ConstantsAssumption DEF UsingInv, Running, Turn
  <2> QED BY <2>1, <2>2
<1>4. SessionOf[t] = SessionOf[cur']
  BY <1>1, <1>2, <1>3 DEF OwnRuntime, ActiveTurns
<1> QED BY <1>1, <1>2, <1>4 DEF Alone

\* A runtime that is healthy afterwards was so before, or was just given the turn.
LEMMA WorksOnKept ==
    ASSUME TypeInv, ReserveInv, ActiveInv, UsingInv, OwnRuntime, Alone, WorksOn, HookInv, Next
    PROVE  WorksOn'
<1> SUFFICES ASSUME NEW g \in Turn, NEW t \in ActiveTurns',
                    opGen'[t] = g, rt'[g] = "present", ~poisoned'[g]
             PROVE  rtOp'[g] = t
    BY DEF WorksOn
<1>1. t \in Turn /\ op'[t] \in Active
  BY DEF ActiveTurns
<1>2. rtOp \in [Turn -> Gen] /\ opGen \in [Turn -> Gen]
  BY DEF TypeInv, TypeOK, MemoryOK, DurableOK
<1>3. ASSUME AdmitNew, at' = "prepare" PROVE g # cur
  BY <1>3, AdmissionFresh DEF Unused, AdmitNew, memory
<1>4. CASE Transport /\ g = tgen
  <2>1. rtOp'[g] = cur
    BY <1>2, <1>4 DEF Transport
  <2> QED BY <1>4, <2>1, GivenAlone
<1>5. CASE (AdmitReuse /\ at' = "claim") /\ g = tgen
  <2>1. rtOp'[g] = cur
    BY <1>2, <1>5 DEF AdmitReuse, Skip
  <2> QED BY <1>5, <2>1, GivenAlone
<1>6. CASE Claim /\ g = tgen
  <2>1. rtOp'[g] = cur
    BY <1>2, <1>6 DEF Claim
  <2> QED BY <1>6, <2>1, GivenAlone
<1>7. ASSUME ~(Transport /\ g = tgen), ~((AdmitReuse /\ at' = "claim") /\ g = tgen),
             ~(Claim /\ g = tgen)
      PROVE  rtOp'[g] = t
  <2>1. opGen'[t] = opGen[t]
    <3>1. AdmitNew => tgen = cur
      BY DEF AdmitNew
    <3> QED BY <1>1, <1>3, <1>7, <3>1, OpGenMoves
  <2>2. t \in ActiveTurns
    <3>1. ASSUME Admission, t = cur PROVE FALSE
      <4>1. CASE AdmitReuse
        <5>1. at' = "claim"
          BY <3>1, <4>1 DEF AdmitReuse, Skip, Admission
        <5>2. opGen'[cur] = tgen
          BY <1>1, <1>2, <3>1, <4>1, <5>1 DEF AdmitReuse, Skip
        <5> QED BY <1>7, <3>1, <4>1, <5>1, <5>2
      <4>2. CASE AdmitNew
        <5>1. at' = "prepare"
          BY <3>1, <4>2 DEF AdmitNew, Throw, Admission
        <5>2. opGen'[cur] = cur
          BY <1>1, <1>2, <3>1, <4>2, <5>1 DEF AdmitNew, Throw
        <5> QED BY <1>3, <3>1, <4>2, <5>1, <5>2
      <4> QED BY <3>1, <4>1, <4>2, AdmissionIs
    <3> QED BY <3>1, ActiveGrows
  <2>3. ~Crash
    BY DEF Crash
  <2>4. rt[g] = "present"
    BY <1>7, <2>3, RtSteps DEF RtStep
  <2>5. ~poisoned[g]
    <3>1. ASSUME NEW h \in Turn, PoisonEffect(h) PROVE poisoned[g] => poisoned'[g]
      BY <3>1 DEF PoisonEffect, TypeInv, TypeOK, MemoryOK
    <3>2. Transport => poisoned' = poisoned
      BY DEF Transport
    <3> QED BY <2>3, <3>1, <3>2, MailSteps DEF ReserveInv
  <2>6. rtOp[g] = t
    BY <2>1, <2>2, <2>4, <2>5 DEF WorksOn
  <2>7. ~(hook[g] = "completed" /\ rtOp[g] = rtTurn[g])
    <3>1. op[t] \in Active
      BY <2>2 DEF ActiveTurns
    <3> QED BY <2>6, <3>1 DEF HookInv, Ending, Done, Unsettled
  <2>8. ~(ReuseLost /\ g = tgen)
    BY <1>1, <2>6, ConstantsAssumption DEF ReuseLost, Ready, Reusable, Turn
  <2> QED BY <1>7, <2>6, <2>7, <2>8, RtOpMoves
<1> QED BY <1>4, <1>5, <1>6, <1>7

\* What is dead stays dead.
LEMMA DeadStays ==
    ASSUME TypeInv, ReserveInv, Next, NEW g \in Turn, proc[g] = "dead"
    PROVE  proc'[g] = "dead"
<1>1. ~(Launch /\ g = tgen)
  <2> SUFFICES ASSUME Launch, g = tgen PROVE FALSE
      OBVIOUS
  <2>1. at = "prepare" /\ tgen = cur /\ launched = FALSE
    BY OwnGeneration DEF Launch, Reserved
  <2>2. InHand
    BY <2>1 DEF InHand, Chosen, Bringing
  <2> QED BY <2>1, <2>2 DEF ReserveInv, FreshTurns, Unused
<1> QED BY <1>1, ProcSteps DEF ProcStep

\* A disconnect is for the life of the runtime.
LEMMA PoisonedStays ==
    ASSUME TypeInv, Registered, Next, ~Crash, NEW g \in Turn, poisoned[g]
    PROVE  poisoned'[g]
<1>1. Transport => poisoned' = poisoned
  BY DEF Transport
<1>2. ASSUME NEW h \in Turn, PoisonEffect(h) PROVE poisoned'[g]
  BY <1>2 DEF PoisonEffect, TypeInv, TypeOK, MemoryOK
<1> QED BY <1>1, <1>2, MailSteps

\* The handler's steps keep what it still has to do true.
LEMMA HookInvKept ==
    ASSUME TypeInv, ReserveInv, HookInv, ClaimInv, Next
    PROVE  HookInv'
<1> SUFFICES ASSUME NEW g \in Turn
             PROVE  /\ poisoned'[g] \/ rt'[g] = "absent" => hook'[g] = "none"
                    /\ hook'[g] = "gone" => proc'[g] = "dead"
                    /\ hook'[g] \in Ending =>
                         /\ rtTurn'[g] # 0 /\ op'[rtTurn'[g]] \notin Unsettled \cup {"absent"}
                         /\ rt'[g] = "present" => rtOp'[g] = rtTurn'[g]
    BY DEF HookInv, Done
<1>1. CASE Crash
  BY <1>1 DEF Crash, Ending
<1>2. CASE ~Crash
  <2>1. HookStep(g)
    BY HookSteps
  <2>2. ASSUME poisoned'[g] \/ rt'[g] = "absent" PROVE hook'[g] = "none"
    <3>1. CASE poisoned[g] \/ rt[g] = "absent"
      BY <2>1, <3>1 DEF HookInv, HookStep
    <3>2. CASE ~poisoned[g] /\ rt[g] # "absent"
      <4>1. poisoned'[g]
        BY <1>2, <2>2, <3>2, KnownKept
      <4>2. PICK h \in Turn : PoisonEffect(h)
        <5>1. Transport => poisoned' = poisoned
          BY DEF Transport
        <5> QED BY <1>2, <3>2, <4>1, <5>1, MailSteps DEF ReserveInv
      <4>3. h = g
        BY <3>2, <4>1, <4>2 DEF PoisonEffect, TypeInv, TypeOK, MemoryOK
      <4> QED BY <4>2, <4>3 DEF PoisonEffect, TypeInv, TypeOK, MemoryOK
    <3> QED BY <3>1, <3>2 DEF TypeInv, TypeOK, MemoryOK
  <2>3. ASSUME hook'[g] = "gone" PROVE proc'[g] = "dead"
    <3>1. proc[g] = "dead"
      BY <2>1, <2>3 DEF HookInv, HookStep, Ending
    <3> QED BY <3>1, DeadStays
  <2>4. ASSUME hook'[g] \in Ending
        PROVE  /\ rtTurn'[g] # 0 /\ op'[rtTurn'[g]] \notin Unsettled \cup {"absent"}
               /\ rt'[g] = "present" => rtOp'[g] = rtTurn'[g]
    <3>1. CASE hook[g] \in Ending
      <4>1. ~(g = tgen /\ at \in {"claim", "ack"})
        BY <3>1 DEF ClaimInv
      <4>2. ~poisoned[g] /\ rt[g] # "absent"
        BY <3>1 DEF HookInv, Ending
      <4>3. rtTurn'[g] = rtTurn[g]
        BY <1>2, <4>1, <4>2, RtTurnForgotten
      <4>4. rtTurn[g] \in Turn /\ rtTurn[g] # 0 /\ Done(rtTurn[g])
        BY <3>1, GenTurn DEF HookInv, TypeInv, TypeOK, MemoryOK
      <4>5. \A t \in Turn : Done(t) => Done(t)'
        BY DoneStays
      <4>6. op'[rtTurn'[g]] \notin Unsettled \cup {"absent"}
        BY <4>3, <4>4, <4>5 DEF Done
      <4>7. ~(Transport /\ g = tgen)
        BY <4>2, OwnGeneration DEF Reserved
      <4>8. rt'[g] = "present" => rt[g] = "present"
        BY <1>2, <4>7, RtSteps DEF RtStep
      <4>9. ASSUME rt'[g] = "present" PROVE rtOp'[g] = rtTurn'[g]
        <5>1. rtOp[g] = rtTurn[g]
          BY <3>1, <4>8, <4>9 DEF HookInv
        <5>2. ~(AdmitReuse /\ at' = "claim" /\ g = tgen)
          BY <4>4, <5>1 DEF AdmitReuse, Ready, Skip, Reusable
        <5>3. ~(Claim /\ g = tgen)
          BY <4>1 DEF Claim
        <5>4. hook'[g] # "classify"
          BY <2>4 DEF Ending
        <5>5. ~(ReuseLost /\ g = tgen)
          BY <4>4, <5>1 DEF ReuseLost, Ready, Reusable
        <5> QED BY <4>3, <4>7, <4>9, <5>1, <5>2, <5>3, <5>4, <5>5, RtOpMoves
      <4> QED BY <4>3, <4>4, <4>6, <4>9
    <3>2. CASE hook[g] \notin Ending
      <4>1. /\ rtTurn[g] \in Turn /\ rtTurn[g] = rtOp[g] /\ op'[rtTurn[g]] \in Settled
            /\ UNCHANGED <<rt, rtOp, rtTurn, poisoned>>
        BY <2>1, <2>4, <3>2 DEF HookStep, Ending
      <4>2. rtTurn[g] # 0
        BY <4>1, ConstantsAssumption DEF Turn
      <4>3. op'[rtTurn'[g]] \notin Unsettled \cup {"absent"}
        BY <4>1 DEF Done, Settled, Unsettled, Active
      <4> QED BY <4>1, <4>2, <4>3
    <3> QED BY <3>1, <3>2
  <2> QED BY <2>2, <2>3, <2>4
<1> QED BY <1>1, <1>2

\* What a pending call was made for does not become untrue.
LEMMA AskedKept ==
    ASSUME TypeInv, ReserveInv, HookInv, AskedInv, Next
    PROVE  AskedInv'
<1> SUFFICES ASSUME NEW g \in Turn, NEW t \in asked'[g]
             PROVE  /\ t = 0 => poisoned'[g] \/ proc'[g] = "dead"
                    /\ t # 0 => Done(t)'
    BY DEF AskedInv
<1>1. ~Crash
  BY DEF Crash
<1>2. asked \in [Turn -> SUBSET Gen] /\ rtTurn \in [Turn -> Gen]
  BY DEF TypeInv, TypeOK, MemoryOK
<1>3. poisoned[g] \/ proc[g] = "dead" => poisoned'[g] \/ proc'[g] = "dead"
  BY <1>1, DeadStays, PoisonedStays DEF ReserveInv
<1>4. \A u \in Turn : Done(u) => Done(u)'
  BY DoneStays
<1>5. CASE t \in asked[g]
  BY <1>2, <1>3, <1>4, <1>5, GenTurn DEF AskedInv
<1>6. CASE t = 0 /\ poisoned'[g]
  BY <1>6
<1>7. CASE t = 0 /\ hook[g] = "gone"
  BY <1>3, <1>7 DEF HookInv
<1>8. CASE t = rtTurn[g] /\ hook[g] \in Ending
  BY <1>2, <1>4, <1>8, GenTurn DEF HookInv
<1> QED BY <1>5, <1>6, <1>7, <1>8, AskedSteps DEF AskedStep

\* No handler of the runtime in hand has a turn to end before it is sent one.
LEMMA ClaimKept ==
    ASSUME TypeInv, SentInv, ReserveInv, UsingInv, NamesSent, HookInv, ClaimInv, Next
    PROVE  ClaimInv'
<1> SUFFICES ASSUME at' \in {"claim", "send", "ack"}
             PROVE  /\ rtOp'[tgen'] \in {0, cur'} /\ rtTurn'[tgen'] # cur'
                    /\ hook'[tgen'] \notin Ending
    BY DEF ClaimInv
<1>1. /\ rtOp \in [Turn -> Gen] /\ rtTurn \in [Turn -> Gen]
      /\ hook \in [Turn -> {"none", "completed", "ended", "classify"} \cup Classification]
  BY DEF TypeInv, TypeOK, MemoryOK
<1>2. CASE UNCHANGED tick
  <2>1. UNCHANGED <<at, cur, tgen>>
    BY <1>2 DEF tick, register, dispatch
  <2>2. tgen \in Turn /\ cur \in Turn /\ cur # 0
    BY <2>1, ConstantsAssumption DEF UsingInv, Running, TypeInv, StageOK, TurnStages, Turn
  <2>3. rtOp[tgen] \in {0, cur} /\ rtTurn[tgen] # cur /\ hook[tgen] \notin Ending
    BY <2>1 DEF ClaimInv
  <2>4. rtOp'[tgen] \in {0, cur}
    BY <2>2, <2>3, RtOpSteps
  <2>5. rtTurn'[tgen] # cur
    BY <2>1, <2>2, <2>3, RtTurnSteps
  <2>6. hook'[tgen] \notin Ending
    <3>1. HookStep(tgen)
      BY <2>2, HookSteps
    <3> QED BY <2>2, <2>3, <3>1, ConstantsAssumption DEF HookStep, Ending, Turn
  <2> QED BY <2>1, <2>4, <2>5, <2>6
<1>3. CASE AdmitReuse
  <2>1. /\ at = "admit" /\ cur' = cur /\ tgen' = tgen
        /\ Reusable(tgen) /\ rtOp' = [rtOp EXCEPT ![tgen] = cur]
        /\ UNCHANGED <<rtTurn, hook>>
    BY <1>3 DEF AdmitReuse, Ready, Skip, register, dispatch
  <2>2. tgen \in Turn
    BY <2>1 DEF UsingInv, Running
  <2>3. cur \in Turn /\ cur # 0 /\ sent[cur] = 0
    BY <2>1, NotSent DEF Chosen, Choosing
  <2>4. rtTurn[tgen] # cur
    BY <2>2, <2>3 DEF NamesSent
  <2>5. hook[tgen] \notin Ending
    BY <2>1, <2>2 DEF HookInv, Reusable
  <2> QED BY <1>1, <2>1, <2>2, <2>4, <2>5
<1>4. CASE Transport
  <2>1. /\ at = "saved" /\ cur' = cur /\ tgen' = tgen
        /\ rtOp' = [rtOp EXCEPT ![tgen] = cur]
        /\ UNCHANGED <<rtTurn, hook>>
    BY <1>4 DEF Transport, register, dispatch
  <2>2. tgen \in Turn /\ rt[tgen] = "absent"
    BY <1>4, OwnGeneration DEF Reserved
  <2>3. cur \in Turn /\ cur # 0 /\ sent[cur] = 0
    BY <2>1, NotSent DEF Chosen, Bringing
  <2>4. rtTurn[tgen] # cur
    BY <2>2, <2>3 DEF NamesSent
  <2>5. hook[tgen] \notin Ending
    BY <2>2 DEF HookInv, Ending
  <2> QED BY <1>1, <2>1, <2>2, <2>4, <2>5
<1>5. CASE Claim
  <2>1. /\ at = "claim" /\ cur' = cur /\ tgen' = tgen
        /\ rtOp' = [rtOp EXCEPT ![tgen] = cur] /\ rtTurn' = [rtTurn EXCEPT ![tgen] = 0]
        /\ hook' = hook
    BY <1>5 DEF Claim, register, dispatch
  <2>2. tgen \in Turn /\ cur \in Turn /\ cur # 0
    BY <2>1, ConstantsAssumption DEF UsingInv, Running, TypeInv, StageOK, TurnStages, Turn
  <2> QED BY <1>1, <2>1, <2>2 DEF ClaimInv
<1>6. CASE Send
  <2>1. /\ at = "send" /\ cur' = cur /\ tgen' = tgen
        /\ UNCHANGED <<rtOp, rtTurn, hook>>
    BY <1>6 DEF Send, Throw, register, dispatch, memory
  <2> QED BY <2>1 DEF ClaimInv
<1>7. ~Chooses
  BY DEF Chooses
<1>8. \A answered \in BOOLEAN : ~Acknowledge(answered)
  BY DEF Acknowledge, Throw
<1> QED BY <1>2, <1>3, <1>4, <1>5, <1>6, <1>7, <1>8, RunningMoves DEF Running

\* The retirement the tick awaits takes no active turn's runtime.
LEMMA AwaitKept ==
    ASSUME TypeInv, ReserveInv, ActiveInv, OwnRuntime, Alone, GivenUp, WorksOn, AwaitInv, Next
    PROVE  AwaitInv'
<1>0. Registered /\ Mapped
  BY DEF ReserveInv
<1> SUFFICES ASSUME at' \in {"retire", "interrupt"}
             PROVE  \E g \in Turn :
                      /\ wait'.gen = g
                      /\ at' = "retire" => Free(g)'
                      /\ at' = "interrupt" => \E t \in Turn : t = cur' /\ FreeBut(g, t)'
    BY DEF AwaitInv, Free, FreeBut
<1>1. CASE UNCHANGED <<at, cur, wait>>
  <2>1. PICK g \in Turn : /\ wait.gen = g
                          /\ at = "retire" => Free(g)
                          /\ at = "interrupt" => FreeBut(g, cur)
    BY <1>1 DEF AwaitInv
  <2>2. at \notin {"admit", "claim", "saved"}
    BY <1>1
  <2>3. CASE at = "retire"
    BY <1>0, <1>1, <2>1, <2>2, <2>3, QuietKeeps
  <2>4. CASE at = "interrupt"
    <3>1. PICK t \in Turn : t = cur
      BY <2>4 DEF TypeInv, StageOK, TurnStages
    <3>2. FreeBut(g, t)'
      BY <1>0, <2>1, <2>2, <2>4, <3>1, QuietKeeps
    <3> QED BY <1>1, <2>1, <2>4, <3>1, <3>2
  <2> QED BY <1>1, <2>3, <2>4
<1>2. CASE Finds
  <2>1. PICK s \in Session : /\ at \in {"halt", "control", "evict"}
                             /\ map[s] # 0 /\ wait'.gen = map[s]
                             /\ IF rtOp[map[s]] = 0 THEN at' = "retire"
                                ELSE at' = "interrupt" /\ cur' = rtOp[map[s]]
    BY <1>2 DEF Finds
  <2>2. PICK g \in Turn : g = map[s]
    BY <2>1, GenTurn DEF TypeInv, TypeOK, MemoryOK
  <2>3. CASE rtOp[g] = 0
    <3>1. Free(g)
      BY <2>3, ConstantsAssumption DEF WorksOn, Free, ActiveTurns, Turn
    <3> QED BY <1>0, <2>1, <2>2, <2>3, <3>1, QuietKeeps
  <2>4. CASE rtOp[g] # 0
    <3>1. PICK t \in Turn : t = rtOp[g]
      BY <2>4, GenTurn DEF TypeInv, TypeOK, MemoryOK
    <3>2. FreeBut(g, t)
      BY <3>1 DEF WorksOn, FreeBut
    <3>3. FreeBut(g, t)'
      BY <1>0, <2>1, <3>2, QuietKeeps
    <3>4. wait'.gen = g /\ at' = "interrupt" /\ cur' = t
      BY <2>1, <2>2, <2>4, <3>1
    <3> QED BY <3>3, <3>4
  <2> QED BY <2>3, <2>4
<1>3. CASE InterruptOperation
  <2>1. at = "interrupt" /\ at' = "retire" /\ wait'.gen = wait.gen
    BY <1>3 DEF InterruptOperation, AwaitRetire
  <2>2. cur \in Turn /\ op \in [Turn -> OpState]
    BY <2>1 DEF TypeInv, TypeOK, DurableOK, StageOK, TurnStages
  <2>3. PICK g \in Turn : wait.gen = g /\ FreeBut(g, cur)
    BY <2>1 DEF AwaitInv
  <2>4. op'[cur] \notin Active
    BY <1>3, <2>2 DEF InterruptOperation, Updated, Active
  <2>5. FreeBut(g, cur) => /\ rt'[g] = "present" /\ ~poisoned'[g] =>
                                \A u \in ActiveTurns' : opGen'[u] = g => u = cur
    <3>1. \A t \in Turn : FreeBut(g, t) => FreeBut(g, t)'
      BY <1>0, <2>1, QuietKeeps
    <3>2. PICK t \in Turn : t = cur
      BY <2>2
    <3> QED BY <3>1, <3>2 DEF FreeBut
  <2>6. Free(g)'
    BY <2>3, <2>4, <2>5 DEF Free, ActiveTurns
  <2> QED BY <2>1, <2>3, <2>6
<1>4. CASE Capture(TRUE)
  <2>1. at = "capture" /\ at' = "retire" /\ map[SessionOf[cur]] # 0
        /\ wait'.gen = map[SessionOf[cur]]
    BY <1>4 DEF Capture, AwaitRetire
  <2>2. cur \in Turn /\ SessionOf[cur] \in Session
    BY <2>1, ConstantsAssumption DEF TypeInv, StageOK, TurnStages
  <2>3. PICK g \in Turn : g = map[SessionOf[cur]]
    BY <2>1, <2>2, GenTurn DEF TypeInv, TypeOK, MemoryOK
  <2>4. SessionOf[g] = SessionOf[cur]
    BY <1>0, <2>1, <2>2, <2>3 DEF Mapped
  <2>5. \A t \in ActiveTurns : SessionOf[t] # SessionOf[cur]
    BY <2>1 DEF ActiveInv, Opening
  <2>6. Free(g)
    BY <2>1, <2>3, <2>4, <2>5 DEF Free, OwnRuntime, ActiveTurns
  <2> QED BY <1>0, <2>1, <2>3, <2>6, QuietKeeps
<1>5. CASE Cleanup /\ failed # 0
  <2>1. at = "cleanup" /\ at' = "retire" /\ wait'.gen = failed
    BY <1>5 DEF Cleanup, AwaitRetire
  <2>2. PICK g \in Turn : g = failed
    BY <1>5, GenTurn DEF TypeInv, TypeOK, TickOK
  <2>3. /\ SessionOf[g] = SessionOf[cur] /\ op[cur] \notin Active
        /\ \A t \in ActiveTurns : SessionOf[t] = SessionOf[cur] => t = cur
    BY <1>5, <2>1, <2>2 DEF GivenUp, Alone, Written
  <2>4. Free(g)
    BY <1>5, <2>2, <2>3 DEF Free, OwnRuntime, ActiveTurns
  <2> QED BY <1>0, <2>1, <2>2, <2>4, QuietKeeps
<1> QED BY <1>1, <1>2, <1>3, <1>4, <1>5, RetireMoves

-----------------------------------------------------------------------------
(* The theorem.                                                            *)

\* No turn, no runtime and no call at first.
LEMMA SparedInit == Init => SparedInv
BY ConstantsAssumption
DEF Init, SparedInv, OwnRuntime, Alone, GivenUp, WorksOn, NamesSent, HookInv, AskedInv, ClaimInv, AwaitInv,
    Admitted, Written, Bringing, Awaiting, Ending, ActiveTurns, Active

\* The invariant is kept, given those of the other proofs.
LEMMA SparedStable == Invariants /\ SparedInv /\ [Next]_vars => SparedInv'
<1>1. CASE UNCHANGED vars
  BY <1>1 DEF vars, durable, memory, tick, register, dispatch, outside, history, SparedInv,
     OwnRuntime, Alone, GivenUp, WorksOn, NamesSent, HookInv, AskedInv, ClaimInv, AwaitInv,
     Admitted, Written, Free, FreeBut, Done, ActiveTurns
<1>2. ASSUME Invariants, SparedInv, Next PROVE SparedInv'
  <2>1. Registered /\ Mapped
    BY <1>2 DEF Invariants, ReserveInv
  <2>2. OwnRuntime' /\ Alone' /\ GivenUp'
    BY <1>2, <2>1, OwnRuntimeKept, AloneKept, GivenUpKept DEF Invariants, SparedInv
  <2>3. WorksOn'
    BY <1>2, WorksOnKept DEF Invariants, SparedInv
  <2>4. NamesSent' /\ HookInv' /\ AskedInv' /\ ClaimInv'
    BY <1>2, NamesSentKept, HookInvKept, AskedKept, ClaimKept DEF Invariants, SparedInv
  <2>5. AwaitInv'
    BY <1>2, AwaitKept DEF Invariants, SparedInv
  <2> QED BY <2>2, <2>3, <2>4, <2>5 DEF SparedInv
<1> QED BY <1>1, <1>2

\* One step spares the runtimes that work.
LEMMA SparedStep ==
    ASSUME TypeInv, SparedInv, Next, NEW g \in Turn,
           rt[g] = "present", rt'[g] = "killing", proc[g] = "live", ~poisoned[g],
           NEW t \in Turn, op[t] \in Active
    PROVE  opGen[t] # g
<1> SUFFICES ASSUME opGen[t] = g PROVE FALSE
    OBVIOUS
<1>1. rtOp[g] = t
  BY DEF SparedInv, WorksOn, ActiveTurns
<1>2. ASSUME NEW done \in asked[g], Admissible(g, done) PROVE FALSE
  <2>1. done # 0
    BY <1>2 DEF SparedInv, AskedInv
  <2>2. done = t
    BY <1>1, <1>2, <2>1 DEF Admissible
  <2>3. Done(t)
    BY <2>1, <2>2 DEF SparedInv, AskedInv
  <2> QED BY <2>3 DEF Done, Unsettled
<1>3. ASSUME at = "retire", g = wait.gen PROVE FALSE
  <2>1. Free(g)
    BY <1>3 DEF SparedInv, AwaitInv, Free
  <2> QED BY <2>1 DEF Free, ActiveTurns
<1> QED BY <1>2, <1>3, KillSteps

(***************************************************************************)
(* No retirement takes a healthy runtime away from an active turn, whoever *)
(* asked for it and however late its call is admitted: a call nobody       *)
(* awaits was made for a runtime that is disconnected or dead, or for a    *)
(* turn that ended, and the runtime still names that turn or the call is   *)
(* turned away; one the tick awaits was decided when no active turn worked *)
(* on the runtime, and no turn is admitted meanwhile.                      *)
(***************************************************************************)
THEOREM HealthyAreSpared == Spec => HealthySpared
<1>1. Init => Invariants /\ SparedInv
  BY SparedInit, TypeInit, SentInit, HonestInit, ReserveInit, ActiveInit, DispatchedInit,
     UsingInit
  DEF Invariants
<1>2. SparedInv /\ Invariants /\ [Next]_vars => SparedInv'
  BY SparedStable
<1>3. TypeInv /\ SparedInv /\ [Next]_vars =>
        [\A g \in Turn :
            rt[g] = "present" /\ rt'[g] = "killing" /\ proc[g] = "live" /\ ~poisoned[g]
                => \A t \in Turn : op[t] \in Active => opGen[t] # g]_vars
  BY SparedStep
<1>4. Invariants => TypeInv
  BY DEF Invariants
<1> QED BY <1>1, <1>2, <1>3, <1>4, Inductive, PTL DEF Spec, HealthySpared

=============================================================================
