--------------------- MODULE ConversationRuntimes_proofs ---------------------
(***************************************************************************)
(* Type correctness of the dispatcher.  TypeOK alone is not inductive: an  *)
(* action that indexes a function with a register of the tick keeps its    *)
(* type only because the stage of the tick says that the register holds a  *)
(* turn or a generation there.  StageOK says so, stage by stage.           *)
(***************************************************************************)
EXTENDS ConversationRuntimes, TLAPS

\* The stages of the tick that work on the turn in `cur'.
TurnStages == {"interrupt", "answered", "unanswered", "busy", "route", "evict",
               "capture", "admit", "prepare", "spawned", "saved", "claim",
               "send", "ack", "mark", "fail", "cleanup"}

\* The stages that answer a request of the runtime in `wait.gen'.
AnswerStages == {"answered", "unanswered", "close"}

StageOK ==
    /\ at \in {"retire", "await"} => wait.next # "none"
    /\ \/ at \in TurnStages
       \/ at \in {"retire", "await"} /\ wait.next \in {"evict", "replace"}
       => cur \in Turn
    /\ at \in AnswerStages => wait.gen \in Turn

\* The inductive invariant.
TypeInv == TypeOK /\ StageOK

-----------------------------------------------------------------------------
(* What the helpers of the model return.                                   *)

\* A generation other than 0 is named by a turn.
LEMMA GenTurn == Turn \subseteq Gen /\ 0 \in Gen /\ \A g \in Gen : g # 0 => g \in Turn
BY ConstantsAssumption DEF Gen, Turn

\* Writing the state of a conversation's row yields rows.
LEMMA MemberAsType ==
    ASSUME DurableOK, NEW s, NEW g, NEW state \in MemberState
    PROVE  MemberAs(s, g, state) \in [Session -> Member]
BY DEF DurableOK, MemberAs, Member

\* The rows the actions build are rows.
LEMMA RowTypes ==
    /\ NoMember \in Member
    /\ \A m \in Member : [m EXCEPT !.ident = TRUE] \in Member
    /\ \A g \in Gen : [state |-> "starting", gen |-> g, ident |-> FALSE] \in Member
    /\ \A m \in Member : \A state \in MemberState : [m EXCEPT !.state = state] \in Member
BY GenTurn DEF NoMember, Member, MemberState

\* update() writes states of turns.
LEMMA UpdatedType ==
    ASSUME DurableOK, NEW t, NEW state \in OpState
    PROVE  Updated(t, state) \in [Turn -> OpState]
BY DEF DurableOK, Updated

\* deriveSessionState and repairReleasedPersonalSession write booleans.
LEMMA DerivedType ==
    ASSUME DurableOK, NEW s, NEW ops
    PROVE  Derived(s, ops) \in [Session -> BOOLEAN]
BY DEF DurableOK, Derived, HasUncertain

LEMMA RepairedType ==
    ASSUME DurableOK, NEW s
    PROVE  Repaired(s, sUncertain) \in [Session -> BOOLEAN]
BY DEF DurableOK, Repaired

\* Deleting a row leaves rows and flags.
LEMMA FreeMemberType ==
    ASSUME DurableOK, NEW s, FreeMember(s)
    PROVE  /\ member' \in [Session -> Member]
           /\ retained' \in [Session -> BOOLEAN]
           /\ stopRequested' \in [Session -> BOOLEAN]
BY RowTypes DEF DurableOK, FreeMember

\* The poison callback keeps the supervisor's memory and the transports typed.
LEMMA PoisonEffectType ==
    ASSUME MemoryOK, OutsideOK, NEW g \in Turn, PoisonEffect(g)
    PROVE  /\ poisoned' \in [Turn -> BOOLEAN]
           /\ map' \in [Session -> Gen]
           /\ asked' \in [Turn -> SUBSET Gen]
           /\ native' \in [Turn -> Gen]
           /\ hook' \in [Turn -> {"none", "completed", "ended", "classify"} \cup Classification]
           /\ pending' \subseteq Turn
<1> USE GenTurn DEF MemoryOK, OutsideOK, PoisonEffect
<1>1. OperationLost(g) \subseteq Turn
  BY DEF OperationLost
<1>2. pending' \subseteq Turn
  BY <1>1
<1>3. asked' \in [Turn -> SUBSET Gen]
  <2>1. asked[g] \cup {0} \in SUBSET Gen
    OBVIOUS
  <2> QED BY <2>1
<1> QED BY <1>2, <1>3

\* Where the tick goes on after an awaited retirement.
NextStage == {"halt", "control", "evict", "replace", "dispatch"}

\* The register of an awaited retirement.
LEMMA WaitType ==
    /\ NoWait \in Wait
    /\ \A g \in Gen : \A auto \in BOOLEAN : \A next \in NextStage :
         [gen |-> g, auto |-> auto, next |-> next] \in Wait
    /\ \A g \in Gen : [NoWait EXCEPT !.gen = g] \in Wait
    /\ \A w \in Wait : w.gen \in Gen /\ w.auto \in BOOLEAN
                        /\ w.next \in NextStage \cup {"none"}
BY GenTurn DEF NoWait, Wait, NextStage

\* The ways a stage of the tick ends: the turn is skipped, an exception is
\* thrown, a retirement is awaited, the pass is abandoned.
LEMMA SkipType ==
    ASSUME TickOK, Skip, todo' = todo
    PROVE  TickOK' /\ StageOK'
BY GenTurn, WaitType DEF TickOK, StageOK, TurnStages, AnswerStages, Skip, Idle, TickAt

LEMMA ThrowType ==
    ASSUME TickOK, MemoryOK, cur \in Turn, Throw, todo' = todo
    PROVE  TickOK' /\ StageOK'
BY ConstantsAssumption DEF TickOK, MemoryOK, StageOK, TurnStages, AnswerStages, Throw, TickAt

LEMMA AwaitRetireType ==
    ASSUME NEW g \in Gen, NEW auto \in BOOLEAN, NEW next \in NextStage,
           AwaitRetire(g, auto, next)
    PROVE  at' = "retire" /\ at' \in TickAt /\ wait' \in Wait /\ wait'.next = next
                /\ wait'.next # "none"
BY WaitType DEF AwaitRetire, NextStage, TickAt

LEMMA AbandonPassType ==
    ASSUME AbandonPass
    PROVE  TickOK' /\ StageOK'
BY GenTurn, WaitType DEF AbandonPass, TickOK, StageOK, TurnStages, AnswerStages, Idle, TickAt

\* The ways an awaited retirement ends.
LEMMA ContinueType ==
    ASSUME TickOK, StageOK, at \in {"retire", "await"}, Continue(wait.next), todo' = todo
    PROVE  TickOK' /\ StageOK'
<1>1. wait.next \in NextStage
  BY WaitType DEF StageOK, TickOK
<1>2. CASE wait.next = "dispatch"
  BY <1>2, SkipType DEF Continue
<1>3. CASE wait.next = "replace"
  BY <1>3, GenTurn, WaitType DEF Continue, TickOK, StageOK, TurnStages, AnswerStages, TickAt
<1>4. CASE wait.next \in {"halt", "control", "evict"}
  BY <1>4, WaitType DEF Continue, TickOK, StageOK, TurnStages, AnswerStages, TickAt, dispatch
<1> QED BY <1>1, <1>2, <1>3, <1>4 DEF NextStage

LEMMA NotRetiredType ==
    ASSUME TickOK, StageOK, at \in {"retire", "await"}, NotRetired, todo' = todo
    PROVE  TickOK' /\ StageOK'
BY SkipType, ContinueType DEF NotRetired

LEMMA AwaitRejectsType ==
    ASSUME TickOK, MemoryOK, StageOK, at \in {"retire", "await"}, AwaitRejects
    PROVE  TickOK' /\ StageOK'
<1>1. CASE wait.next = "replace"
  BY <1>1, ConstantsAssumption, WaitType
  DEF AwaitRejects, TickOK, MemoryOK, StageOK, TurnStages, AnswerStages, TickAt
<1>2. CASE wait.next # "replace"
  BY <1>2, AbandonPassType DEF AwaitRejects
<1> QED BY <1>1, <1>2

-----------------------------------------------------------------------------
(* TypeInv is preserved, one lemma for each group of actions of Next, one  *)
(* step for each action.                                                   *)

\* The API.
LEMMA ApiType == TypeInv /\ Api => TypeInv'
<1> SUFFICES ASSUME TypeInv, Api PROVE TypeInv'
    OBVIOUS
<1> USE ConstantsAssumption, GenTurn
    DEF TypeInv, TypeOK, DurableOK, MemoryOK, TickOK, OutsideOK, StageOK, TurnStages, AnswerStages,
        OpState, Unsettled, Settled, Active, MemberState, Classification, RtPhase, Outcome, TickAt,
        durable, rows, others, memory, tick, register, dispatch, outside, history, faults
<1>1. ASSUME NEW t \in Turn, Accept(t) PROVE TypeInv'
  BY <1>1 DEF Accept
<1>2. ASSUME NEW s \in Session, BackgroundStop(s) PROVE TypeInv'
  BY <1>2 DEF BackgroundStop
<1>3. ASSUME EmergencyStop PROVE TypeInv'
  BY <1>3 DEF EmergencyStop
<1> HIDE DEF TypeInv
<1> QED BY <1>1, <1>2, <1>3 DEF Api

\* The native runtimes.
LEMMA NativeType == TypeInv /\ Native => TypeInv'
<1> SUFFICES ASSUME TypeInv, Native PROVE TypeInv'
    OBVIOUS
<1> USE ConstantsAssumption, GenTurn
    DEF TypeInv, TypeOK, DurableOK, MemoryOK, TickOK, OutsideOK, StageOK, TurnStages, AnswerStages,
        OpState, Unsettled, Settled, Active, MemberState, Classification, RtPhase, Outcome, TickAt,
        durable, rows, others, memory, tick, register, dispatch, outside, history, faults
<1>1. ASSUME NEW g \in Turn, ProcessDies(g) PROVE TypeInv'
  BY <1>1 DEF ProcessDies
<1>2. ASSUME NEW g \in Turn, NEW status \in NativeStatus, NativeFinishes(g, status) PROVE TypeInv'
  BY <1>2 DEF NativeFinishes
<1> HIDE DEF TypeInv
<1> QED BY <1>1, <1>2 DEF Native

\* The mailbox handlers and the poison callback.
LEMMA MailboxType == TypeInv /\ Mailbox => TypeInv'
<1> SUFFICES ASSUME TypeInv, Mailbox PROVE TypeInv'
    OBVIOUS
<1> USE ConstantsAssumption, GenTurn
    DEF TypeInv, TypeOK, DurableOK, MemoryOK, TickOK, OutsideOK, StageOK, TurnStages, AnswerStages,
        OpState, Unsettled, Settled, Active, MemberState, Classification, RtPhase, Outcome, TickAt,
        durable, rows, others, memory, tick, register, dispatch, outside, history, faults
<1>1. ASSUME NEW g \in Turn, Poison(g) PROVE TypeInv'
  <2>1. PoisonEffect(g) /\ UNCHANGED <<durable, up, rt, rtOp, rtTurn, tick, proc, history, faults>>
    BY <1>1 DEF Poison
  <2> HIDE DEF MemoryOK, OutsideOK
  <2>2. MemoryOK' /\ OutsideOK'
    BY <2>1, PoisonEffectType DEF MemoryOK, OutsideOK
  <2> QED BY <2>1, <2>2
<1>2. ASSUME NEW g \in Turn, SettleUncertain(g) PROVE TypeInv'
  BY <1>2, UpdatedType, DerivedType DEF SettleUncertain
<1>3. ASSUME NEW g \in Turn, TurnCompleted(g) PROVE TypeInv'
  <2> DEFINE t == native[g]
  <2>1. t \in Turn /\ reported[t] \in {"completed", "failed", "interrupted"}
    BY <1>3 DEF TurnCompleted, Belongs
  <2>2. CASE op[t] \in Active /\ opGen[t] = g
    <3>1. op' \in [Turn -> OpState]
      <4>1. op' = [op EXCEPT ![t] = FinalState(reported[t])]
        BY <1>3, <2>2 DEF TurnCompleted
      <4>2. FinalState(reported[t]) \in OpState
        BY <2>1 DEF FinalState
      <4> HIDE DEF t
      <4> QED BY <4>1, <4>2
    <3>2. member' \in [Session -> Member]
      <4>1. member' = MemberAs(SessionOf[g], g, "idle")
        BY <1>3, <2>2 DEF TurnCompleted
      <4> QED BY <4>1, MemberAsType
    <3>3. sUncertain' \in [Session -> BOOLEAN]
      <4>1. sUncertain' = Derived(SessionOf[g], op')
        BY <1>3, <2>2 DEF TurnCompleted
      <4> QED BY <4>1, DerivedType
    <3>4. retained' \in [Session -> BOOLEAN] /\ stopRequested' \in [Session -> BOOLEAN]
      BY <1>3, <2>2 DEF TurnCompleted
    <3>5. hook' \in [Turn -> {"none", "completed", "ended", "classify"} \cup Classification]
      BY <1>3, <2>2 DEF TurnCompleted
    <3> QED BY <1>3, <3>1, <3>2, <3>3, <3>4, <3>5 DEF TurnCompleted
  <2>3. CASE ~(op[t] \in Active /\ opGen[t] = g)
    BY <1>3, <2>3 DEF TurnCompleted
  <2> QED BY <2>2, <2>3
<1>4. ASSUME NEW g \in Turn, TurnFinished(g) PROVE TypeInv'
  <2>1. asked' \in [Turn -> SUBSET Gen]
    <3>1. asked[g] \cup {rtTurn[g]} \in SUBSET Gen
      OBVIOUS
    <3> QED BY <1>4, <3>1 DEF TurnFinished
  <2>2. rtOp' \in [Turn -> Gen]
    <3>1. rtOp' \in {rtOp, [rtOp EXCEPT ![g] = 0]}
      BY <1>4 DEF TurnFinished
    <3> QED BY <3>1
  <2>3. hook' \in [Turn -> {"none", "completed", "ended", "classify"} \cup Classification]
    BY <1>4 DEF TurnFinished
  <2> QED BY <1>4, <2>1, <2>2, <2>3 DEF TurnFinished
<1>5. ASSUME NEW g \in Turn, NativeRequests(g) PROVE TypeInv'
  BY <1>5, MemberAsType DEF NativeRequests
<1>6. ASSUME NEW g \in Turn, Classify(g) PROVE TypeInv'
  <2>1. member' \in [Session -> Member]
    <3>1. hook[g] # "gone" => MemberAs(SessionOf[g], g, hook[g]) \in [Session -> Member]
      BY <1>6, MemberAsType DEF Classify
    <3> QED BY <1>6, <3>1 DEF Classify
  <2>2. asked' \in [Turn -> SUBSET Gen]
    BY <1>6 DEF Classify
  <2> QED BY <1>6, <2>1, <2>2 DEF Classify
<1>7. ASSUME NEW g \in Turn, NEW c \in Classification, Inspect(g, c) PROVE TypeInv'
  BY <1>7 DEF Inspect
<1> HIDE DEF TypeInv
<1> QED BY <1>1, <1>2, <1>3, <1>4, <1>5, <1>6, <1>7 DEF Mailbox

\* retireSessionRuntime.
LEMMA RetirementType == TypeInv /\ Retirement => TypeInv'
<1> SUFFICES ASSUME TypeInv, Retirement PROVE TypeInv'
    OBVIOUS
<1> USE ConstantsAssumption, GenTurn
    DEF TypeInv, TypeOK, DurableOK, MemoryOK, TickOK, OutsideOK, StageOK, TurnStages, AnswerStages,
        OpState, Unsettled, Settled, Active, MemberState, Classification, RtPhase, Outcome, TickAt,
        durable, rows, others, memory, tick, register, dispatch, outside, history, faults
<1>1. ASSUME NEW g \in Turn, NEW done \in Gen, Retire(g, done) PROVE TypeInv'
  <2>1. MemberAs(SessionOf[g], g, "retiring") \in [Session -> Member]
    BY MemberAsType
  <2>2. member' \in [Session -> Member]
    BY <1>1, <2>1 DEF Retire, BeginRetirement
  <2>3. asked' \in [Turn -> SUBSET Gen]
    <3>1. asked[g] \ {done} \in SUBSET Gen
      OBVIOUS
    <3> QED BY <1>1, <3>1 DEF Retire
  <2>4. rt' \in [Turn -> RtPhase]
    BY <1>1 DEF Retire, BeginRetirement
  <2>5. rtOp' \in [Turn -> Gen]
    <3>1. rtOp' \in {rtOp, [rtOp EXCEPT ![g] = 0]}
      BY <1>1 DEF Retire, BeginRetirement
    <3> QED BY <3>1
  <2> QED BY <1>1, <2>2, <2>3, <2>4, <2>5 DEF Retire
<1>2. ASSUME NEW g \in Turn, NEW done \in Gen, RetireLost(g, done) PROVE TypeInv'
  <2> QED BY <1>2 DEF RetireLost
<1>3. ASSUME NEW g \in Turn, RetirementConfirmed(g) PROVE TypeInv'
  BY <1>3 DEF RetirementConfirmed, Forget
<1>4. ASSUME NEW g \in Turn, RetirementUnconfirmed(g) PROVE TypeInv'
  BY <1>4 DEF RetirementUnconfirmed, Forget
<1>5. ASSUME NEW g \in Turn, Release(g) PROVE TypeInv'
  <2>1. rt' \in [Turn -> RtPhase]
    BY <1>5 DEF Release, Settle
  <2>2. /\ member' \in [Session -> Member] /\ retained' \in [Session -> BOOLEAN]
        /\ stopRequested' \in [Session -> BOOLEAN]
    BY <1>5, FreeMemberType DEF Release
  <2>3. sUncertain' \in [Session -> BOOLEAN]
    <3>1. Repaired(SessionOf[g], sUncertain) \in [Session -> BOOLEAN]
      BY RepairedType
    <3>2. sUncertain' \in {sUncertain, Repaired(SessionOf[g], sUncertain)}
      BY <1>5 DEF Release
    <3> QED BY <3>1, <3>2
  <2> QED BY <1>5, <2>1, <2>2, <2>3 DEF Release
<1>6. ASSUME NEW g \in Turn, RetirementUncertain(g) PROVE TypeInv'
  <2>1. rt' \in [Turn -> RtPhase]
    BY <1>6 DEF RetirementUncertain, Settle
  <2>2. member' \in [Session -> Member]
    <3>1. MemberAs(SessionOf[g], g, "unknown") \in [Session -> Member]
      BY MemberAsType
    <3> QED BY <1>6, <3>1 DEF RetirementUncertain
  <2>3. sUncertain' \in [Session -> BOOLEAN] /\ retained' \in [Session -> BOOLEAN]
            /\ stopRequested' \in [Session -> BOOLEAN]
    BY <1>6 DEF RetirementUncertain
  <2> QED BY <1>6, <2>1, <2>2, <2>3 DEF RetirementUncertain
<1>7. ASSUME NEW g \in Turn, SettlementLost(g) PROVE TypeInv'
  BY <1>7 DEF SettlementLost, Settle
<1> HIDE DEF TypeInv
<1> QED BY <1>1, <1>2, <1>3, <1>4, <1>5, <1>6, <1>7 DEF Retirement

\* The control part of the tick.
LEMMA ControlType == TypeInv /\ Control => TypeInv'
<1> SUFFICES ASSUME TypeInv, Control PROVE TypeInv'
    OBVIOUS
<1> USE ConstantsAssumption, GenTurn
    DEF TypeInv, TypeOK, DurableOK, MemoryOK, TickOK, OutsideOK, StageOK, TurnStages, AnswerStages,
        OpState, Unsettled, Settled, Active, MemberState, Classification, RtPhase, Outcome, TickAt,
        durable, rows, others, memory, tick, register, dispatch, outside, history, faults
<1>1. ASSUME BeginPass PROVE TypeInv'
  <2>1. todo' \subseteq Session
    BY <1>1 DEF BeginPass, Members
  <2> QED BY <1>1, <2>1 DEF BeginPass
<1>2. ASSUME NEW s \in Session, HaltRuntime(s) PROVE TypeInv'
  <2>1. DurableOK' /\ MemoryOK' /\ OutsideOK'
    BY <1>2 DEF HaltRuntime
  <2>2. CASE map[s] = 0
    BY <1>2, <2>1, <2>2 DEF HaltRuntime
  <2>3. CASE map[s] # 0 /\ rtOp[map[s]] # 0
    <3>1. wait' \in Wait
      BY <1>2, <2>3, WaitType DEF HaltRuntime
    <3>2. cur' \in Turn
      BY <1>2, <2>3 DEF HaltRuntime
    <3> QED BY <1>2, <2>1, <2>3, <3>1, <3>2 DEF HaltRuntime
  <2>4. CASE map[s] # 0 /\ rtOp[map[s]] = 0
    <3>1. AwaitRetire(map[s], FALSE, "halt")
      BY <1>2, <2>4 DEF HaltRuntime
    <3>2. at' = "retire" /\ wait' \in Wait /\ wait'.next = "halt"
      BY <3>1, AwaitRetireType DEF NextStage
    <3> QED BY <1>2, <2>1, <2>4, <3>2 DEF HaltRuntime
  <2> QED BY <2>2, <2>3, <2>4
<1>3. ASSUME InterruptOperation PROVE TypeInv'
  <2>1. DurableOK'
    BY <1>3, UpdatedType, DerivedType DEF InterruptOperation
  <2>2. AwaitRetire(wait.gen, FALSE, "halt") /\ wait.gen \in Gen
    BY <1>3, WaitType DEF InterruptOperation
  <2>3. at' = "retire" /\ wait' \in Wait /\ wait'.next = "halt"
    BY <2>2, AwaitRetireType DEF NextStage
  <2> QED BY <1>3, <2>1, <2>3 DEF InterruptOperation
<1>4. ASSUME HaltQueue PROVE TypeInv'
  BY <1>4 DEF HaltQueue
<1>5. ASSUME NEW s \in Session, ReconcileMember(s) PROVE TypeInv'
  <2>1. /\ member' \in [Session -> Member] /\ retained' \in [Session -> BOOLEAN]
        /\ stopRequested' \in [Session -> BOOLEAN]
    BY <1>5, FreeMemberType DEF ReconcileMember
  <2>2. sUncertain' \in [Session -> BOOLEAN]
    <3>1. Repaired(s, sUncertain) \in [Session -> BOOLEAN]
      BY RepairedType
    <3>2. sUncertain' \in {sUncertain, Repaired(s, sUncertain)}
      BY <1>5 DEF ReconcileMember
    <3> QED BY <3>1, <3>2
  <2> QED BY <1>5, <2>1, <2>2 DEF ReconcileMember
<1>6. ASSUME NEW s \in Session, NEW c \in Classification, NEW expired \in BOOLEAN, ReconcileRuntime(s, c, expired) PROVE TypeInv'
  <2> DEFINE g == map[s]
  <2>1. member' \in [Session -> Member]
    <3>1. member' \in {member, MemberAs(s, g, c)} /\ (c = "gone" => member' = member)
      BY <1>6 DEF ReconcileRuntime
    <3>2. c # "gone" => MemberAs(s, g, c) \in [Session -> Member]
      BY MemberAsType
    <3> QED BY <3>1, <3>2
  <2>2. at' \in TickAt /\ wait' \in Wait /\ StageOK'
    <3>1. \/ UNCHANGED <<at, wait>>
          \/ AwaitRetire(g, FALSE, "control") \/ AwaitRetire(g, expired, "control")
      BY <1>6 DEF ReconcileRuntime
    <3>2. at = "control" /\ cur' = cur
      BY <1>6 DEF ReconcileRuntime
    <3>3. CASE UNCHANGED <<at, wait>>
      BY <3>2, <3>3
    <3>4. CASE AwaitRetire(g, FALSE, "control") \/ AwaitRetire(g, expired, "control")
      <4>1. g \in Gen
        OBVIOUS
      <4>2. PICK auto \in BOOLEAN : AwaitRetire(g, auto, "control")
        BY <3>4
      <4> HIDE DEF g
      <4>3. at' = "retire" /\ wait' \in Wait /\ wait'.next = "control"
        BY <4>1, <4>2, AwaitRetireType DEF NextStage
      <4> QED BY <3>2, <4>3
    <3> QED BY <3>1, <3>3, <3>4
  <2>3. /\ UNCHANGED <<others, up, memory, dispatch, cands, outside, faults>>
        /\ todo' \subseteq todo
    BY <1>6 DEF ReconcileRuntime
  <2> HIDE DEF g
  <2> QED BY <2>1, <2>2, <2>3
<1>7. ASSUME NEW s \in Session, NEW delivered \in BOOLEAN, AnswerRequest(s, delivered) PROVE TypeInv'
  BY <1>7, WaitType DEF AnswerRequest
<1>8. ASSUME AnswerRecorded PROVE TypeInv'
  <2>1. member' \in [Session -> Member]
    <3>1. MemberAs(SessionOf[cur], wait.gen, "active") \in [Session -> Member]
      BY MemberAsType
    <3> QED BY <1>8, <3>1 DEF AnswerRecorded
  <2> QED BY <1>8, <2>1, WaitType DEF AnswerRecorded, Idle
<1>9. ASSUME AnswerLost PROVE TypeInv'
  BY <1>9, UpdatedType, DerivedType DEF AnswerLost
<1>10. ASSUME CloseAdapter PROVE TypeInv'
  <2>1. DurableOK' /\ TickOK' /\ StageOK'
    BY <1>10, WaitType DEF CloseAdapter, Idle
  <2>2. CASE poisoned[wait.gen]
    BY <1>10, <2>1, <2>2 DEF CloseAdapter, memory
  <2>3. CASE ~poisoned[wait.gen]
    <3>1. /\ PoisonEffect(wait.gen) /\ wait.gen \in Turn
          /\ UNCHANGED <<up, rt, rtOp, rtTurn, proc, history, faults>>
      BY <1>10, <2>3 DEF CloseAdapter
    <3> HIDE DEF MemoryOK, OutsideOK
    <3>2. MemoryOK' /\ OutsideOK'
      BY <3>1, PoisonEffectType DEF MemoryOK, OutsideOK
    <3> QED BY <2>1, <3>2
  <2> QED BY <2>2, <2>3
<1>11. ASSUME NEW t \in Turn, CancelQueued(t) PROVE TypeInv'
  BY <1>11, UpdatedType, DerivedType DEF CancelQueued
<1> HIDE DEF TypeInv
<1> QED BY <1>1, <1>2, <1>3, <1>4, <1>5, <1>6, <1>7, <1>8, <1>9, <1>10, <1>11
         DEF Control

\* The dispatch loop of the tick.
LEMMA DispatchType == TypeInv /\ Dispatch => TypeInv'
<1> SUFFICES ASSUME TypeInv, Dispatch PROVE TypeInv'
    OBVIOUS
<1> USE ConstantsAssumption, GenTurn
    DEF TypeInv, TypeOK, DurableOK, MemoryOK, TickOK, OutsideOK, StageOK, TurnStages, AnswerStages,
        OpState, Unsettled, Settled, Active, MemberState, Classification, RtPhase, Outcome, TickAt,
        durable, rows, others, memory, tick, register, dispatch, outside, history, faults
<1>1. ASSUME Snapshot PROVE TypeInv'
  BY <1>1 DEF Snapshot
<1>2. ASSUME EndPass PROVE TypeInv'
  BY <1>2 DEF EndPass
<1>3. ASSUME Consider PROVE TypeInv'
  BY <1>3 DEF Consider
<1>4. ASSUME ConsiderCapacity PROVE TypeInv'
  <2>1. TickOK' /\ StageOK'
    BY <1>4, SkipType DEF ConsiderCapacity
  <2> QED BY <1>4, <2>1 DEF ConsiderCapacity
<1>5. ASSUME Blocked PROVE TypeInv'
  <2>1. TickOK' /\ StageOK'
    BY <1>5, SkipType DEF Blocked
  <2> QED BY <1>5, <2>1 DEF Blocked
<1>6. ASSUME RefuseAuthority PROVE TypeInv'
  <2>1. TickOK' /\ StageOK'
    BY <1>6, SkipType DEF RefuseAuthority
  <2> QED BY <1>6, <2>1, UpdatedType, DerivedType DEF RefuseAuthority
<1>7. ASSUME Route PROVE TypeInv'
  <2>1. TickOK' /\ StageOK'
    BY <1>7, SkipType DEF Route
  <2> QED BY <1>7, <2>1 DEF Route
<1>8. ASSUME NEW v \in Session, Evict(v) PROVE TypeInv'
  <2>1. AwaitRetire(map[v], TRUE, "evict")
    BY <1>8 DEF Evict
  <2>2. at' = "retire" /\ wait' \in Wait /\ wait'.next = "evict"
    BY <2>1, AwaitRetireType DEF NextStage
  <2> QED BY <1>8, <2>2 DEF Evict
<1>9. ASSUME EvictionDone PROVE TypeInv'
  <2>1. TickOK' /\ StageOK'
    BY <1>9, SkipType DEF EvictionDone
  <2> QED BY <1>9, <2>1 DEF EvictionDone
<1>10. ASSUME NEW replace \in BOOLEAN, Capture(replace) PROVE TypeInv'
  <2> DEFINE g == map[SessionOf[cur]]
  <2>1. g \in Gen /\ cur \in Turn
    <3>1. cur \in Turn
      BY <1>10 DEF Capture
    <3> QED BY <3>1
  <2>2. CASE replace
    <3>1. AwaitRetire(g, FALSE, "replace")
      BY <1>10, <2>2 DEF Capture
    <3>2. at' = "retire" /\ wait' \in Wait /\ wait'.next = "replace"
      BY <3>1, <2>1, AwaitRetireType DEF NextStage
    <3> QED BY <1>10, <2>2, <3>2 DEF Capture
  <2>3. CASE ~replace
    BY <1>10, <2>1, <2>3 DEF Capture
  <2> QED BY <2>2, <2>3
<1>11. ASSUME NEW c \in Classification, RetireAwaited(c) PROVE TypeInv'
  <2> DEFINE g == wait.gen
             s == SessionOf[g]
  <2>1. member' \in [Session -> Member]
    <3>1. /\ MemberAs(s, g, "retiring") \in [Session -> Member]
          /\ MemberAs(s, g, "unknown") \in [Session -> Member]
          /\ c # "gone" => MemberAs(s, g, c) \in [Session -> Member]
      BY MemberAsType
    <3>2. \/ member' \in {member, MemberAs(s, g, "retiring"), MemberAs(s, g, "unknown")}
          \/ c # "gone" /\ member' = MemberAs(s, g, c)
      BY <1>11 DEF RetireAwaited, BeginRetirement
    <3> QED BY <3>1, <3>2
  <2>2. rt' \in [Turn -> RtPhase] /\ rtOp' \in [Turn -> Gen] /\ asked' \in [Turn -> SUBSET Gen]
    BY <1>11 DEF RetireAwaited, BeginRetirement
  <2>3. TickOK' /\ StageOK'
    BY <1>11, NotRetiredType DEF RetireAwaited
  <2> HIDE DEF g, s
  <2> QED BY <1>11, <2>1, <2>2, <2>3 DEF RetireAwaited
<1>12. ASSUME Retired PROVE TypeInv'
  <2>1. TickOK' /\ StageOK'
    BY <1>12, ContinueType, NotRetiredType DEF Retired
  <2> QED BY <1>12, <2>1 DEF Retired
<1>13. ASSUME DispatchThrows PROVE TypeInv'
  <2>1. TickOK' /\ StageOK'
    BY <1>13, ThrowType DEF DispatchThrows
  <2> QED BY <1>13, <2>1 DEF DispatchThrows
<1>14. ASSUME AdmitReuse PROVE TypeInv'
  <2> DEFINE s == SessionOf[cur]
  <2>1. member' \in [Session -> Member]
    <3>1. MemberAs(s, tgen, "active") \in [Session -> Member]
      BY MemberAsType
    <3>2. member' \in {member, MemberAs(s, tgen, "active")}
      BY <1>14 DEF AdmitReuse
    <3> QED BY <3>1, <3>2
  <2>2. op' \in [Turn -> OpState]
    <3>1. Dispatching \in [Turn -> OpState]
      BY DEF Dispatching
    <3>2. op' \in {op, Dispatching}
      BY <1>14 DEF AdmitReuse
    <3> QED BY <3>1, <3>2
  <2>4. opGen' \in [Turn -> Gen] /\ rtOp' \in [Turn -> Gen]
    BY <1>14 DEF AdmitReuse
  <2>3. TickOK' /\ StageOK'
    BY <1>14, SkipType DEF AdmitReuse
  <2> HIDE DEF s
  <2> QED BY <1>14, <2>1, <2>2, <2>3, <2>4 DEF AdmitReuse
<1>15. ASSUME AdmitNew PROVE TypeInv'
  <2> DEFINE s == SessionOf[cur]
             row == [state |-> "starting", gen |-> cur, ident |-> FALSE]
  <2>1. member' \in [Session -> Member]
    <3>1. row \in Member
      BY <1>15, RowTypes
    <3>2. member' \in {member, [member EXCEPT ![s] = row]}
      BY <1>15 DEF AdmitNew
    <3> QED BY <3>1, <3>2
  <2>2. op' \in [Turn -> OpState]
    <3>1. Dispatching \in [Turn -> OpState]
      BY DEF Dispatching
    <3>2. op' \in {op, Dispatching}
      BY <1>15 DEF AdmitNew
    <3> QED BY <3>1, <3>2
  <2>4. opGen' \in [Turn -> Gen] /\ sgen' \in [Session -> Gen]
    <3>1. opGen' \in {opGen, [opGen EXCEPT ![cur] = cur]}
      BY <1>15 DEF AdmitNew
    <3>2. sgen' \in {sgen, [sgen EXCEPT ![s] = cur]}
      BY <1>15 DEF AdmitNew
    <3>3. cur \in Turn
      BY <1>15 DEF AdmitNew
    <3> HIDE DEF s
    <3> QED BY <3>1, <3>2, <3>3
  <2>3. TickOK' /\ StageOK'
    BY <1>15, ThrowType DEF AdmitNew
  <2> HIDE DEF s, row
  <2> QED BY <1>15, <2>1, <2>2, <2>3, <2>4 DEF AdmitNew
<1>16. ASSUME Launch PROVE TypeInv'
  BY <1>16 DEF Launch
<1>17. ASSUME SaveIdentity PROVE TypeInv'
  <2> DEFINE s == SessionOf[cur]
  <2>1. member' \in [Session -> Member]
    <3>1. s \in Session => [member[s] EXCEPT !.ident = TRUE] \in Member
      BY RowTypes
    <3>2. member' \in {member, [member EXCEPT ![s] = [member[s] EXCEPT !.ident = TRUE]]}
      BY <1>17 DEF SaveIdentity
    <3> QED BY <3>1, <3>2
  <2>2. TickOK' /\ StageOK'
    BY <1>17, ThrowType DEF SaveIdentity
  <2> HIDE DEF s
  <2> QED BY <1>17, <2>1, <2>2 DEF SaveIdentity
<1>18. ASSUME Transport PROVE TypeInv'
  BY <1>18 DEF Transport
<1>19. ASSUME Claim PROVE TypeInv'
  <2>1. member' \in [Session -> Member]
    <3>1. MemberAs(SessionOf[cur], tgen, "active") \in [Session -> Member]
      BY MemberAsType
    <3> QED BY <1>19, <3>1 DEF Claim
  <2> QED BY <1>19, <2>1 DEF Claim
<1>20. ASSUME Send PROVE TypeInv'
  <2>1. TickOK' /\ StageOK'
    BY <1>20, ThrowType DEF Send
  <2>2. cur \in Turn /\ sent' \in {sent, [sent EXCEPT ![cur] = @ + 1]}
    BY <1>20 DEF Send
  <2>3. native' \in {native, [native EXCEPT ![tgen] = cur]}
    BY <1>20 DEF Send
  <2>4. sent' \in [Turn -> Nat] /\ native' \in [Turn -> Gen]
    BY <2>2, <2>3
  <2> QED BY <1>20, <2>1, <2>4 DEF Send
<1>21. ASSUME NEW answered \in BOOLEAN, Acknowledge(answered) PROVE TypeInv'
  <2>1. TickOK' /\ StageOK'
    BY <1>21, ThrowType DEF Acknowledge
  <2> QED BY <1>21, <2>1 DEF Acknowledge
<1>22. ASSUME MarkRunning PROVE TypeInv'
  <2>1. op' \in [Turn -> OpState]
    BY <1>22 DEF MarkRunning
  <2>2. sUncertain' \in [Session -> BOOLEAN]
    BY <1>22 DEF MarkRunning
  <2>3. TickOK' /\ StageOK'
    BY <1>22, SkipType DEF MarkRunning
  <2> QED BY <1>22, <2>1, <2>2, <2>3 DEF MarkRunning
<1>23. ASSUME MarkLost PROVE TypeInv'
  <2>1. TickOK' /\ StageOK'
    BY <1>23, ThrowType DEF MarkLost
  <2> QED BY <1>23, <2>1 DEF MarkLost
<1>24. ASSUME FailOperation PROVE TypeInv'
  BY <1>24, UpdatedType, DerivedType DEF FailOperation, FailedState
<1>25. ASSUME Cleanup PROVE TypeInv'
  <2> DEFINE s == SessionOf[cur]
  <2>1. member' \in [Session -> Member]
    <3>1. MemberAs(s, tgen, "unknown") \in [Session -> Member]
      BY MemberAsType
    <3>2. [member EXCEPT ![s] = NoMember] \in [Session -> Member]
      BY RowTypes
    <3>3. member' \in {member, MemberAs(s, tgen, "unknown"), [member EXCEPT ![s] = NoMember]}
      BY <1>25 DEF Cleanup
    <3> QED BY <3>1, <3>2, <3>3
  <2>2. TickOK' /\ StageOK'
    <3>1. CASE failed # 0
      <4>1. AwaitRetire(failed, FALSE, "dispatch") /\ UNCHANGED <<cands, dispatch, todo>>
        BY <1>25, <3>1 DEF Cleanup
      <4>2. at' = "retire" /\ wait' \in Wait /\ wait'.next = "dispatch"
        BY <4>1, AwaitRetireType DEF NextStage
      <4> QED BY <4>1, <4>2
    <3>2. CASE failed = 0
      BY <1>25, <3>2, SkipType DEF Cleanup
    <3> QED BY <3>1, <3>2
  <2> HIDE DEF s
  <2> QED BY <1>25, <2>1, <2>2 DEF Cleanup
<1> HIDE DEF TypeInv
<1> QED BY <1>1, <1>2, <1>3, <1>4, <1>5, <1>6, <1>7, <1>8, <1>9, <1>10, <1>11,
         <1>12, <1>13, <1>14, <1>15, <1>16, <1>17, <1>18, <1>19, <1>20, <1>21,
         <1>22, <1>23, <1>24, <1>25 DEF Dispatch

\* Failed transactions, crash and startup.
LEMMA FailureType == TypeInv /\ Failure => TypeInv'
<1> SUFFICES ASSUME TypeInv, Failure PROVE TypeInv'
    OBVIOUS
<1> USE ConstantsAssumption, GenTurn
    DEF TypeInv, TypeOK, DurableOK, MemoryOK, TickOK, OutsideOK, StageOK, TurnStages, AnswerStages,
        OpState, Unsettled, Settled, Active, MemberState, Classification, RtPhase, Outcome, TickAt,
        durable, rows, others, memory, tick, register, dispatch, outside, history, faults
<1>1. ASSUME PassLost PROVE TypeInv'
  <2>1. TickOK' /\ StageOK'
    BY <1>1, AbandonPassType DEF PassLost
  <2> QED BY <1>1, <2>1 DEF PassLost
<1>2. ASSUME AwaitLost PROVE TypeInv'
  <2>1. TickOK' /\ StageOK'
    BY <1>2, AwaitRejectsType DEF AwaitLost
  <2> QED BY <1>2, <2>1 DEF AwaitLost
<1>3. ASSUME AdmissionLost PROVE TypeInv'
  <2>1. TickOK' /\ StageOK'
    BY <1>3, AwaitRejectsType DEF AdmissionLost
  <2>2. MemoryOK'
    BY <1>3 DEF AdmissionLost
  <2>3. DurableOK' /\ OutsideOK'
    BY <1>3 DEF AdmissionLost
  <2> QED BY <2>1, <2>2, <2>3
<1>4. ASSUME Crash PROVE TypeInv'
  <2>1. TickOK' /\ StageOK'
    BY <1>4, AbandonPassType DEF Crash
  <2>2. MemoryOK'
    BY <1>4 DEF Crash
  <2>3. DurableOK' /\ OutsideOK'
    BY <1>4 DEF Crash
  <2> QED BY <2>1, <2>2, <2>3
<1>5. ASSUME NEW absent \in SUBSET Session, Startup(absent) PROVE TypeInv'
  <2>1. op' \in [Turn -> OpState]
    <3>1. \A t \in Turn : Recovered(t) \in OpState
      BY DEF Recovered
    <3>2. op' = [t \in Turn |-> Recovered(t)]
      BY <1>5 DEF Startup
    <3> QED BY <3>1, <3>2
  <2>2. member' \in [Session -> Member]
    <3>1. \A s \in Session : [member[s] EXCEPT !.state = "unknown"] \in Member
      BY RowTypes
    <3> QED BY <1>5, <3>1, RowTypes DEF Startup
  <2>3. retained' \in [Session -> BOOLEAN] /\ stopRequested' \in [Session -> BOOLEAN]
    BY <1>5 DEF Startup
  <2>4. sUncertain' \in [Session -> BOOLEAN]
    BY <1>5 DEF Startup
  <2>5. up' = TRUE /\ UNCHANGED <<opGen, sgen, emergency, memory, tick, outside, faults>>
    BY <1>5 DEF Startup
  <2> QED BY <2>1, <2>2, <2>3, <2>4, <2>5
<1>6. ASSUME ReuseLost PROVE TypeInv'
  <2>1. TickOK' /\ StageOK'
    BY <1>6, ThrowType DEF ReuseLost
  <2>2. MemoryOK'
    BY <1>6 DEF ReuseLost
  <2>3. DurableOK' /\ OutsideOK'
    BY <1>6 DEF ReuseLost
  <2> QED BY <2>1, <2>2, <2>3
<1> HIDE DEF TypeInv
<1> QED BY <1>1, <1>2, <1>3, <1>4, <1>5, <1>6 DEF Failure

-----------------------------------------------------------------------------
\* The program starts in it ...
LEMMA TypeInit == Init => TypeInv
<1> SUFFICES ASSUME Init PROVE TypeInv
    OBVIOUS
<1>1. DurableOK
  BY GenTurn, RowTypes DEF Init, DurableOK, OpState
<1>2. MemoryOK
  BY GenTurn DEF Init, MemoryOK, RtPhase
<1>3. TickOK /\ StageOK
  BY GenTurn, WaitType DEF Init, TickOK, StageOK, TurnStages, AnswerStages, TickAt
<1>4. OutsideOK
  BY ConstantsAssumption, GenTurn DEF Init, OutsideOK
<1> QED BY <1>1, <1>2, <1>3, <1>4 DEF TypeInv, TypeOK

\* ... and every step keeps it.
LEMMA TypeNext == TypeInv /\ [Next]_vars => TypeInv'
<1> SUFFICES ASSUME TypeInv, [Next]_vars PROVE TypeInv'
    OBVIOUS
<1>1. CASE UNCHANGED vars
  BY <1>1 DEF vars, durable, memory, tick, register, dispatch, outside, history, faults,
              TypeInv, TypeOK, DurableOK, MemoryOK, TickOK, OutsideOK, StageOK
<1>2. CASE Next
  BY <1>2, ApiType, NativeType, MailboxType, RetirementType, ControlType, DispatchType,
     FailureType DEF Next
<1> QED BY <1>1, <1>2

(***************************************************************************)
(* Every variable of the dispatcher keeps its type, for every number of    *)
(* conversations, turns, crashes and failed transactions: no stage of the  *)
(* tick reads a register it does not hold.                                 *)
(***************************************************************************)
THEOREM TypeCorrect == Spec => []TypeOK
<1>1. TypeInv => TypeOK
  BY DEF TypeInv
<1> QED BY TypeInit, TypeNext, <1>1, PTL DEF Spec

=============================================================================
