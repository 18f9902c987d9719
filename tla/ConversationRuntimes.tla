------------------------ MODULE ConversationRuntimes ------------------------
(***************************************************************************)
(* The personal-profile conversation dispatcher of the supervisor          *)
(* (apps/supervisor/src/main.ts): queued turns are admitted onto native    *)
(* Codex runtimes, at most one runtime per conversation, under two durable *)
(* ceilings.  PostgreSQL rows are the durable variables; the runtimes map, *)
(* the RuntimeState objects and the registers of the running tick are lost *)
(* by a crash; the runtimes themselves (cgroups of processes) are not.     *)
(*                                                                         *)
(* Every transaction that takes the session lock is one step.  Everything  *)
(* the code does between two awaits is one step.  The tick, the mailbox    *)
(* handler of each runtime, each call of retireSessionRuntime and the API  *)
(* interleave.                                                             *)
(*                                                                         *)
(* A runtime generation is minted by nextval for one dispatch and a turn   *)
(* is dispatched at most once, so a generation is named by the turn whose  *)
(* dispatch minted it; 0 is "no generation" and "no turn".                 *)
(***************************************************************************)
EXTENDS Naturals, FiniteSets

CONSTANTS
    Session,      \* conversations
    MaxTurns,     \* turns that will ever be submitted (a bound of the model)
    SessionOf,    \* operations.session_id of each turn
    MaxActive,    \* HARBOR_MAX_ACTIVE_TURNS
    MaxRuntimes,  \* HARBOR_MAX_CONVERSATION_RUNTIMES
    NativeStatus, \* the terminal statuses a runtime may report for a turn
    Emergencies,  \* whether the owner may press emergency stop
    MaxCrashes,   \* crashes of the supervisor (a bound of the model)
    MaxLost,      \* transactions that fail (a bound of the model)
    ReuseAborts   \* whether the COMMIT of an admission that reuses may fail

Turn == 1..MaxTurns
Gen  == 0..MaxTurns

ASSUME ConstantsAssumption ==
    /\ MaxTurns \in Nat
    /\ SessionOf \in [Turn -> Session]
    /\ IsFiniteSet(Session)
    /\ MaxActive \in Nat \ {0}
    /\ MaxRuntimes \in Nat /\ MaxActive <= MaxRuntimes
    /\ NativeStatus \subseteq {"completed", "failed", "interrupted"}
    /\ Emergencies \in BOOLEAN
    /\ MaxCrashes \in Nat /\ MaxLost \in Nat

ASSUME ReuseAssumption == ReuseAborts \in BOOLEAN

VARIABLES
    \* durable: PostgreSQL
    op,             \* operations.state of each turn
    opGen,          \* operations.generation
    sgen,           \* sessions.generation
    sUncertain,     \* sessions.state = 'uncertain', the only value control reads
    retained,       \* sessions.background_until IS NOT NULL
    stopRequested,  \* sessions.background_stop_requested
    member,         \* the conversation_runtimes row of each session
    emergency,      \* harbor_meta.emergency
    \* in the memory of the supervisor
    up,             \* the supervisor runs (startup has committed)
    map,            \* runtimes: session -> generation, 0 when it has no entry
    rt,             \* phase of each RuntimeState and of its retirement
    rtOp,           \* RuntimeState.operation
    rtTurn,         \* RuntimeState.turn, named by the turn it answers
    poisoned,       \* RuntimeMailbox.poisoned
    hook,           \* what the mailbox handler still has to do for its event
    asked,          \* pending calls of retireSessionRuntime (not the tick's)
    pending,        \* update(operation, "uncertain") calls and terminalRepairs
    \* the tick
    at, cur, tgen, launched, failed, wait, cands, todo,
    \* outside the supervisor
    proc,           \* the processes of each generation
    native,         \* the turn whose events the open transport of g carries
    \* history
    sent,           \* turn/start requests written for each turn
    reported,       \* the terminal status the runtime announced for each turn
    crashes, lost

durable  == <<op, opGen, sgen, sUncertain, retained, stopRequested, member, emergency>>
rows     == <<opGen, sgen, retained, stopRequested, member, emergency>>
others   == <<op, opGen, sgen, sUncertain, retained, stopRequested, emergency>>
memory   == <<map, rt, rtOp, rtTurn, poisoned, hook, asked, pending>>
dispatch == <<cur, tgen, launched, failed>>
register == <<dispatch, wait>>
tick     == <<at, register, cands, todo>>
history  == <<sent, reported>>
outside  == <<proc, native, history>>
faults   == <<crashes, lost>>
vars     == <<durable, up, memory, tick, outside, faults>>

-----------------------------------------------------------------------------
Active    == {"dispatching", "running", "waiting"}
Unsettled == Active \cup {"queued"}
Settled   == {"succeeded", "failed", "interrupted"}
OpState   == Unsettled \cup Settled \cup {"absent", "uncertain"}

MemberState == {"starting", "active", "waiting", "idle", "protected",
                "retiring", "unknown"}
Member   == [state : MemberState \cup {"none"}, gen : Gen, ident : BOOLEAN]
NoMember == [state |-> "none", gen |-> 0, ident |-> FALSE]

Classification == {"idle", "protected", "unknown", "gone"}

\* "stuck" is a retirement whose admission set runtime.retiring and failed to
\* commit; the three outcomes are those of settleBackgroundRetirement.
Outcome    == {"released", "doubtful", "aborted"}
RtPhase    == {"absent", "present", "killing", "confirmed", "unconfirmed",
               "stuck", "gone"}
                \cup Outcome

TickAt == {"rest", "halt", "interrupt", "control", "answered",
           "unanswered", "close", "dispatch", "busy", "route", "evict", "capture", "admit", "prepare", "spawned", "saved", "claim",
           "send", "ack", "mark", "fail", "cleanup", "retire", "await"}

Wait   == [gen : Gen, auto : BOOLEAN,
           next : {"none", "halt", "control", "evict", "replace", "dispatch"}]
NoWait == [gen |-> 0, auto |-> FALSE, next |-> "none"]

TurnsOf(s)   == {t \in Turn : SessionOf[t] = s}
ActiveTurns  == {t \in Turn : op[t] \in Active}
Members      == {s \in Session : member[s] # NoMember}
HasUncertain(s, ops) == \E t \in TurnsOf(s) : ops[t] = "uncertain"
Retiring(g)  == rt[g] \notin {"absent", "present"}

\* runtimeState(): the row of exactly this session and generation.
MemberAs(s, g, state) ==
    IF member[s].gen = g /\ member[s] # NoMember
    THEN [member EXCEPT ![s].state = state] ELSE member

\* (seeded fault) the latest turn alone decides.
DerivedFromLatest(s, ops) == [sUncertain EXCEPT ![s] =
    \E t \in TurnsOf(s) : /\ ops[t] = "uncertain"
                          /\ \A u \in TurnsOf(s) : u > t => ops[u] = "absent"]

\* deriveSessionState(), projected on 'uncertain'.
Derived(s, ops) == [sUncertain EXCEPT ![s] = HasUncertain(s, ops)]

\* (seeded fault) one of the two conditions of the UPDATE is missing.
UpdatedOverUncertain(t, state) ==
    IF state = "uncertain" /\ op[t] \notin Unsettled
    THEN op ELSE [op EXCEPT ![t] = state]
UpdatedOverOutcome(t, state) ==
    IF op[t] = "uncertain" THEN op ELSE [op EXCEPT ![t] = state]

\* update(): an uncertain turn keeps its state; only an unsettled one becomes
\* uncertain.
Updated(t, state) ==
    IF \/ op[t] = "uncertain"
       \/ state = "uncertain" /\ op[t] \notin Unsettled
    THEN op ELSE [op EXCEPT ![t] = state]

\* repairReleasedPersonalSession() after the row and both flags were cleared.
Repaired(s, uncertain) ==
    [uncertain EXCEPT ![s] =
        @ /\ \E t \in TurnsOf(s) : op[t] \in Unsettled \cup {"uncertain"}]

Init ==
    /\ op = [t \in Turn |-> "absent"] /\ opGen = [t \in Turn |-> 0]
    /\ sgen = [s \in Session |-> 0]
    /\ sUncertain = [s \in Session |-> FALSE]
    /\ retained = [s \in Session |-> FALSE]
    /\ stopRequested = [s \in Session |-> FALSE]
    /\ member = [s \in Session |-> NoMember]
    /\ emergency = FALSE
    /\ up = TRUE
    /\ map = [s \in Session |-> 0]
    /\ rt = [g \in Turn |-> "absent"]
    /\ rtOp = [g \in Turn |-> 0] /\ rtTurn = [g \in Turn |-> 0]
    /\ poisoned = [g \in Turn |-> FALSE]
    /\ hook = [g \in Turn |-> "none"]
    /\ asked = [g \in Turn |-> {}]
    /\ pending = {}
    /\ at = "rest" /\ cur = 0 /\ tgen = 0 /\ launched = FALSE /\ failed = 0
    /\ wait = NoWait /\ cands = {} /\ todo = {}
    /\ proc = [g \in Turn |-> "none"] /\ native = [g \in Turn |-> 0]
    /\ sent = [t \in Turn |-> 0]
    /\ reported = [t \in Turn |-> "none"]
    /\ crashes = 0 /\ lost = 0

-----------------------------------------------------------------------------
(* The API, in transactions of its own.                                    *)

\* acceptConversationTurn: the turns are numbered in creation order.
Accept(t) ==
    LET s == SessionOf[t] IN
    /\ op[t] = "absent"
    /\ \A u \in Turn : u < t => op[u] # "absent"
    /\ ~stopRequested[s] /\ ~HasUncertain(s, op) /\ ~emergency
    /\ op' = [op EXCEPT ![t] = "queued"]
    /\ sUncertain' = [sUncertain EXCEPT ![s] = FALSE]
    /\ UNCHANGED <<rows, up, memory, tick, outside, faults>>

\* POST /sessions/:id/background-stop
Stoppable(s) ==
    /\ \A t \in TurnsOf(s) : op[t] \notin Unsettled
    /\ member[s] # NoMember /\ member[s].gen = sgen[s]

BackgroundStop(s) ==
    /\ Stoppable(s)
    /\ ~stopRequested[s]
    /\ stopRequested' = [stopRequested EXCEPT ![s] = TRUE]
    /\ UNCHANGED <<op, opGen, sgen, sUncertain, retained, member, emergency,
                   up, memory, tick, outside, faults>>

\* POST /security/emergency-stop
EmergencyStop ==
    /\ Emergencies /\ ~emergency
    /\ emergency' = TRUE
    /\ UNCHANGED <<op, opGen, sgen, sUncertain, retained, stopRequested,
                   member, up, memory, tick, outside, faults>>

-----------------------------------------------------------------------------
(* The native runtimes.                                                    *)

\* cgroup.events reports populated=0 from here on.
ProcessDies(g) ==
    /\ proc[g] \in {"paused", "live"}
    /\ proc' = [proc EXCEPT ![g] = "dead"]
    /\ UNCHANGED <<durable, up, memory, tick, native, history, faults>>

\* The runtime announces the end of its turn; turn/completed is in flight.
NativeFinishes(g, status) ==
    /\ proc[g] = "live" /\ native[g] # 0 /\ reported[native[g]] = "none"
    /\ reported' = [reported EXCEPT ![native[g]] = status]
    /\ UNCHANGED <<durable, up, memory, tick, proc, native, sent, faults>>

\* (seeded fault) a failed inspection is taken for absence.
InspectionFailsGone(g) ==
    IF proc[g] = "dead" THEN {"gone"} ELSE {"idle", "protected", "gone"}

\* inspectProcesses() and classifyIdle(): a failed inspection is unknown.
Inspection(g) ==
    IF proc[g] = "dead" THEN {"gone", "unknown"}
    ELSE {"idle", "protected", "unknown"}

-----------------------------------------------------------------------------
(* RuntimeMailbox.poison: a disconnect, a full backlog, a handler that      *)
(* failed or an interruption that was not confirmed.  The callback forgets  *)
(* the runtime and starts two independent calls; what its handler still had *)
(* to do finds the mailbox poisoned and is dropped.                         *)
\* (seeded fault) the operation is read after the entry was deleted.
OperationAfterDelete(g) == {}

\* The operation the callback settles.
OperationLost(g) == IF map[SessionOf[g]] = g /\ rtOp[g] # 0 THEN {rtOp[g]} ELSE {}

PoisonEffect(g) ==
    /\ poisoned' = [poisoned EXCEPT ![g] = TRUE]
    /\ map' = IF map[SessionOf[g]] = g THEN [map EXCEPT ![SessionOf[g]] = 0] ELSE map
    /\ asked' = IF rt[g] = "present" THEN [asked EXCEPT ![g] = @ \cup {0}] ELSE asked
    /\ native' = [native EXCEPT ![g] = 0]
    /\ hook' = [hook EXCEPT ![g] = "none"]
    /\ pending' = pending \cup OperationLost(g)

Poison(g) ==
    /\ up /\ rt[g] # "absent" /\ ~poisoned[g]
    /\ PoisonEffect(g)
    /\ UNCHANGED <<durable, up, rt, rtOp, rtTurn, tick, proc, history, faults>>

\* update(operation, "uncertain"), from the callback or from terminalRepairs.
SettleUncertain(t) ==
    /\ up /\ t \in pending
    /\ op' = Updated(t, "uncertain")
    /\ sUncertain' = Derived(SessionOf[t], op')
    /\ pending' = pending \ {t}
    /\ UNCHANGED <<rows, up, map, rt, rtOp, rtTurn, poisoned, hook, asked,
                   tick, outside, faults>>

-----------------------------------------------------------------------------
(* retireSessionRuntime.  Its admission is one transaction, then the        *)
(* process is killed, and settleBackgroundRetirement runs one of two        *)
(* settlements.  `done' is completedOperation, 0 when it is undefined.      *)
Admissible(g, done) ==
    /\ rt[g] = "present" /\ sgen[SessionOf[g]] = g
    /\ done # 0 => rtOp[g] = done

BeginRetirement(g, done) ==
    /\ rt' = [rt EXCEPT ![g] = "killing"]
    /\ rtOp' = IF done = 0 THEN rtOp ELSE [rtOp EXCEPT ![g] = 0]
    /\ member' = MemberAs(SessionOf[g], g, "retiring")

\* A call nobody awaits: the poison callback's or the mailbox handler's.
Retire(g, done) ==
    /\ up /\ done \in asked[g]
    /\ IF Admissible(g, done)
       THEN BeginRetirement(g, done) /\ asked' = [asked EXCEPT ![g] = {}]
       ELSE /\ asked' = [asked EXCEPT ![g] = @ \ {done}]
            /\ UNCHANGED <<rt, rtOp, member>>
    /\ UNCHANGED <<others, up, map, rtTurn, poisoned, hook, pending, tick,
                   outside, faults>>

\* The admission sets runtime.retiring and then fails to commit.
RetireLost(g, done) ==
    /\ up /\ lost < MaxLost /\ done \in asked[g] /\ Admissible(g, done)
    /\ asked' = [asked EXCEPT ![g] = {}]
    /\ rt' = [rt EXCEPT ![g] = "stuck"]
    /\ rtOp' = IF done = 0 THEN rtOp ELSE [rtOp EXCEPT ![g] = 0]
    /\ lost' = lost + 1
    /\ UNCHANGED <<durable, up, map, rtTurn, poisoned, hook, pending, tick,
                   outside, crashes>>

\* Nothing reads the operation and the turn of a disconnected, retiring runtime.
Forget(g) == /\ rtOp' = [rtOp EXCEPT ![g] = 0]
             /\ rtTurn' = [rtTurn EXCEPT ![g] = 0]

\* closeAndWait() disconnects the adapter, so the mailbox is poisoned, before
\* the cgroup is killed and seen empty.
RetirementConfirmed(g) ==
    /\ up /\ rt[g] = "killing" /\ poisoned[g] /\ proc[g] = "dead"
    /\ rt' = [rt EXCEPT ![g] = "confirmed"]
    /\ Forget(g)
    /\ UNCHANGED <<durable, up, map, poisoned, hook, asked, pending, tick,
                   outside, faults>>

\* Neither the kill nor the inspection established absence in time.
RetirementUnconfirmed(g) ==
    /\ up /\ rt[g] = "killing" /\ poisoned[g]
    /\ rt' = [rt EXCEPT ![g] = "unconfirmed"]
    /\ Forget(g)
    /\ UNCHANGED <<durable, up, map, poisoned, hook, asked, pending, tick,
                   outside, faults>>

\* The call returns: its outcome matters to the tick alone, if it awaits it.
Settle(g, outcome) ==
    rt' = [rt EXCEPT ![g] = IF at = "await" /\ wait.gen = g THEN outcome ELSE "gone"]

\* (seeded fault) background_until is not cleared.
FreedButRetained(s) ==
    /\ member' = [member EXCEPT ![s] = NoMember]
    /\ stopRequested' = [stopRequested EXCEPT ![s] = FALSE]
    /\ UNCHANGED retained

\* The row is deleted and both background columns are cleared.
FreeMember(s) ==
    /\ member' = [member EXCEPT ![s] = NoMember]
    /\ retained' = [retained EXCEPT ![s] = FALSE]
    /\ stopRequested' = [stopRequested EXCEPT ![s] = FALSE]

\* release(): only the exact generation, with no successor's row.
Release(g) ==
    LET s == SessionOf[g] IN
    /\ up /\ rt[g] = "confirmed"
    /\ Settle(g, "released")
    /\ IF sgen[s] = g /\ member[s].gen \in {0, g}
       THEN /\ FreeMember(s)
            /\ sUncertain' = IF map[s] = 0 THEN Repaired(s, sUncertain)
                                           ELSE sUncertain
       ELSE UNCHANGED <<member, retained, stopRequested, sUncertain>>
    /\ UNCHANGED <<op, opGen, sgen, emergency, up, map, rtOp, rtTurn, poisoned,
                   hook, asked, pending, tick, outside, faults>>

\* uncertain(): the session is reserved until absence is confirmed.
RetirementUncertain(g) ==
    LET s == SessionOf[g] IN
    /\ up /\ rt[g] = "unconfirmed"
    /\ Settle(g, "doubtful")
    /\ member' = MemberAs(s, g, "unknown")
    /\ IF sgen[s] = g
       THEN /\ sUncertain' = [sUncertain EXCEPT ![s] = TRUE]
            /\ retained' = [retained EXCEPT ![s] = FALSE]
            /\ stopRequested' = [stopRequested EXCEPT ![s] = TRUE]
       ELSE UNCHANGED <<sUncertain, retained, stopRequested>>
    /\ UNCHANGED <<op, opGen, sgen, emergency, up, map, rtOp, rtTurn, poisoned,
                   hook, asked, pending, tick, outside, faults>>

\* The settlement's own transaction fails; the call rejects.
SettlementLost(g) ==
    /\ up /\ lost < MaxLost /\ rt[g] \in {"confirmed", "unconfirmed"}
    /\ Settle(g, "aborted")
    /\ lost' = lost + 1
    /\ UNCHANGED <<durable, up, map, rtOp, rtTurn, poisoned, hook, asked,
                   pending, tick, outside, crashes>>

-----------------------------------------------------------------------------
(* The mailbox handler: onEvent, onRequest and classifyRuntime.             *)
Current(g) == ~poisoned[g] /\ map[SessionOf[g]] = g

\* belongsToTurn(), and the operation captured when the event was enqueued.
Belongs(g, t) == t # 0 /\ native[g] = t /\ rtTurn[g] = t /\ rtOp[g] = t

\* (seeded fault) the native wording is stored as it is, or an interruption
\* counts as success.
NativeWording(status) == status
SucceededUnlessFailed(status) == IF status = "failed" THEN "failed" ELSE "succeeded"

\* The transaction of onEvent for turn/completed.
FinalState(status) == IF status = "completed" THEN "succeeded" ELSE status

TurnCompleted(g) ==
    LET t == native[g]
        s == SessionOf[g]
        completed == reported[t] = "completed"
    IN
    /\ up /\ rt[g] # "absent" /\ Current(g) /\ hook[g] = "none"
    /\ Belongs(g, t) /\ reported[t] # "none"
    /\ native' = [native EXCEPT ![g] = 0]
    /\ IF op[t] \in Active /\ opGen[t] = g
       THEN /\ op' = [op EXCEPT ![t] = FinalState(reported[t])]
            /\ retained' = IF completed THEN [retained EXCEPT ![s] = TRUE] ELSE retained
            /\ stopRequested' = IF completed THEN [stopRequested EXCEPT ![s] = FALSE]
                                             ELSE stopRequested
            /\ member' = MemberAs(s, g, "idle")
            /\ sUncertain' = Derived(s, op')
            /\ hook' = [hook EXCEPT ![g] = IF completed THEN "completed" ELSE "ended"]
       ELSE UNCHANGED <<op, retained, stopRequested, member, sUncertain, hook>>
    /\ UNCHANGED <<opGen, sgen, emergency, up, map, rt, rtOp, rtTurn, poisoned,
                   asked, pending, tick, proc, history, faults>>

\* After that transaction: only a completed turn leaves its runtime reusable.
TurnFinished(g) ==
    /\ up /\ hook[g] \in {"completed", "ended"} /\ Current(g)
    /\ IF hook[g] = "completed"
       THEN /\ rtOp' = [rtOp EXCEPT ![g] = IF @ = rtTurn[g] THEN 0 ELSE @]
            /\ hook' = [hook EXCEPT ![g] = "classify"]
            /\ UNCHANGED asked
       ELSE /\ asked' = [asked EXCEPT ![g] = @ \cup {rtTurn[g]}]
            /\ hook' = [hook EXCEPT ![g] = "none"]
            /\ UNCHANGED rtOp
    /\ UNCHANGED <<durable, up, map, rt, rtTurn, poisoned, pending, tick,
                   outside, faults>>

Classifiable(g) == rtOp[g] = 0 /\ rt[g] = "present" /\ map[SessionOf[g]] = g

\* classifyRuntime, up to the answer of inspectProcesses.
Inspect(g, c) ==
    /\ up /\ hook[g] = "classify"
    /\ IF Classifiable(g)
       THEN c \in Inspection(g) /\ hook' = [hook EXCEPT ![g] = c]
       ELSE c = "gone" /\ hook' = [hook EXCEPT ![g] = "none"]
    /\ UNCHANGED <<durable, up, map, rt, rtOp, rtTurn, poisoned, asked,
                   pending, tick, outside, faults>>

\* classifyRuntime, after it: the guards are read again under the session lock.
Classify(g) ==
    /\ up /\ hook[g] \in Classification
    /\ hook' = [hook EXCEPT ![g] = "none"]
    /\ IF ~Classifiable(g) THEN UNCHANGED <<member, asked>>
       ELSE IF hook[g] = "gone"
       THEN asked' = [asked EXCEPT ![g] = @ \cup {0}] /\ UNCHANGED member
       ELSE member' = MemberAs(SessionOf[g], g, hook[g]) /\ UNCHANGED asked
    /\ UNCHANGED <<others, up, map, rt, rtOp, rtTurn, poisoned, pending, tick,
                   outside, faults>>

\* onRequest: the runtime asks for an approval or for input.
NativeRequests(g) ==
    LET t == native[g]
        s == SessionOf[g]
    IN
    /\ up /\ rt[g] # "absent" /\ Current(g) /\ hook[g] = "none"
    /\ proc[g] = "live" /\ Belongs(g, t) /\ reported[t] = "none"
    /\ op[t] \in Active /\ opGen[t] = g
    /\ op' = [op EXCEPT ![t] = "waiting"]
    /\ sUncertain' = [sUncertain EXCEPT ![s] = FALSE]
    /\ member' = MemberAs(s, g, "waiting")
    /\ UNCHANGED <<opGen, sgen, retained, stopRequested, emergency, up, memory,
                   tick, outside, faults>>

-----------------------------------------------------------------------------
(* The tick: control first.                                                 *)
Idle == /\ cur' = 0 /\ tgen' = 0 /\ launched' = FALSE /\ failed' = 0
        /\ wait' = NoWait

\* The tick awaits retireSessionRuntime(g, automatic) and then goes on.
AwaitRetire(g, auto, next) ==
    /\ at' = "retire"
    /\ wait' = [gen |-> g, auto |-> auto, next |-> next]

\* The pass reads harbor_meta.emergency, then the members or the runtimes map.
BeginPass ==
    /\ up /\ at = "rest"
    /\ IF emergency THEN /\ at' = "halt"
                         /\ todo' = {s \in Session : map[s] # 0}
                    ELSE /\ at' = "control"
                         /\ todo' = Members
    /\ UNCHANGED <<durable, up, memory, register, cands, outside, faults>>

\* Emergency stop, one entry of the map: the operation is read here ...
HaltRuntime(s) ==
    /\ up /\ at = "halt" /\ s \in todo
    /\ todo' = todo \ {s}
    /\ IF map[s] = 0 THEN UNCHANGED <<at, cur, wait>>
       ELSE IF rtOp[map[s]] # 0
       THEN /\ at' = "interrupt" /\ cur' = rtOp[map[s]]
            /\ wait' = [NoWait EXCEPT !.gen = map[s]]
       ELSE AwaitRetire(map[s], FALSE, "halt") /\ UNCHANGED cur
    /\ UNCHANGED <<durable, up, memory, tgen, launched, failed, cands, outside,
                   faults>>

\* ... and overwritten here, whatever it became since.
InterruptOperation ==
    /\ up /\ at = "interrupt"
    /\ op' = Updated(cur, "interrupted")
    /\ sUncertain' = Derived(SessionOf[cur], op')
    /\ cur' = 0
    /\ AwaitRetire(wait.gen, FALSE, "halt")
    /\ UNCHANGED <<rows, up, memory, tgen, launched, failed, cands, todo,
                   outside, faults>>

HaltQueue ==
    /\ up /\ at = "halt" /\ todo = {}
    /\ op' = [t \in Turn |-> IF op[t] = "queued" THEN "interrupted" ELSE op[t]]
    /\ at' = "rest"
    /\ UNCHANGED <<rows, sUncertain, up, memory, register, cands, todo,
                   outside, faults>>

\* (seeded fault) absence is assumed without an identity, or an unknown
\* member is not inspected again.
AbsentUnlessIdentified(s) ==
    /\ member[s] # NoMember /\ member[s].gen = sgen[s]
    /\ member[s].ident => proc[member[s].gen] = "dead"
AbsentUnlessUnknown(s) ==
    /\ member[s] # NoMember /\ member[s].gen = sgen[s]
    /\ member[s].ident /\ proc[member[s].gen] = "dead"
    /\ member[s].state # "unknown"

\* inspectRecoveredLocalRuntime() says "absent" only of a recorded identity
\* whose cgroup is verifiably empty; it never has to.
VerifiablyAbsent(s) ==
    /\ member[s] # NoMember /\ member[s].gen = sgen[s]
    /\ member[s].ident /\ proc[member[s].gen] = "dead"

\* Reconcile one member without an entry in the map.
ReconcileMember(s) ==
    /\ up /\ at = "control" /\ s \in todo /\ map[s] = 0
    /\ todo' = todo \ {s}
    /\ \/ /\ VerifiablyAbsent(s)
          /\ FreeMember(s)
          /\ sUncertain' = Repaired(s, sUncertain)
       \/ UNCHANGED <<member, retained, stopRequested, sUncertain>>
    /\ UNCHANGED <<op, opGen, sgen, emergency, up, memory, at, register, cands,
                   outside, faults>>

\* Reconcile one member with its runtime: a requested stop, a fresh
\* classification, and the idle deadline.
ReconcileRuntime(s, c, expired) ==
    LET g == map[s] IN
    /\ up /\ at = "control" /\ s \in todo /\ g # 0
    /\ todo' = todo \ {s}
    /\ IF rtOp[g] # 0 \/ Retiring(g)
       THEN c = "gone" /\ ~expired /\ UNCHANGED <<member, at, wait>>
       ELSE IF stopRequested[s]
       THEN c = "gone" /\ ~expired /\ AwaitRetire(g, FALSE, "control")
            /\ UNCHANGED member
       ELSE /\ c \in Inspection(g)
            /\ IF c = "gone" THEN UNCHANGED member
                             ELSE member' = MemberAs(s, g, c)
            /\ expired => c = "idle"
            /\ IF c = "gone" \/ expired
               THEN AwaitRetire(g, expired, "control")
               ELSE UNCHANGED <<at, wait>>
    /\ UNCHANGED <<others, up, memory, dispatch, cands, outside, faults>>

\* An answered or expired approval: delivered, or not, to the runtime ...
AnswerRequest(s, delivered) ==
    /\ up /\ at = "control" /\ todo = {} /\ map[s] # 0
    /\ rtOp[map[s]] # 0 /\ op[rtOp[map[s]]] = "waiting"
    /\ member[s].state = "waiting"
    /\ at' = IF delivered THEN "answered" ELSE "unanswered"
    /\ cur' = rtOp[map[s]]
    /\ wait' = [NoWait EXCEPT !.gen = map[s]]
    /\ UNCHANGED <<durable, up, memory, tgen, launched, failed, cands, todo,
                   outside, faults>>

\* ... and then recorded, whatever happened to the runtime meanwhile.
AnswerRecorded ==
    /\ up /\ at = "answered"
    /\ member' = MemberAs(SessionOf[cur], wait.gen, "active")
    /\ at' = "control" /\ Idle
    /\ UNCHANGED <<others, up, memory, cands, todo, outside, faults>>

\* Undelivered: the operation becomes uncertain and then the adapter closes.
AnswerLost ==
    /\ up /\ at = "unanswered"
    /\ op' = Updated(cur, "uncertain")
    /\ sUncertain' = Derived(SessionOf[cur], op')
    /\ at' = "close"
    /\ UNCHANGED <<rows, up, memory, register, cands, todo, outside, faults>>

CloseAdapter ==
    /\ up /\ at = "close"
    /\ IF poisoned[wait.gen] THEN UNCHANGED <<poisoned, map, asked, pending,
                                              native, hook>>
                             ELSE PoisonEffect(wait.gen)
    /\ at' = "control" /\ Idle
    /\ UNCHANGED <<durable, up, rt, rtOp, rtTurn, cands, todo, proc, history,
                   faults>>

\* A cancel operation whose target still waits in the queue.
CancelQueued(t) ==
    /\ up /\ at = "control" /\ todo = {} /\ op[t] = "queued"
    /\ op' = [op EXCEPT ![t] = "interrupted"]
    /\ sUncertain' = Derived(SessionOf[t], op')
    /\ UNCHANGED <<rows, up, memory, tick, outside, faults>>

-----------------------------------------------------------------------------
(* The tick: the dispatch loop over a snapshot of the queue.                *)
Skip == /\ at' = "dispatch" /\ cands' = cands \ {cur} /\ Idle

\* The rows this snapshot shows as stopping or uncertain only get a reason.
Snapshot ==
    /\ up /\ at = "control" /\ todo = {}
    /\ at' = "dispatch"
    /\ cands' = {t \in Turn : /\ op[t] = "queued"
                              /\ ~stopRequested[SessionOf[t]]
                              /\ ~sUncertain[SessionOf[t]]}
    /\ UNCHANGED <<durable, up, memory, register, todo, outside, faults>>

EndPass ==
    /\ up /\ at = "dispatch" /\ cands = {}
    /\ at' = "rest"
    /\ UNCHANGED <<durable, up, memory, register, cands, todo, outside,
                   faults>>

\* retirement_unknown
RetirementUnknown(s) == (map[s] # 0 /\ Retiring(map[s])) \/ HasUncertain(s, op)

\* The oldest candidate left.
Consider ==
    /\ up /\ at = "dispatch"
    /\ \E t \in cands :
         /\ \A u \in cands : t <= u
         /\ IF RetirementUnknown(SessionOf[t])
            THEN cands' = cands \ {t} /\ UNCHANGED <<at, cur>>
            ELSE at' = "busy" /\ cur' = t /\ UNCHANGED cands
    /\ UNCHANGED <<durable, up, memory, tgen, launched, failed, wait, todo,
                   outside, faults>>

\* session_busy
Busy(s) == \/ map[s] # 0 /\ rtOp[map[s]] # 0
           \/ \E t \in TurnsOf(s) : op[t] \in Active

\* (seeded fault) only turns seen running are counted.
AtRunningLimit == Cardinality({t \in Turn : op[t] = "running"}) >= MaxActive

\* active_capacity
AtActiveLimit == Cardinality(ActiveTurns) >= MaxActive

\* (seeded fault) the runtimes map is counted.
AtMapLimit == Cardinality({s \in Session : map[s] # 0}) >= MaxRuntimes

\* runtime_capacity, protected_capacity: every row counts, whatever its state.
AtRuntimeLimit == Cardinality(Members) >= MaxRuntimes

ConsiderCapacity ==
    /\ up /\ at = "busy"
    /\ IF Busy(SessionOf[cur]) \/ AtActiveLimit
       THEN Skip
       ELSE at' = "route" /\ UNCHANGED <<cands, register>>
    /\ UNCHANGED <<durable, up, memory, todo, outside, faults>>

\* Maintenance, or an admission claimWorkspace or reusable() turned away: the
\* turn stays queued.
Blocked ==
    /\ up /\ at \in {"busy", "route", "capture", "admit"}
    /\ Skip
    /\ UNCHANGED <<durable, up, memory, todo, outside, faults>>

\* The queued execution grant was revoked.
RefuseAuthority ==
    /\ up /\ at = "route"
    /\ op' = Updated(cur, "failed")
    /\ sUncertain' = Derived(SessionOf[cur], op')
    /\ Skip
    /\ UNCHANGED <<rows, up, memory, todo, outside, faults>>

\* Without a runtime in the map a place must be free.
Route ==
    LET s == SessionOf[cur] IN
    /\ up /\ at = "route"
    /\ IF map[s] # 0 THEN at' = "capture" /\ UNCHANGED <<cands, register>>
       ELSE IF member[s] # NoMember THEN Skip
       ELSE at' = "evict" /\ UNCHANGED <<cands, register>>
    /\ UNCHANGED <<durable, up, memory, todo, outside, faults>>

Evict(v) ==
    LET g == map[v] IN
    /\ up /\ at = "evict" /\ AtRuntimeLimit
    /\ member[v].state = "idle" /\ g # 0 /\ rtOp[g] = 0
    /\ AwaitRetire(g, TRUE, "evict")
    /\ UNCHANGED <<durable, up, memory, dispatch, cands, todo, outside,
                   faults>>

EvictionDone ==
    /\ up /\ at = "evict"
    /\ IF AtRuntimeLimit THEN Skip
       ELSE at' = "capture" /\ UNCHANGED <<cands, register>>
    /\ UNCHANGED <<durable, up, memory, todo, outside, faults>>

\* The runtime found now is reused or, when its permission profile or its
\* credentials changed, replaced; without one a generation is minted.
Capture(replace) ==
    LET g == map[SessionOf[cur]] IN
    /\ up /\ at = "capture"
    /\ IF replace
       THEN /\ g # 0 /\ AwaitRetire(g, FALSE, "replace")
            /\ UNCHANGED tgen
       ELSE /\ at' = "admit" /\ tgen' = (IF g # 0 THEN g ELSE cur)
            /\ UNCHANGED wait
    /\ UNCHANGED <<durable, up, memory, cur, launched, failed, cands, todo,
                   outside, faults>>

-----------------------------------------------------------------------------
(* The tick: awaited retirements.                                           *)
Continue(next) ==
    CASE next = "dispatch" -> Skip
      [] next = "replace"  -> at' = "admit" /\ tgen' = cur /\ wait' = NoWait
                              /\ UNCHANGED <<cands, cur, launched, failed>>
      [] OTHER -> at' = next /\ wait' = NoWait
                  /\ UNCHANGED <<cands, dispatch>>

\* retireSessionRuntime returned false.
NotRetired == IF wait.next = "replace" THEN Skip ELSE Continue(wait.next)

\* The admission; an automatic one inspects the processes again inside it.
StillIdle(g) ==
    LET s == SessionOf[g] IN
    /\ member[s].gen = g /\ member[s].state = "idle"
    /\ rtOp[g] = 0 /\ map[s] = g

RetireAwaited(c) ==
    LET g == wait.gen
        s == SessionOf[g]
    IN
    /\ up /\ at = "retire"
    /\ c \in IF wait.auto THEN Inspection(g) ELSE {"idle"}
    /\ IF Admissible(g, 0) /\ (wait.auto => StillIdle(g) /\ c = "idle")
       THEN /\ BeginRetirement(g, 0) /\ asked' = [asked EXCEPT ![g] = {}]
            /\ at' = "await" /\ UNCHANGED <<cands, register>>
       ELSE /\ member' = IF Admissible(g, 0) /\ wait.auto /\ StillIdle(g)
                         THEN MemberAs(s, g, IF c = "gone" THEN "unknown" ELSE c)
                         ELSE member
            /\ NotRetired
            /\ UNCHANGED <<rt, rtOp, asked>>
    /\ UNCHANGED <<others, up, map, rtTurn, poisoned, hook, pending, todo,
                   outside, faults>>

Retired ==
    /\ up /\ at = "await"
    /\ \/ rt[wait.gen] = "released" /\ Continue(wait.next)
       \/ rt[wait.gen] = "doubtful" /\ NotRetired
    /\ rt' = [rt EXCEPT ![wait.gen] = "gone"]
    /\ UNCHANGED <<durable, up, map, rtOp, rtTurn, poisoned, hook, asked,
                   pending, todo, outside, faults>>

-----------------------------------------------------------------------------
(* The tick: one dispatch.                                                  *)

\* An exception inside the try block; the catch clause reads the map at once.
Throw == /\ at' = "fail" /\ failed' = map[SessionOf[cur]]
         /\ UNCHANGED <<cands, cur, tgen, launched, wait>>

\* A preparation that fails: the workspace, the authority, the attachments,
\* the initialisation of the runtime, the thread.
DispatchThrows ==
    /\ up /\ at \in {"capture", "admit", "prepare", "spawned", "saved", "claim", "send"}
    /\ Throw
    /\ UNCHANGED <<durable, up, memory, todo, outside, faults>>

Reusable(g) ==
    LET s == SessionOf[g] IN
    /\ map[s] = g /\ rt[g] = "present" /\ ~poisoned[g] /\ rtOp[g] = 0
    /\ sgen[s] = g

Dispatching == [op EXCEPT ![cur] = IF @ = "queued" THEN "dispatching" ELSE @]

Ready(s) == /\ Reusable(tgen)
            /\ member[s].gen = tgen /\ member[s].ident
            /\ member[s].state \in {"idle", "protected"}

\* The admission transaction, reusing the captured runtime.
AdmitReuse ==
    LET s == SessionOf[cur] IN
    /\ up /\ at = "admit" /\ tgen # cur
    /\ IF Ready(s)
       THEN /\ member' = MemberAs(s, tgen, "active")
            /\ op' = Dispatching
            /\ opGen' = [opGen EXCEPT ![cur] = tgen]
            /\ rtOp' = [rtOp EXCEPT ![tgen] = cur]
            /\ at' = "claim"
            /\ UNCHANGED <<cands, register>>
       ELSE Skip /\ UNCHANGED <<member, op, opGen, rtOp>>
    /\ UNCHANGED <<sgen, sUncertain, retained, stopRequested, emergency, up,
                   map, rt, rtTurn, poisoned, hook, asked, pending, todo,
                   outside, faults>>

\* The admission transaction, reserving a member before the launch.
AdmitNew ==
    LET s == SessionOf[cur] IN
    /\ up /\ at = "admit" /\ tgen = cur
    /\ IF member[s] = NoMember
       THEN /\ member' = [member EXCEPT ![s] =
                            [state |-> "starting", gen |-> cur, ident |-> FALSE]]
            /\ sgen' = [sgen EXCEPT ![s] = cur]
            /\ op' = Dispatching
            /\ opGen' = [opGen EXCEPT ![cur] = cur]
            /\ at' = "prepare"
            /\ UNCHANGED <<cands, register>>
       ELSE Throw /\ UNCHANGED <<member, sgen, op, opGen>>
    /\ UNCHANGED <<sUncertain, retained, stopRequested, emergency, up, memory,
                   todo, outside, faults>>

\* launchLocalRuntime spawns the paused guardian; before that, only
\* PersonalRuntimeNotStartedError.
Launch ==
    /\ up /\ at = "prepare"
    /\ proc' = [proc EXCEPT ![tgen] = "paused"]
    /\ at' = "spawned" /\ launched' = TRUE
    /\ UNCHANGED <<durable, up, memory, cur, tgen, failed, wait, cands, todo,
                   native, history, faults>>

\* onOwnedIdentity
SaveIdentity ==
    LET s == SessionOf[cur] IN
    /\ up /\ at = "spawned"
    /\ IF member[s].gen = tgen /\ member[s].state = "starting"
       THEN /\ member' = [member EXCEPT ![s].ident = TRUE]
            /\ at' = "saved" /\ UNCHANGED <<cands, register>>
       ELSE Throw /\ UNCHANGED member
    /\ UNCHANGED <<others, up, memory, todo, outside, faults>>

\* The guardian starts Codex; onTransport publishes the runtime.
Transport ==
    LET s == SessionOf[cur] IN
    /\ up /\ at = "saved"
    /\ proc' = [proc EXCEPT ![tgen] = IF @ = "paused" THEN "live" ELSE @]
    /\ map' = [map EXCEPT ![s] = tgen]
    /\ rt' = [rt EXCEPT ![tgen] = "present"]
    /\ rtOp' = [rtOp EXCEPT ![tgen] = cur]
    /\ at' = "claim"
    /\ UNCHANGED <<durable, up, rtTurn, poisoned, hook, asked, pending,
                   register, cands, todo, native, history, faults>>

\* The generation and the claim are written again on both paths.
Claim ==
    LET s == SessionOf[cur] IN
    /\ up /\ at = "claim"
    /\ opGen' = [opGen EXCEPT ![cur] = tgen]
    /\ sgen' = [sgen EXCEPT ![s] = tgen]
    /\ rtOp' = [rtOp EXCEPT ![tgen] = cur]
    /\ rtTurn' = [rtTurn EXCEPT ![tgen] = 0]
    /\ member' = MemberAs(s, tgen, "active")
    /\ at' = "send"
    /\ UNCHANGED <<op, sUncertain, retained, stopRequested, emergency, up, map,
                   rt, poisoned, hook, asked, pending, register, cands, todo,
                   outside, faults>>

\* (seeded fault) emergency is only read when the pass begins.
FencedAtStart(g, s) ==
    /\ Current(g) /\ rt[g] = "present" /\ sgen[s] = g /\ ~HasUncertain(s, op)

\* withDispatch: the fence right before the request is written.
Fenced(g, s) ==
    /\ Current(g) /\ rt[g] = "present" /\ sgen[s] = g
    /\ ~emergency /\ ~HasUncertain(s, op)

\* startTurn
Send ==
    /\ up /\ at = "send"
    /\ IF Fenced(tgen, SessionOf[cur])
       THEN /\ sent' = [sent EXCEPT ![cur] = @ + 1]
            /\ native' = IF proc[tgen] = "live" THEN [native EXCEPT ![tgen] = cur]
                                                ELSE native
            /\ at' = "ack" /\ UNCHANGED <<cands, register>>
       ELSE Throw /\ UNCHANGED <<sent, native>>
    /\ UNCHANGED <<durable, up, memory, todo, proc, reported, faults>>

\* The turn/start response names the native turn, or never comes.
Acknowledge(answered) ==
    /\ up /\ at = "ack"
    /\ IF answered
       THEN /\ native[tgen] = cur /\ ~poisoned[tgen]
            /\ rtTurn' = [rtTurn EXCEPT ![tgen] = cur]
            /\ at' = "mark" /\ UNCHANGED <<cands, register>>
       ELSE Throw /\ UNCHANGED rtTurn
    /\ UNCHANGED <<durable, up, map, rt, rtOp, poisoned, hook, asked, pending,
                   todo, outside, faults>>

MarkRunning ==
    LET s == SessionOf[cur] IN
    /\ up /\ at = "mark"
    /\ IF op[cur] = "dispatching"
       THEN /\ op' = [op EXCEPT ![cur] = "running"]
            /\ sUncertain' = [sUncertain EXCEPT ![s] = FALSE]
       ELSE UNCHANGED <<op, sUncertain>>
    /\ Skip
    /\ UNCHANGED <<rows, up, memory, todo, outside, faults>>

MarkLost ==
    /\ up /\ at = "mark" /\ lost < MaxLost
    /\ Throw
    /\ lost' = lost + 1
    /\ UNCHANGED <<durable, up, memory, todo, outside, crashes>>

\* The catch clause: what the operation becomes.
ProvenUnstarted == failed = 0 /\ ~launched

\* (seeded fault) an ambiguous dispatch is tried again.
RetriedState == IF op[cur] # "queued" /\ ~ProvenUnstarted THEN "queued" ELSE "failed"

FailedState == IF op[cur] # "queued" /\ ~ProvenUnstarted THEN "uncertain" ELSE "failed"

FailOperation ==
    /\ up /\ at = "fail"
    /\ op' = Updated(cur, FailedState)
    /\ sUncertain' = Derived(SessionOf[cur], op')
    /\ at' = "cleanup"
    /\ UNCHANGED <<rows, up, memory, register, cands, todo, outside, faults>>

\* The catch clause: what becomes of the runtime or of the reservation.
Cleanup ==
    LET s == SessionOf[cur] IN
    /\ up /\ at = "cleanup"
    /\ IF failed # 0
       THEN AwaitRetire(failed, FALSE, "dispatch")
            /\ UNCHANGED <<member, cands, dispatch>>
       ELSE /\ Skip
            /\ member' =
                 IF tgen = 0 THEN member
                 ELSE IF ~ProvenUnstarted THEN MemberAs(s, tgen, "unknown")
                 ELSE IF member[s] = [state |-> "starting", gen |-> tgen, ident |-> FALSE]
                 THEN [member EXCEPT ![s] = NoMember]
                 ELSE member
    /\ UNCHANGED <<others, up, memory, todo, outside, faults>>

\* A transaction of the tick fails outside the try block, or in the catch
\* clause: the job ends and the next pass starts over.
AbandonPass == at' = "rest" /\ Idle /\ cands' = {} /\ todo' = {}

PassLost ==
    /\ up /\ lost < MaxLost
    /\ at \in {"halt", "interrupt", "control", "answered", "unanswered",
               "dispatch", "busy", "route", "evict", "fail", "cleanup"}
    /\ AbandonPass
    /\ lost' = lost + 1
    /\ UNCHANGED <<durable, up, memory, outside, crashes>>

\* An awaited retirement rejects; replacing a runtime happens inside the try.
AwaitRejects ==
    IF wait.next = "replace"
    THEN /\ at' = "fail" /\ failed' = map[SessionOf[cur]] /\ wait' = NoWait
         /\ UNCHANGED <<cands, cur, tgen, launched, todo>>
    ELSE AbandonPass

AwaitLost ==
    /\ up /\ at = "await" /\ rt[wait.gen] = "aborted"
    /\ rt' = [rt EXCEPT ![wait.gen] = "gone"]
    /\ AwaitRejects
    /\ UNCHANGED <<durable, up, map, rtOp, rtTurn, poisoned, hook, asked,
                   pending, outside, faults>>

\* The awaited admission fails to commit, with runtime.retiring already set, or
\* its inspection of the processes rejects, before that.
AdmissionLost ==
    /\ up /\ at = "retire" /\ lost < MaxLost
    /\ Admissible(wait.gen, 0) /\ (wait.auto => StillIdle(wait.gen))
    /\ \/ /\ rt' = [rt EXCEPT ![wait.gen] = "stuck"]
          /\ asked' = [asked EXCEPT ![wait.gen] = {}]
       \/ wait.auto /\ UNCHANGED <<rt, asked>>
    /\ AwaitRejects
    /\ lost' = lost + 1
    /\ UNCHANGED <<durable, up, map, rtOp, rtTurn, poisoned, hook, pending,
                   outside, crashes>>

\* The admission fails to commit, with the runtime's operation already set.
ReuseLost ==
    /\ ReuseAborts
    /\ up /\ at = "admit" /\ tgen # cur /\ lost < MaxLost
    /\ Ready(SessionOf[cur])
    /\ rtOp' = [rtOp EXCEPT ![tgen] = cur]
    /\ Throw
    /\ lost' = lost + 1
    /\ UNCHANGED <<durable, up, map, rt, rtTurn, poisoned, hook, asked, pending,
                   todo, outside, crashes>>

-----------------------------------------------------------------------------
(* Crash and startup.                                                       *)
Crash ==
    /\ up /\ crashes < MaxCrashes
    /\ crashes' = crashes + 1
    /\ up' = FALSE
    /\ map' = [s \in Session |-> 0]
    /\ rt' = [g \in Turn |-> "absent"]
    /\ rtOp' = [g \in Turn |-> 0] /\ rtTurn' = [g \in Turn |-> 0]
    /\ poisoned' = [g \in Turn |-> FALSE]
    /\ hook' = [g \in Turn |-> "none"]
    /\ asked' = [g \in Turn |-> {}]
    /\ pending' = {}
    /\ native' = [g \in Turn |-> 0]
    /\ AbandonPass
    /\ UNCHANGED <<durable, proc, history, lost>>

\* (seeded fault) work in progress or in doubt is replayed.
Replayed(t) == IF op[t] \in Active \cup {"uncertain"} THEN "queued" ELSE op[t]

\* A turn that was being worked on may have had effects.
Recovered(t) == IF op[t] \in Active THEN "uncertain" ELSE op[t]

\* The startup transaction.  `absent' are the members whose recorded cgroup the
\* read-only inspection found empty; every other one stays reserved.
Startup(absent) ==
    LET held == {s \in Members : member[s].gen = sgen[s]}
        ops  == [t \in Turn |-> Recovered(t)]
        kept == held \ absent
        abandoned == {s \in Session : retained[s] /\ s \notin held
                                      /\ member[s] = NoMember}
        stale == kept \cup abandoned \cup {s \in Session : sUncertain[s]}
        effects(s) == \E t \in TurnsOf(s) : op[t] \in Active
        member1 == [s \in Session |->
                      CASE s \in absent -> NoMember
                        [] s \in kept   -> [member[s] EXCEPT !.state = "unknown"]
                        [] OTHER        -> member[s]]
        stop1 == [s \in Session |-> IF s \in absent THEN FALSE
                                    ELSE stopRequested[s] \/ s \in kept \cup abandoned]
        retained1 == [s \in Session |-> retained[s] /\ s \notin held \cup abandoned]
    IN
    /\ ~up
    /\ \A s \in absent : VerifiablyAbsent(s)
    /\ op' = ops /\ member' = member1
    /\ stopRequested' = stop1 /\ retained' = retained1
    /\ sUncertain' = [s \in Session |->
         \/ effects(s)
         \/ /\ s \in stale
            /\ \/ retained1[s] \/ stop1[s] \/ member1[s] # NoMember
               \/ \E t \in TurnsOf(s) : ops[t] \in Unsettled \cup {"uncertain"}]
    /\ up' = TRUE
    /\ UNCHANGED <<opGen, sgen, emergency, memory, tick, outside, faults>>

-----------------------------------------------------------------------------
Api == \/ \E t \in Turn : Accept(t)
       \/ \E s \in Session : BackgroundStop(s)
       \/ EmergencyStop

Native == \E g \in Turn :
       \/ ProcessDies(g)
       \/ \E status \in NativeStatus : NativeFinishes(g, status)

Mailbox == \E g \in Turn :
       \/ Poison(g) \/ SettleUncertain(g)
       \/ TurnCompleted(g) \/ TurnFinished(g) \/ NativeRequests(g)
       \/ (\E c \in Classification : Inspect(g, c)) \/ Classify(g)

Retirement == \E g \in Turn :
       \/ \E done \in Gen : Retire(g, done) \/ RetireLost(g, done)
       \/ RetirementConfirmed(g) \/ RetirementUnconfirmed(g)
       \/ Release(g) \/ RetirementUncertain(g) \/ SettlementLost(g)

Control == \/ BeginPass
           \/ \E s \in Session : HaltRuntime(s)
           \/ InterruptOperation \/ HaltQueue
           \/ \E s \in Session : ReconcileMember(s)
           \/ \E s \in Session, c \in Classification, expired \in BOOLEAN :
                ReconcileRuntime(s, c, expired)
           \/ \E s \in Session, delivered \in BOOLEAN : AnswerRequest(s, delivered)
           \/ AnswerRecorded \/ AnswerLost \/ CloseAdapter
           \/ \E t \in Turn : CancelQueued(t)

Dispatch == \/ Snapshot \/ EndPass
            \/ Consider \/ ConsiderCapacity \/ Blocked \/ RefuseAuthority
            \/ Route \/ (\E v \in Session : Evict(v)) \/ EvictionDone
            \/ \E replace \in BOOLEAN : Capture(replace)
            \/ (\E c \in Classification : RetireAwaited(c)) \/ Retired
            \/ DispatchThrows \/ AdmitReuse \/ AdmitNew
            \/ Launch \/ SaveIdentity \/ Transport \/ Claim \/ Send
            \/ (\E answered \in BOOLEAN : Acknowledge(answered))
            \/ MarkRunning \/ MarkLost \/ FailOperation \/ Cleanup

Failure == \/ PassLost \/ AwaitLost \/ AdmissionLost \/ ReuseLost
           \/ Crash \/ \E absent \in SUBSET Session : Startup(absent)

Next == Api \/ Native \/ Mailbox \/ Retirement \/ Control \/ Dispatch \/ Failure

Spec == Init /\ [][Next]_vars

(***************************************************************************)
(* Fairness.  The job queue runs the tick again and again; every await of  *)
(* the tick has a deadline, and the lists it walks are read once, so that  *)
(* no pass answers requests or evicts members for ever.  A mailbox handler *)
(* and a retirement that were started run on; a runtime that is dead or    *)
(* being killed disconnects; a cgroup inspection that keeps failing is not *)
(* assumed.  Nothing is assumed of the owner, of the native runtimes or of *)
(* the scheduler of crashes.                                               *)
(***************************************************************************)
Tick == \/ BeginPass
        \/ \E s \in Session : HaltRuntime(s) \/ ReconcileMember(s)
        \/ InterruptOperation \/ HaltQueue
        \/ \E s \in Session, c \in Classification, expired \in BOOLEAN :
             ReconcileRuntime(s, c, expired)
        \/ AnswerRecorded \/ AnswerLost \/ CloseAdapter \/ Dispatch

Disconnects(g) == (proc[g] = "dead" \/ rt[g] = "killing") /\ Poison(g)
Inspected(g)   == \E c \in Classification : Inspect(g, c)
Ended(g)       == RetirementConfirmed(g) \/ RetirementUnconfirmed(g)
Retires(g)     == \E done \in Gen : Retire(g, done)
Restart        == \E absent \in SUBSET Session : Startup(absent)
Freed(s)       == ReconcileMember(s) /\ member'[s] = NoMember

Fairness ==
    /\ WF_vars(Tick) /\ SF_vars(Snapshot) /\ SF_vars(EvictionDone)
    /\ WF_vars(Restart)
    /\ \A g \in Turn :
         /\ WF_vars(Disconnects(g)) /\ WF_vars(SettleUncertain(g))
         /\ WF_vars(TurnCompleted(g)) /\ WF_vars(TurnFinished(g))
         /\ WF_vars(Inspected(g)) /\ WF_vars(Classify(g))
         /\ WF_vars(Retires(g)) /\ WF_vars(Ended(g))
         /\ WF_vars(Release(g)) /\ WF_vars(RetirementUncertain(g))
    /\ \A s \in Session : SF_vars(Freed(s))

LiveSpec == Spec /\ Fairness

-----------------------------------------------------------------------------
(***************************************************************************)
(* Every variable keeps its type.                                          *)
(***************************************************************************)
DurableOK ==
    /\ op \in [Turn -> OpState] /\ opGen \in [Turn -> Gen]
    /\ sgen \in [Session -> Gen]
    /\ sUncertain \in [Session -> BOOLEAN] /\ retained \in [Session -> BOOLEAN]
    /\ stopRequested \in [Session -> BOOLEAN]
    /\ member \in [Session -> Member]
    /\ emergency \in BOOLEAN

MemoryOK ==
    /\ up \in BOOLEAN
    /\ map \in [Session -> Gen] /\ rt \in [Turn -> RtPhase]
    /\ rtOp \in [Turn -> Gen] /\ rtTurn \in [Turn -> Gen]
    /\ poisoned \in [Turn -> BOOLEAN]
    /\ hook \in [Turn -> {"none", "completed", "ended", "classify"} \cup Classification]
    /\ asked \in [Turn -> SUBSET Gen] /\ pending \subseteq Turn

TickOK ==
    /\ at \in TickAt /\ cur \in Gen /\ tgen \in Gen /\ launched \in BOOLEAN
    /\ failed \in Gen /\ wait \in Wait
    /\ cands \subseteq Turn /\ todo \subseteq Session

OutsideOK ==
    /\ proc \in [Turn -> {"none", "paused", "live", "dead"}]
    /\ native \in [Turn -> Gen]
    /\ sent \in [Turn -> Nat]
    /\ reported \in [Turn -> NativeStatus \cup {"none"}]
    /\ crashes \in 0..MaxCrashes /\ lost \in 0..MaxLost

TypeOK == DurableOK /\ MemoryOK /\ TickOK /\ OutsideOK

(***************************************************************************)
(* A turn's text is written to a native runtime at most once, and never    *)
(* while the turn is still queued: neither a retry, a restart nor a        *)
(* replacement of the runtime dispatches it again.                         *)
(***************************************************************************)
SentOnce == \A t \in Turn :
    /\ sent[t] <= 1
    /\ op[t] \in {"absent", "queued"} => sent[t] = 0

(***************************************************************************)
(* A runtime whose processes may still run is counted: its conversation's  *)
(* row names its generation, through launch, retirement, crash and restart.*)
(***************************************************************************)
LiveReserved == \A g \in Turn :
    proc[g] \in {"paused", "live"} => member[SessionOf[g]].gen = g

(***************************************************************************)
(* The two ceilings of D014, counted over the durable rows, and one active *)
(* turn per conversation.                                                  *)
(***************************************************************************)
RuntimeCeiling == Cardinality(Members) <= MaxRuntimes
ActiveCeiling  == /\ Cardinality(ActiveTurns) <= MaxActive
                  /\ \A s \in Session : Cardinality(ActiveTurns \cap TurnsOf(s)) <= 1

(***************************************************************************)
(* A conversation with an uncertain turn shows uncertain, whichever of the *)
(* many writers of sessions.state wrote last.                              *)
(***************************************************************************)
UncertaintyShown == \A t \in Turn : op[t] = "uncertain" => sUncertain[SessionOf[t]]

(***************************************************************************)
(* A turn succeeds only on the runtime's own word, and a turn that was     *)
(* sent is interrupted only on that word or by the emergency stop.         *)
(***************************************************************************)
HonestOutcome == \A t \in Turn :
    /\ op[t] = "succeeded" => reported[t] = "completed"
    /\ op[t] = "interrupted" /\ sent[t] > 0 => reported[t] = "interrupted" \/ emergency

(***************************************************************************)
(* "Runtime did not start; no native request was dispatched": a turn that  *)
(* was sent fails only when the runtime says it failed.                    *)
(***************************************************************************)
HonestFailure == \A t \in Turn :
    op[t] = "failed" /\ sent[t] > 0 => reported[t] = "failed"

(***************************************************************************)
(* background_stop_requested refuses new turns until processes stop, so    *)
(* there is a runtime whose release will clear it.                         *)
(***************************************************************************)
StopNamesMember == \A s \in Session : stopRequested[s] => member[s] # NoMember

(***************************************************************************)
(* background_until is only kept for a conversation that has a runtime.    *)
(***************************************************************************)
RetainedNamesMember == \A s \in Session : retained[s] => member[s] # NoMember

(***************************************************************************)
(* A turn that ended keeps its outcome.                                    *)
(***************************************************************************)
TerminalFinal == [][\A t \in Turn : op[t] \in Settled => op'[t] = op[t]]_vars

(***************************************************************************)
(* An uncertain turn is never relabelled and never dispatched again by the *)
(* dispatcher: only the owner resolves it.                                 *)
(***************************************************************************)
UncertainFinal == [][\A t \in Turn : op[t] = "uncertain" => op'[t] = op[t]]_vars

(***************************************************************************)
(* A request is written only for a dispatching turn, on the runtime that   *)
(* the conversation's row reserves and whose identity is recorded, with no *)
(* other turn of the conversation active or uncertain, and not after an    *)
(* emergency stop.                                                         *)
(***************************************************************************)
SendFenced == [][\A t \in Turn : sent'[t] # sent[t] =>
    LET s == SessionOf[t]
        g == opGen[t]
    IN
    /\ op[t] = "dispatching" /\ ~emergency
    /\ member[s].gen = g /\ member[s].ident /\ sgen[s] = g
    /\ \A u \in TurnsOf(s) \ {t} : op[u] \notin Active \cup {"uncertain"}]_vars

(***************************************************************************)
(* No retirement, whoever asked for it and however late its call runs,     *)
(* takes a healthy runtime away from an active turn.                       *)
(***************************************************************************)
HealthySpared == [][\A g \in Turn :
    rt[g] = "present" /\ rt'[g] = "killing" /\ proc[g] = "live" /\ ~poisoned[g]
        => \A t \in Turn : op[t] \in Active => opGen[t] # g]_vars

(***************************************************************************)
(* The dispatcher implements the ledger of turns: as long as no emergency  *)
(* stop is pressed and no transaction fails.                               *)
(***************************************************************************)
Ledger == INSTANCE TurnLedger WITH state <- op

LedgerKept == Ledger!Spec

(***************************************************************************)
(* No turn is left dispatching, or active on a runtime that died: it runs, *)
(* or gets an outcome, or is shown uncertain.                              *)
(***************************************************************************)
Stranded(t) ==
    \/ op[t] = "dispatching"
    \/ op[t] \in Active /\ opGen[t] # 0 /\ proc[opGen[t]] = "dead"

NoTurnStranded == \A t \in Turn : Stranded(t) ~> ~Stranded(t)

(***************************************************************************)
(* The place of a runtime that died is given back, unless the emergency    *)
(* stop has suspended reconciliation.                                      *)
(***************************************************************************)
CapacityReturns == \A g \in Turn :
    LET m == member[SessionOf[g]]
    IN (m.gen = g /\ m.ident /\ proc[g] = "dead") ~> (m.gen # g \/ emergency)

(***************************************************************************)
(* After an emergency stop no turn stays queued or active.                 *)
(***************************************************************************)
EmergencySettles == emergency ~> \A t \in Turn : op[t] \notin Unsettled
=============================================================================
