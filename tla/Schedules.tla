------------------------------ MODULE Schedules ------------------------------
(***************************************************************************)
(* One schedule: the planner that turns due minutes into occurrences, the  *)
(* worker that prepares a workspace and admits the turn of an occurrence,  *)
(* the settlement that copies the outcome, and the owner, who pauses,      *)
(* edits, renews, runs and cancels in between.  Each of them is a row of   *)
(* short transactions; what was read before one is a hint only.  The turn  *)
(* and the storage operation are executed elsewhere.                       *)
(***************************************************************************)
EXTENDS Naturals, FiniteSets, Sequences

CONSTANTS
    Due,            \* the minutes a recurring rule fires at
    Config,         \* the configurations the owner may choose
    Ends,           \* how a turn that ran may end
    Grace,          \* how late a minute may be seen and still be in time (60 s)
    Limit, Window,  \* catch-up: at most Limit minutes, Window old (3; 24 hours)
    Horizon,        \* bound: the clock stays below it
    MaxRuns,        \* bound: the occurrences there may ever be
    MaxEvents       \* bound: requests of the owner, grants that end, failing
                    \*   transactions and restarts, steps the clock is set back

\* Two minutes of a rule are a minute apart, which is what Grace is in the code.
\* once: the minute of a one-time rule, or 0; alone: every occurrence gets a
\* workspace and a conversation of its own.
ASSUME SchedulesAssumption ==
    /\ Due \subseteq Nat \ {0} /\ \E m \in Due : m >= Horizon
    /\ \A m, n \in Due : m < n => m + Grace <= n
    /\ Grace \in Nat \ {0}
    /\ Config \subseteq [once : Nat, catchUp : BOOLEAN, alone : BOOLEAN]
    /\ Ends \subseteq {"succeeded", "failed", "interrupted", "uncertain"}
    /\ {Limit, Window, Horizon, MaxRuns, MaxEvents} \subseteq Nat

VARIABLES
    \* the row of schedules, its version and its grants
    sched, config, rev, rule, epoch, grant, grants,
    cursor, nextDue, observed, batch,
    \* schedule_occurrences with the rows of their turn and storage operation
    occ, ranges,
    emergency, now,
    \* the worker: where it is, what it read
    at, hint, cur, seen,
    \* history: the cursor of the activation and, since then, the minutes at
    \* which an earlier one was seen with the last of its grace; what a pause
    \* found undispatched
    since, edge, halted,
    events

schedule == <<sched, config, rev, rule, epoch, grant, grants, cursor, nextDue,
              observed, batch>>
history == <<occ, ranges>>
worker == <<at, hint, cur, seen>>
ghosts == <<since, edge, halted>>
vars == <<schedule, history, emergency, now, worker, ghosts, events>>

-----------------------------------------------------------------------------
\* nextMinutes and recentMinutes.  The unit of time is left open: the clock is
\* read in milliseconds, a rule names minutes.
Fires(c) == IF c.once = 0 THEN Due ELSE {c.once}
Later(c, t) == {m \in Fires(c) : m > t}
Earliest(S) == CHOOSE m \in S : \A n \in S : m <= n
Larger(m, n) == IF m > n THEN m ELSE n

Recent(c, from, to) ==
    LET due == {m \in Fires(c) : m > from /\ m + Window > to /\ m <= to}
    IN  {m \in due : Cardinality({n \in due : n > m}) < Limit}

NoBatch == [id |-> 0, late |-> FALSE, from |-> 0, through |-> 0, next |-> 0,
            minutes |-> {}, excluded |-> {}]
NoHint == [rev |-> 0, rule |-> 0, epoch |-> 0, grant |-> 0, cursor |-> 0,
           batch |-> NoBatch, now |-> 0]

Undispatched == {"accepted", "preparing"}
Watched == {"queued_turn", "running", "attention", "uncertain"}
Rows == 1..Len(occ)

\* (seeded fault) an occurrence that waits for the owner does not count.
AtWorkOnly(o) == \/ occ[o].state \in Undispatched \cup {"queued_turn", "running"}
                 \/ occ[o].state = "uncertain" /\ ~occ[o].ack

Unresolved(o) == \/ occ[o].state \in Undispatched \cup (Watched \ {"uncertain"})
                 \/ occ[o].state = "uncertain" /\ ~occ[o].ack
Busy == \E o \in Rows : Unresolved(o)

\* requireScheduleAuthority()
Authorized(o) ==
    /\ occ[o].grant \in grants /\ ~emergency
    /\ occ[o].state \in Undispatched \cup {"queued_turn", "running"}
    /\ occ[o].kind = "recurring" => sched = "enabled" /\ grant = occ[o].grant

\* insertOccurrence()
Row(kind, minute, g, s) ==
    [kind |-> kind, at |-> minute, rule |-> rule, grant |-> g, alone |-> config.alone,
     state |-> s, ack |-> FALSE, turn |-> "none", turnAck |-> FALSE, storage |-> "none"]

Shown(o, s) == occ' = [occ EXCEPT ![o].state = s]

Init ==
    /\ sched = "enabled" /\ config \in {c \in Config : Later(c, 0) # {}}
    /\ rev = 1 /\ rule = 1 /\ epoch = 1 /\ grant = 1 /\ grants = {1}
    /\ cursor = 0 /\ nextDue = Earliest(Later(config, 0)) /\ observed = 0
    /\ batch = NoBatch
    /\ occ = <<>> /\ ranges = {}
    /\ emergency = FALSE /\ now = 0
    /\ at = "idle" /\ hint = NoHint /\ cur = 0 /\ seen = "none"
    /\ since = 0 /\ edge = {} /\ halted = {} /\ events = 0

-----------------------------------------------------------------------------
\* The planner.

\* (seeded fault) the worker keeps what it read.
RestKeeping == at' = "idle" /\ hint' = NoHint /\ seen' = "none" /\ UNCHANGED cur

Rest == at' = "idle" /\ hint' = NoHint /\ cur' = 0 /\ seen' = "none"
Read == /\ sched = "enabled" /\ rev = hint.rev /\ epoch = hint.epoch
Consumed == [hint.batch EXCEPT !.minutes = @ \ {Earliest(@)}]

\* The row and the now, without a lock.
PlanRead ==
    /\ at = "idle" /\ sched = "enabled"
    /\ \/ now < observed /\ at' = "stop"
       \/ now >= observed /\ batch # NoBatch /\ at' = "admit"
       \/ /\ now >= observed /\ batch = NoBatch
          /\ nextDue # 0 /\ nextDue <= now
          /\ at' = IF Later(config, cursor) = {} THEN "stop" ELSE "freeze"
    /\ hint' = [rev |-> rev, rule |-> rule, epoch |-> epoch, grant |-> grant,
                cursor |-> cursor, batch |-> batch, now |-> now]
    /\ UNCHANGED <<schedule, history, emergency, now, cur, seen, ghosts, events>>

\* The choice of a pass; a minute seen in time is taken, a late one is skipped
\* or caught up.  A lag of exactly Grace is in time.
Chosen ==
    LET due == Earliest(Later(config, hint.cursor))
        late == due + Grace < hint.now
        minutes == CASE ~late -> {due}
                     [] late /\ config.catchUp -> Recent(config, hint.cursor, hint.now)
                     [] OTHER -> {}
    IN  [id |-> hint.epoch, late |-> late, from |-> hint.cursor, through |-> hint.now,
         next |-> IF config.once # 0 THEN 0 ELSE Earliest(Later(config, hint.now)),
         minutes |-> minutes, excluded |-> minutes]

\* The clock shows the rule's next minute when the last of the grace of the one
\* that is due runs out.
Edge == {m \in Fires(config) : /\ m = hint.now
                               /\ Earliest(Later(config, hint.cursor)) + Grace = m}

Freeze ==
    /\ at = "freeze"
    /\ IF Read /\ cursor = hint.cursor /\ batch = NoBatch
       THEN /\ batch' = Chosen /\ observed' = hint.now
            /\ hint' = [hint EXCEPT !.batch = Chosen]
            /\ at' = "admit" /\ UNCHANGED <<cur, seen>>
            /\ edge' = edge \cup Edge
       ELSE Rest /\ UNCHANGED <<batch, observed, edge>>
    /\ UNCHANGED <<sched, config, rev, rule, epoch, grant, grants, cursor, nextDue,
                   history, emergency, now, since, halted, events>>

Minute == Earliest(hint.batch.minutes)
Fresh == /\ sched = "enabled" /\ rev = hint.rev /\ rule = hint.rule
         /\ grant = hint.grant /\ batch = hint.batch /\ cursor < Minute

\* admitRecurringOccurrence() and the consumption of the minute.
AdmitMinute ==
    /\ at = "admit" /\ hint.batch.minutes # {} /\ Len(occ) < MaxRuns
    /\ Fresh /\ Minute <= now /\ ~Busy /\ grant \in grants
    /\ occ' = Append(occ, Row("recurring", Minute, grant, "accepted"))
    /\ cursor' = Minute /\ nextDue' = hint.batch.next /\ observed' = now
    /\ batch' = Consumed
    /\ Rest
    /\ UNCHANGED <<sched, config, rev, rule, epoch, grant, grants, ranges,
                   emergency, now, ghosts, events>>

\* It throws: the schedule has changed; another occurrence or somebody else's
\* work is in the way, which a late minute waits for; anything else.
RefuseMinute ==
    /\ at = "admit" /\ hint.batch.minutes # {}
    /\ \/ ~Fresh /\ Rest
       \/ Fresh /\ Minute <= now /\ hint.batch.late /\ Rest
       \/ /\ Fresh /\ Minute <= now /\ ~hint.batch.late
          /\ at' = "skip" /\ UNCHANGED <<hint, cur, seen>>
       \/ at' = "stop" /\ UNCHANGED <<hint, cur, seen>>
    /\ UNCHANGED <<schedule, history, emergency, now, ghosts, events>>

Same == sched = "enabled" /\ batch = hint.batch

SkipMinute ==
    /\ at = "skip" /\ Rest
    /\ \/ /\ Same /\ Len(occ) < MaxRuns
          /\ occ' = Append(occ, Row("recurring", Minute, 0, "skipped"))
          /\ cursor' = Minute /\ batch' = Consumed
       \/ ~Same /\ UNCHANGED <<occ, cursor, batch>>
    /\ UNCHANGED <<sched, config, rev, rule, epoch, grant, grants, nextDue, observed,
                   ranges, emergency, now, ghosts, events>>

\* The quota: the rows of settled occurrences are pruned first, but there may be
\* none to prune.
NoRoom ==
    /\ Same
    /\ \/ at = "skip"
       \/ at = "admit" /\ hint.batch.minutes = {} /\ batch.late
    /\ at' = "stop"
    /\ UNCHANGED <<schedule, history, emergency, now, hint, cur, seen, ghosts, events>>

\* A clock set back, a rule without a future, a failed admission, no room.
StopSchedule ==
    /\ at = "stop" /\ Rest
    /\ sched' = IF Read THEN "attention" ELSE sched
    /\ UNCHANGED <<config, rev, rule, epoch, grant, grants, cursor, nextDue, observed,
                   batch, history, emergency, now, ghosts, events>>

\* (seeded fault) the cursor is set to the present, not to the batch's end.
FinishNow ==
    /\ at = "admit" /\ hint.batch.minutes = {} /\ Rest
    /\ IF Same
       THEN /\ ranges' = IF batch.late
                         THEN ranges \cup {[from |-> batch.from, through |-> batch.through,
                                            excluded |-> batch.excluded]}
                         ELSE ranges
            /\ cursor' = Larger(cursor, now)
            /\ nextDue' = batch.next /\ batch' = NoBatch
            /\ sched' = IF batch.next = 0 /\ ~Busy THEN "completed" ELSE sched
       ELSE UNCHANGED <<ranges, cursor, nextDue, batch, sched>>
    /\ UNCHANGED <<config, rev, rule, epoch, grant, grants, observed, occ, emergency,
                   now, ghosts, events>>

\* Nothing is left of the batch: what it omitted is entered as a range.
FinishBatch ==
    /\ at = "admit" /\ hint.batch.minutes = {} /\ Rest
    /\ IF Same
       THEN /\ ranges' = IF batch.late
                         THEN ranges \cup {[from |-> batch.from, through |-> batch.through,
                                            excluded |-> batch.excluded]}
                         ELSE ranges
            /\ cursor' = Larger(cursor, batch.through)
            /\ nextDue' = batch.next /\ batch' = NoBatch
            /\ sched' = IF batch.next = 0 /\ ~Busy THEN "completed" ELSE sched
       ELSE UNCHANGED <<ranges, cursor, nextDue, batch, sched>>
    /\ UNCHANGED <<config, rev, rule, epoch, grant, grants, observed, occ, emergency,
                   now, ghosts, events>>

-----------------------------------------------------------------------------
\* The worker: advanceOccurrence() and the catch clause around it.

AdvanceRead(o) ==
    /\ at = "idle" /\ occ[o].state \in Undispatched
    /\ at' = "advance" /\ cur' = o /\ seen' = occ[o].state
    /\ UNCHANGED <<schedule, history, emergency, now, hint, ghosts, events>>

Preparation == seen = "accepted" /\ occ[cur].alone
Ready == Authorized(cur) /\ occ[cur].state = seen

Prepare ==
    /\ at = "advance" /\ Ready /\ Preparation
    /\ occ' = [occ EXCEPT ![cur].state = "preparing", ![cur].storage = "queued"]
    /\ Rest
    /\ UNCHANGED <<schedule, ranges, emergency, now, ghosts, events>>

AdmitTurn ==
    /\ at = "advance" /\ Ready /\ ~Preparation
    /\ occ[cur].alone => occ[cur].storage = "completed"
    /\ occ' = [occ EXCEPT ![cur].state = "queued_turn", ![cur].turn = "queued"]
    /\ Rest
    /\ UNCHANGED <<schedule, ranges, emergency, now, ghosts, events>>

Pending(o) == occ[o].storage \in {"queued", "dispatching"}

\* The workspace is not there yet, or the occurrence is not what it was.
Wait ==
    /\ at = "advance" /\ Authorized(cur) /\ Rest
    /\ occ[cur].state # seen \/ (~Preparation /\ Pending(cur))
    /\ UNCHANGED <<schedule, history, emergency, now, ghosts, events>>

\* It throws: no authority, the preparation failed, the workspace is busy or
\* gone.
RefuseTurn ==
    /\ at = "advance"
    /\ \/ ~Authorized(cur) /\ at' = "failed"
       \/ Ready /\ (Preparation \/ ~Pending(cur)) /\ at' \in {"failed", "busy"}
    /\ UNCHANGED <<schedule, history, emergency, now, hint, cur, seen, ghosts, events>>

\* (seeded fault) an occurrence whose workspace was asked for is left to its
\* storage operation.
GiveUpAccepted ==
    /\ at \in {"failed", "busy"} /\ Rest
    /\ IF occ[cur].state = "accepted"
       THEN /\ Shown(cur, IF at = "busy" THEN "skipped"
                          ELSE IF sched = "paused" THEN "cancelled" ELSE "failed")
            /\ sched' = IF at = "failed" /\ sched = "enabled" THEN "attention" ELSE sched
       ELSE UNCHANGED <<occ, sched>>
    /\ UNCHANGED <<config, rev, rule, epoch, grant, grants, cursor, nextDue, observed,
                   batch, ranges, emergency, now, ghosts, events>>

GiveUp ==
    /\ at \in {"failed", "busy"} /\ Rest
    /\ IF /\ occ[cur].state \in Undispatched
          /\ ~(occ[cur].state = "preparing" /\ Pending(cur))
       THEN /\ Shown(cur, IF at = "busy" THEN "skipped"
                          ELSE IF sched = "paused" THEN "cancelled" ELSE "failed")
            /\ sched' = IF at = "failed" /\ sched = "enabled" THEN "attention" ELSE sched
       ELSE UNCHANGED <<occ, sched>>
    /\ UNCHANGED <<config, rev, rule, epoch, grant, grants, cursor, nextDue, observed,
                   batch, ranges, emergency, now, ghosts, events>>

\* settleOccurrences()
Outcome(t) == CASE t \in {"queued"} -> "queued_turn"
                [] t = "running" -> "running"
                [] t = "waiting" -> "attention"
                [] t = "interrupted" -> "cancelled"
                [] OTHER -> t
Over == {"succeeded", "failed", "interrupted", "uncertain"}

Settle(o) ==
    /\ at = "idle" /\ occ[o].state \in Watched
    /\ occ' = [occ EXCEPT ![o].state = Outcome(occ[o].turn),
                          ![o].ack = @ \/ occ[o].turnAck]
    /\ sched' = CASE sched # "enabled" -> sched
                  [] occ[o].turn = "uncertain" -> "attention"
                  [] /\ occ[o].turn \in Over /\ occ[o].kind = "recurring"
                     /\ occ[o].grant = grant /\ config.once # 0 -> "completed"
                  [] OTHER -> sched
    /\ UNCHANGED <<config, rev, rule, epoch, grant, grants, cursor, nextDue, observed,
                   batch, ranges, emergency, now, worker, ghosts, events>>

-----------------------------------------------------------------------------
\* A failure, and the owner.

Event == events < MaxEvents /\ events' = events + 1

\* A transaction fails, or the supervisor ends: the next pass reads afresh.
Abort ==
    /\ at # "idle" /\ Rest /\ Event
    /\ UNCHANGED <<schedule, history, emergency, now, ghosts>>

\* What a pause, an edit or the emergency stop finds undispatched.
Halt == halted' = halted \cup {o \in Rows : occ[o].state \in Undispatched
                                              \/ occ[o].turn = "queued"}

\* (seeded fault) the grants are left, the schedule's state is to stop them.
PauseOnly ==
    /\ Event /\ Halt
    /\ sched' = "paused" /\ batch' = NoBatch
    /\ UNCHANGED <<config, rev, rule, epoch, grant, grants, cursor, nextDue, observed,
                   history, emergency, now, worker, since, edge>>

\* pauseSchedule(): a retained pause of the same grant epoch is only answered,
\* and finds nothing else to pause.
Pause ==
    /\ Event /\ Halt
    /\ sched' = "paused" /\ batch' = NoBatch /\ grants' = {}
    /\ UNCHANGED <<config, rev, rule, epoch, grant, cursor, nextDue, observed, history,
                   emergency, now, worker, since, edge>>

Edit ==
    /\ Event /\ Halt
    /\ config' \in Config
    /\ rev' = rev + 1 /\ rule' = IF config'.once = config.once THEN rule ELSE rule + 1
    /\ sched' = "paused" /\ batch' = NoBatch /\ grant' = 0 /\ grants' = {}
    /\ UNCHANGED <<epoch, cursor, nextDue, observed, history, emergency, now, worker,
                   since, edge>>

OneShot(g) == \E o \in Rows : occ[o].grant = g /\ occ[o].kind = "manual"

\* (seeded fault) the cursor follows a clock that was set back.
ActivateNow ==
    /\ Event /\ ~emergency /\ Later(config, now) # {}
    /\ epoch' = epoch + 1 /\ grant' = epoch + 1
    /\ grants' = {g \in grants : OneShot(g)} \cup {epoch + 1}
    /\ sched' = "enabled" /\ batch' = NoBatch
    /\ cursor' = now /\ since' = now /\ edge' = {}
    /\ nextDue' = Earliest(Later(config, now)) /\ observed' = now
    /\ UNCHANGED <<config, rev, rule, history, emergency, now, worker, halted>>

\* activateSchedule(): resume or renewal, from this moment on.
Activate ==
    /\ Event /\ ~emergency /\ Later(config, now) # {}
    /\ epoch' = epoch + 1 /\ grant' = epoch + 1
    /\ grants' = {g \in grants : OneShot(g)} \cup {epoch + 1}
    /\ sched' = "enabled" /\ batch' = NoBatch
    /\ cursor' = Larger(cursor, now) /\ since' = cursor' /\ edge' = {}
    /\ nextDue' = Earliest(Later(config, now)) /\ observed' = now
    /\ UNCHANGED <<config, rev, rule, history, emergency, now, worker, halted>>

\* runScheduleNow(): a grant of its own, the schedule stays as it is.
RunNow ==
    /\ Event /\ ~emergency /\ ~Busy /\ Len(occ) < MaxRuns
    /\ epoch' = epoch + 1 /\ grants' = grants \cup {epoch + 1}
    /\ occ' = Append(occ, Row("manual", now, epoch + 1, "accepted"))
    /\ UNCHANGED <<sched, config, rev, rule, grant, cursor, nextDue, observed, batch,
                   ranges, emergency, now, worker, ghosts>>

\* cancelOccurrence() before there is a turn; a turn is cancelled by its own
\* request.
Cancel(o) ==
    /\ Event
    /\ occ[o].state \in Undispatched /\ occ[o].turn = "none"
    /\ occ' = [occ EXCEPT ![o].state = "cancelled",
                          ![o].storage = IF @ = "queued" THEN "failed" ELSE @]
    /\ UNCHANGED <<schedule, ranges, emergency, now, worker, ghosts>>

EmergencyStop ==
    /\ Event /\ ~emergency /\ emergency' = TRUE /\ Halt
    /\ sched' = "paused" /\ batch' = NoBatch /\ grants' = {}
    /\ UNCHANGED <<config, rev, rule, epoch, grant, cursor, nextDue, observed, history,
                   now, worker, since, edge>>

\* A grant ends with its time, its token or the token's rights.
Expire(g) ==
    /\ Event
    /\ g \in grants /\ grants' = grants \ {g}
    /\ UNCHANGED <<sched, config, rev, rule, epoch, grant, cursor, nextDue, observed,
                   batch, history, emergency, now, worker, ghosts>>

-----------------------------------------------------------------------------
\* The clock of the database, the dispatcher of turns, the storage service.

Tick == /\ \/ now + 1 < Horizon /\ now' = now + 1 /\ UNCHANGED events
           \/ now > 0 /\ now' = now - 1 /\ Event
        /\ UNCHANGED <<schedule, history, emergency, worker, ghosts>>

\* A queued turn is dispatched under the authority of its occurrence, which is
\* asked for once more, or refused, or cancelled.
TurnMoves(o) ==
    /\ \/ /\ occ[o].turn = "queued" /\ Authorized(o)
          /\ occ' = [occ EXCEPT ![o].turn = "running"]
       \/ /\ occ[o].turn = "queued"
          /\ \E t \in {"failed", "interrupted"} : occ' = [occ EXCEPT ![o].turn = t]
       \/ /\ occ[o].turn \in {"running", "waiting"}
          /\ \E t \in {"running", "waiting"} \cup Ends :
                t # occ[o].turn /\ occ' = [occ EXCEPT ![o].turn = t]
       \/ /\ occ[o].turn = "uncertain" /\ ~occ[o].turnAck
          /\ occ' = [occ EXCEPT ![o].turnAck = TRUE]
    /\ UNCHANGED <<schedule, ranges, emergency, now, worker, ghosts, events>>

\* processWorkspaceStorage() with the admission of a scheduled preparation.
StorageMoves(o) ==
    /\ \/ /\ occ[o].storage = "queued"
          /\ occ' = [occ EXCEPT ![o].storage = IF Authorized(o) THEN "dispatching"
                                               ELSE "failed"]
       \/ /\ occ[o].storage = "dispatching"
          /\ \E s \in {"completed", "failed"} : occ' = [occ EXCEPT ![o].storage = s]
    /\ UNCHANGED <<schedule, ranges, emergency, now, worker, ghosts, events>>

Planner == PlanRead \/ Freeze \/ AdmitMinute \/ RefuseMinute \/ SkipMinute
           \/ NoRoom \/ StopSchedule \/ FinishBatch
Advance == Prepare \/ AdmitTurn \/ Wait \/ RefuseTurn \/ GiveUp

Next ==
    \/ Planner \/ Advance \/ Abort
    \/ Pause \/ Edit \/ Activate \/ RunNow \/ EmergencyStop \/ Tick
    \/ \E g \in grants : Expire(g)
    \/ \E o \in Rows : \/ AdvanceRead(o) \/ Settle(o) \/ Cancel(o)
                       \/ TurnMoves(o) \/ StorageMoves(o)

Spec == Init /\ [][Next]_vars

\* The worker runs on a timer: a pass settles, plans and advances, none of
\* them to the exclusion of the others.  A storage operation is executed.
Fairness ==
    /\ WF_vars(Planner \/ Advance)
    /\ SF_vars(\E o \in Rows : AdvanceRead(o))
    /\ SF_vars(\E o \in Rows : Settle(o))
    /\ WF_vars(\E o \in Rows : StorageMoves(o))

LiveSpec == Spec /\ Fairness

-----------------------------------------------------------------------------
TypeOK ==
    /\ sched \in {"enabled", "paused", "attention", "completed"}
    /\ config \in Config
    /\ {rev, rule, epoch, grant, cursor, nextDue, observed, now, cur, since,
        events} \subseteq Nat
    /\ grants \subseteq 1..epoch /\ emergency \in BOOLEAN
    /\ batch.minutes \subseteq batch.excluded
    /\ hint.batch.minutes \subseteq hint.batch.excluded
    /\ \A o \in Rows :
         /\ occ[o].state \in Undispatched \cup Watched
                            \cup {"succeeded", "failed", "cancelled", "skipped"}
         /\ occ[o].storage \in {"none", "queued", "dispatching", "completed", "failed"}
         /\ occ[o].turn \in {"none", "queued", "running", "waiting"} \cup Over
    /\ at \in {"idle", "freeze", "admit", "skip", "stop", "advance", "failed", "busy"}
    /\ at \in {"advance", "failed", "busy"} <=> cur \in Rows
    /\ seen \in {"none"} \cup Undispatched
    /\ halted \subseteq Rows /\ edge \subseteq Nat

\* A minute is answered for once: however often the schedule is edited, paused
\* and renewed, the clock set back or a pass repeated, no two occurrences of
\* the rule stand for the same minute, and they come in the order of time.
OncePerMinute ==
    \A o, p \in Rows : o < p /\ occ[o].kind = "recurring" /\ occ[p].kind = "recurring"
                          => occ[o].at < occ[p].at

\* While the schedule is enabled no minute is lost: each one the cursor has
\* passed has an occurrence, or is among what a late batch entered, or is going
\* to enter, as omitted.  The exception is the edge of the grace, below.
Omitted(m, r) == r.from < m /\ m <= r.through /\ m \notin r.excluded
Answered(m) == \/ \E o \in Rows : occ[o].kind = "recurring" /\ occ[o].at = m
               \/ \E r \in ranges \cup {batch} : Omitted(m, r)
Passed == {m \in Fires(config) : since < m /\ m <= cursor}
Accounted == sched = "enabled" => \A m \in Passed : Answered(m) \/ m \in edge

\* What design/systems/003-scheduled-execution.md:55 asks for, without the
\* exception: no gap is lost silently.
NoGapLost == sched = "enabled" => \A m \in Passed : Answered(m)

\* The turns of a schedule do not overlap, those of "run now" included, and an
\* occurrence that is shown as over has no turn at work.
AtWork(o) == occ[o].turn \in {"queued", "running", "waiting"}
OneAtWork ==
    /\ \A o, p \in Rows : AtWork(o) /\ AtWork(p) => o = p
    /\ \A o \in Rows : occ[o].state \in {"succeeded", "failed", "cancelled", "skipped"}
                          => ~AtWork(o)

\* What a pause, an edit or the emergency stop found undispatched does not run
\* afterwards, even if the schedule is resumed at once.
HaltedStays ==
    [][\A o \in halted : occ[o].turn \in {"none", "queued"} => occ'[o].turn # "running"]_vars

\* An accepted occurrence is dispatched or closed, and the outcome of its turn
\* is shown, whatever the owner does and however often the supervisor restarts.
Unsettled(o) == /\ o \in Rows
                /\ \/ occ[o].state \in Undispatched
                   \/ occ[o].turn \in Over /\ occ[o].state # Outcome(occ[o].turn)
OccurrenceSettles == \A o \in 1..MaxRuns : []<>~Unsettled(o)
=============================================================================
