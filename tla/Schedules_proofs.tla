--------------------------- MODULE Schedules_proofs ---------------------------
(***************************************************************************)
(* What a schedule promises, for any rule, any number of occurrences and   *)
(* any number of interventions of the owner: a minute is answered for      *)
(* once; none is lost while the schedule is enabled, but in one case, that *)
(* it is seen when the grace of the minute before it ends; the turns do    *)
(* not overlap; and what a pause found undispatched does not run.          *)
(***************************************************************************)
EXTENDS Schedules, SequenceTheorems, FiniteSetTheorems, TLAPS

-----------------------------------------------------------------------------
(* The rows and what the planner keeps of a pass.                          *)

Closed     == {"succeeded", "failed", "cancelled", "skipped"}
Occurrence == [kind : {"recurring", "manual"}, at : Nat, rule : Nat, grant : Nat,
               alone : BOOLEAN, state : Undispatched \cup Watched \cup Closed,
               ack : BOOLEAN, turn : {"none", "queued", "running", "waiting"} \cup Over,
               turnAck : BOOLEAN,
               storage : {"none", "queued", "dispatching", "completed", "failed"}]
Omission   == [from : Nat, through : Nat, excluded : SUBSET Nat]
Batch      == [id : Nat, late : BOOLEAN, from : Nat, through : Nat, next : Nat,
               minutes : SUBSET Nat, excluded : SUBSET Nat]
Hint       == [rev : Nat, rule : Nat, epoch : Nat, grant : Nat, cursor : Nat,
               batch : Batch, now : Nat]

-----------------------------------------------------------------------------
(* The inductive invariant, in named parts.                                *)

Typed == /\ occ \in Seq(Occurrence) /\ ranges \subseteq Omission
         /\ batch \in Batch /\ hint \in Hint
         /\ cur = 0 \/ at \in {"advance", "failed", "busy"}

\* A rule is only asked for a minute it has: what was read of the schedule is
\* acted on under the same revision, and the clock leaves the last minute ahead.
Foreseen == /\ now = 0 \/ now < Horizon
            /\ hint.now = 0 \/ hint.now < Horizon
            /\ hint.rev <= rev
            /\ at = "freeze" /\ hint.rev = rev => Later(config, hint.cursor) # {}
            /\ at = "skip" => hint.batch.minutes # {}

\* An occurrence shows what its turn makes of it.
Coherent == \A o \in Rows :
    /\ occ[o].state \in Undispatched => occ[o].turn = "none"
    /\ occ[o].state \in Watched => occ[o].turn # "none"
    /\ occ[o].state = "uncertain" => occ[o].turn = "uncertain"
    /\ AtWork(o) => occ[o].state \in {"queued_turn", "running", "attention"}

\* One occurrence at a time is unresolved.
OneOpen == \A o, p \in Rows : Unresolved(o) /\ Unresolved(p) => o = p

\* Behind the cursor is what was answered for, ahead of it what a batch will be.
Behind == \A o \in Rows : occ[o].kind = "recurring" => occ[o].at <= cursor
Ahead  == \A m \in batch.minutes : cursor < m

\* A batch holds every minute of the rule up to its last one, or omits it; a
\* pass that is in time omits none, but at the edge of the grace.
Complete ==
    /\ batch.from <= cursor
    /\ \A m \in batch.excluded : m \in batch.minutes \/ m <= cursor
    /\ \A m \in Fires(config), n \in batch.minutes :
          batch.from < m /\ m <= n /\ m \notin batch.excluded => m <= batch.through
    /\ ~batch.late => \A m \in Fires(config) : Omitted(m, batch) => m \in edge

\* A grant is minted once, so a revoked one never comes back.
Minted  == grant <= epoch /\ \A o \in Rows : occ[o].grant <= epoch
Revoked == \A o \in halted : occ[o].grant \notin grants

IInv == /\ TypeOK /\ Typed /\ Foreseen /\ Coherent /\ OneOpen
        /\ Behind /\ Ahead /\ Complete /\ OncePerMinute /\ Accounted
        /\ Minted /\ Revoked

-----------------------------------------------------------------------------
(* Minutes and rows.                                                       *)

\* The earliest of some minutes is one of them, and before the others: were
\* there none, adding one would map the lower bounds into all of them but 0.
LEMMA EarliestIs ==
    ASSUME NEW S \in SUBSET Nat, S # {}
    PROVE  Earliest(S) \in S /\ \A n \in S : Earliest(S) <= n
<1> DEFINE bounds == {k \in Nat : \A n \in S : k <= n}
           next   == [k \in bounds |-> k + 1]
<1> SUFFICES \E m \in S : \A n \in S : m <= n
    BY DEF Earliest
<1> SUFFICES ASSUME \A m \in S : \E n \in S : n < m PROVE FALSE
    OBVIOUS
<1>1. PICK n \in S : TRUE
  OBVIOUS
<1>2. IsFiniteSet(bounds)
  <2>1. bounds \in SUBSET Nat /\ n \in Nat /\ \A k \in bounds : k <= n
    BY <1>1
  <2> HIDE DEF bounds
  <2> QED BY <2>1, FS_BoundedSetOfNaturals
<1>3. 0 \in bounds
  OBVIOUS
<1>4. next \in [bounds -> bounds \ {0}]
  <2> SUFFICES ASSUME NEW k \in bounds, NEW m \in S PROVE k + 1 <= m
      OBVIOUS
  <2>1. PICK l \in S : l < m
    OBVIOUS
  <2> QED BY <2>1
<1>5. IsFiniteSet(bounds \ {0}) /\ Cardinality(bounds \ {0}) < Cardinality(bounds)
  <2> HIDE DEF bounds
  <2>1. Cardinality(bounds) \in Nat
    BY <1>2, FS_CardinalityType
  <2>2. /\ IsFiniteSet(bounds \ {0})
        /\ Cardinality(bounds \ {0}) = IF 0 \in bounds THEN Cardinality(bounds) - 1
                                                       ELSE Cardinality(bounds)
    BY <1>2, FS_RemoveElement, Zenon
  <2> QED BY <1>3, <2>1, <2>2
<1>6. \A k, l \in bounds : next[k] = next[l] => k = l
  OBVIOUS
<1> HIDE DEF bounds, next
<1> QED BY <1>2, <1>4, <1>5, <1>6, FS_PigeonHole

\* The rule's minutes are natural numbers, and its earliest later one comes first.
LEMMA LaterIs ==
    ASSUME TypeOK, NEW t \in Nat, Later(config, t) # {}
    PROVE  /\ Earliest(Later(config, t)) \in Fires(config)
           /\ Earliest(Later(config, t)) \in Nat /\ t < Earliest(Later(config, t))
           /\ \A m \in Fires(config) : t < m => Earliest(Later(config, t)) <= m
<1>1. Fires(config) \subseteq Nat
  BY SchedulesAssumption DEF TypeOK, Fires
<1>2. Later(config, t) \subseteq Nat
  BY <1>1 DEF Later
<1>3. Earliest(Later(config, t)) \in Later(config, t)
      /\ \A n \in Later(config, t) : Earliest(Later(config, t)) <= n
  BY <1>2, EarliestIs
<1> QED BY <1>1, <1>3 DEF Later

\* What editing one row, and adding one, does to the rows.
LEMMA EditedRow ==
    ASSUME Typed, NEW o \in Rows, NEW r \in Occurrence, occ' = [occ EXCEPT ![o] = r]
    PROVE  /\ occ' \in Seq(Occurrence) /\ Len(occ') = Len(occ)
           /\ \A p \in Rows : p # o => occ'[p] = occ[p]
           /\ occ'[o] = r
BY ExceptSeq DEF Typed, Rows

LEMMA AddedRow ==
    ASSUME Typed, NEW r \in Occurrence, occ' = Append(occ, r)
    PROVE  /\ occ' \in Seq(Occurrence) /\ Len(occ') = Len(occ) + 1
           /\ \A p \in Rows : occ'[p] = occ[p]
           /\ occ'[Len(occ) + 1] = r
BY AppendProperties DEF Typed, Rows

\* A row is an occurrence.
LEMMA RowType ==
    Typed => /\ Len(occ) \in Nat
             /\ \A o \in Rows : o \in Nat \ {0} /\ occ[o] \in Occurrence
BY ElementOfSeq, LenProperties DEF Typed, Rows

-----------------------------------------------------------------------------
(* What a step does to the rows.                                           *)

TypeInv == TypeOK /\ Typed /\ Foreseen /\ Coherent

\* One row is changed: its workspace or its acknowledgement, its state by the
\* worker or the owner, its turn, or its state after its turn.
Changed(o) ==
    /\ occ' \in Seq(Occurrence) /\ Len(occ') = Len(occ)
    /\ \A p \in Rows : p # o => occ'[p] = occ[p]
    /\ occ'[o].kind = occ[o].kind /\ occ'[o].at = occ[o].at /\ occ'[o].grant = occ[o].grant
    /\ \/ /\ occ'[o].state = occ[o].state /\ occ'[o].ack = occ[o].ack
          /\ \/ occ'[o].turn = occ[o].turn
             \/ /\ occ[o].turn \in {"queued", "running", "waiting"}
                /\ occ'[o].turn \in {"running", "waiting"} \cup Over
                /\ occ[o].turn = "queued" /\ occ'[o].turn = "running" => Authorized(o)
       \/ /\ occ[o].state \in Undispatched
          /\ \/ occ'[o].state \in Undispatched \cup Closed /\ occ'[o].turn = occ[o].turn
             \/ occ'[o].state = "queued_turn" /\ occ'[o].turn = "queued"
       \/ /\ occ[o].state \in Watched
          /\ occ'[o].state = Outcome(occ[o].turn) /\ occ'[o].turn = occ[o].turn
          /\ occ[o].ack => occ'[o].ack

\* One row is added, for a minute that is admitted or skipped, or by the owner.
Added ==
    /\ occ' \in Seq(Occurrence) /\ Len(occ') = Len(occ) + 1
    /\ \A p \in Rows : occ'[p] = occ[p]
    /\ LET r == occ'[Len(occ) + 1] IN
       /\ r.turn = "none"
       /\ r.state = "skipped" \/ (r.state = "accepted" /\ ~Busy)
       /\ r.grant \in {0, grant, epoch'}
       /\ \/ r.kind = "manual" /\ RunNow
          \/ r.kind = "recurring" /\ r.at = Minute /\ (AdmitMinute \/ SkipMinute)

\* A row that is made is an occurrence.
LEMMA RowMade ==
    ASSUME TypeInv, NEW kind \in {"recurring", "manual"}, NEW m \in Nat, NEW g \in Nat,
           NEW s \in {"accepted", "skipped"}, occ' = Append(occ, Row(kind, m, g, s))
    PROVE  /\ occ' \in Seq(Occurrence) /\ Len(occ') = Len(occ) + 1
           /\ \A p \in Rows : occ'[p] = occ[p]
           /\ occ'[Len(occ) + 1] = Row(kind, m, g, s)
<1>1. Row(kind, m, g, s) \in Occurrence
  BY SchedulesAssumption
  DEF TypeInv, TypeOK, Row, Occurrence, Undispatched, Closed
<1> QED BY <1>1, AddedRow DEF TypeInv

\* The minute of a batch is a natural number.
LEMMA MinuteIs ==
    ASSUME Typed, hint.batch.minutes # {}
    PROVE  Minute \in hint.batch.minutes /\ Minute \in Nat
               /\ \A m \in hint.batch.minutes : Minute <= m
<1>1. hint.batch.minutes \in SUBSET Nat
  BY DEF Typed, Hint, Batch
<1> QED BY <1>1, EarliestIs DEF Minute

\* The worker's occurrence has a row.
LEMMA CurrentRow ==
    TypeInv /\ at \in {"advance", "failed", "busy"} => cur \in Rows /\ occ[cur] \in Occurrence
BY RowType DEF TypeInv, TypeOK

\* What is shown for a turn is a state.
LEMMA OutcomeType ==
    ASSUME NEW t \in {"queued", "running", "waiting"} \cup Over
    PROVE  /\ Outcome(t) \in Undispatched \cup Watched \cup Closed
           /\ Outcome(t) \notin Undispatched
           /\ t \in {"queued", "running", "waiting"} =>
                Outcome(t) \in {"queued_turn", "running", "attention"}
           /\ Outcome(t) = "uncertain" <=> t = "uncertain"
           /\ Outcome(t) \in Watched => t \in {"queued", "running", "waiting", "uncertain"}
BY DEF Outcome, Over, Undispatched, Watched, Closed

\* The worker's and the settlement's changes.
LEMMA WorkerRows ==
    ASSUME TypeInv, Advance
    PROVE  occ' = occ \/ (Changed(cur) /\ cur \in Rows)
<1> DEFINE Goal == Changed(cur) /\ cur \in Rows
<1>1. ASSUME Prepare PROVE Goal
  <2> DEFINE r == [occ[cur] EXCEPT !.state = "preparing", !.storage = "queued"]
  <2>1. cur \in Rows /\ occ[cur] \in Occurrence /\ occ[cur].state \in Undispatched
    BY <1>1, CurrentRow DEF Prepare, Ready, Preparation, Undispatched
  <2>2. r \in Occurrence /\ occ' = [occ EXCEPT ![cur] = r]
    BY <1>1, <2>1 DEF Prepare, Occurrence, Undispatched
  <2>3. occ' \in Seq(Occurrence) /\ Len(occ') = Len(occ)
        /\ (\A p \in Rows : p # cur => occ'[p] = occ[p]) /\ occ'[cur] = r
    BY <2>1, <2>2, EditedRow DEF TypeInv
  <2> QED BY <2>1, <2>3 DEF Changed, Occurrence, Undispatched
<1>2. ASSUME AdmitTurn PROVE Goal
  <2> DEFINE r == [occ[cur] EXCEPT !.state = "queued_turn", !.turn = "queued"]
  <2>1. cur \in Rows /\ occ[cur] \in Occurrence
    BY <1>2, CurrentRow DEF AdmitTurn
  <2>2. r \in Occurrence /\ occ' = [occ EXCEPT ![cur] = r]
    BY <1>2, <2>1 DEF AdmitTurn, Occurrence, Watched
  <2>3. occ' \in Seq(Occurrence) /\ Len(occ') = Len(occ)
        /\ (\A p \in Rows : p # cur => occ'[p] = occ[p]) /\ occ'[cur] = r
    BY <2>1, <2>2, EditedRow DEF TypeInv
  <2>4. occ[cur].state \in Undispatched
    BY <1>2, <2>1 DEF AdmitTurn, Ready, TypeInv, TypeOK, Occurrence, Undispatched, Watched, Closed
  <2> QED BY <2>1, <2>3, <2>4 DEF Changed, Occurrence
<1>3. ASSUME GiveUp PROVE occ' = occ \/ Goal
  <2> DEFINE s == IF at = "busy" THEN "skipped"
                  ELSE IF sched = "paused" THEN "cancelled" ELSE "failed"
             r == [occ[cur] EXCEPT !.state = s]
  <2>1. cur \in Rows /\ occ[cur] \in Occurrence
    BY <1>3, CurrentRow DEF GiveUp
  <2>2. r \in Occurrence /\ r.state \in Closed
    BY <2>1 DEF Occurrence, Closed
  <2>3. occ' = occ \/ (occ[cur].state \in Undispatched /\ occ' = [occ EXCEPT ![cur] = r])
    BY <1>3, <2>1 DEF GiveUp, Shown
  <2> SUFFICES ASSUME occ[cur].state \in Undispatched, occ' = [occ EXCEPT ![cur] = r]
               PROVE  Goal
      BY <2>3
  <2>4. occ' \in Seq(Occurrence) /\ Len(occ') = Len(occ)
        /\ (\A p \in Rows : p # cur => occ'[p] = occ[p]) /\ occ'[cur] = r
    BY <2>1, <2>2, EditedRow DEF TypeInv
  <2> QED BY <2>1, <2>2, <2>4 DEF Changed, Occurrence
<1>4. Wait \/ RefuseTurn => occ' = occ
  BY DEF Wait, RefuseTurn, history
<1> HIDE DEF Goal
<1>5. occ' = occ \/ Goal
  BY <1>1, <1>2, <1>3, <1>4 DEF Advance
<1> QED BY <1>5 DEF Goal

\* A row that is edited keeps its place.
LEMMA OneRow ==
    ASSUME TypeInv, NEW o \in Rows, NEW r \in Occurrence, occ' = [occ EXCEPT ![o] = r],
           r.kind = occ[o].kind, r.at = occ[o].at, r.grant = occ[o].grant,
           \/ /\ r.state = occ[o].state /\ r.ack = occ[o].ack
              /\ \/ r.turn = occ[o].turn
                 \/ /\ occ[o].turn \in {"queued", "running", "waiting"}
                    /\ r.turn \in {"running", "waiting"} \cup Over
                    /\ occ[o].turn = "queued" /\ r.turn = "running" => Authorized(o)
           \/ /\ occ[o].state \in Undispatched
              /\ r.state \in Closed /\ r.turn = occ[o].turn
           \/ /\ occ[o].state \in Watched
              /\ r.state = Outcome(occ[o].turn) /\ r.turn = occ[o].turn
              /\ occ[o].ack => r.ack
    PROVE  Changed(o)
<1>1. occ' \in Seq(Occurrence) /\ Len(occ') = Len(occ)
      /\ (\A p \in Rows : p # o => occ'[p] = occ[p]) /\ occ'[o] = r
  BY EditedRow DEF TypeInv
<1> QED BY <1>1 DEF Changed

\* The changes of a row that are not the worker's.
LEMMA SettleRow ==
    ASSUME TypeInv, NEW o \in Rows, Settle(o) PROVE Changed(o)
<1> DEFINE r == [occ[o] EXCEPT !.state = Outcome(occ[o].turn),
                               !.ack = @ \/ occ[o].turnAck]
<1>1. occ[o] \in Occurrence
  BY RowType DEF TypeInv
<1>2. occ[o].turn \in {"queued", "running", "waiting"} \cup Over /\ occ[o].state \in Watched
  BY <1>1 DEF TypeInv, Coherent, Settle, Occurrence
<1>3. r \in Occurrence /\ occ' = [occ EXCEPT ![o] = r]
  <2>1. Outcome(occ[o].turn) \in Undispatched \cup Watched \cup Closed
    BY <1>2, OutcomeType
  <2>2. (occ[o].ack \/ occ[o].turnAck) \in BOOLEAN
    OBVIOUS
  <2> QED BY <1>1, <2>1, <2>2 DEF Settle, Occurrence
<1>4. occ[o].ack => r.ack
  BY <1>1 DEF Occurrence
<1> QED BY <1>1, <1>2, <1>3, <1>4, OneRow DEF Occurrence

LEMMA CancelRow ==
    ASSUME TypeInv, NEW o \in Rows, Cancel(o) PROVE Changed(o)
<1> DEFINE r == [occ[o] EXCEPT !.state = "cancelled",
                               !.storage = IF @ = "queued" THEN "failed" ELSE @]
<1>1. occ[o] \in Occurrence
  BY RowType DEF TypeInv
<1>2. r \in Occurrence /\ occ' = [occ EXCEPT ![o] = r]
  BY <1>1 DEF Cancel, Occurrence, Closed
<1>3. /\ r.kind = occ[o].kind /\ r.at = occ[o].at /\ r.grant = occ[o].grant
      /\ occ[o].state \in Undispatched /\ r.state \in Closed /\ r.turn = occ[o].turn
  BY <1>1 DEF Cancel, Occurrence, Closed
<1> HIDE DEF r
<1> QED BY <1>2, <1>3, OneRow

LEMMA TurnRow ==
    ASSUME TypeInv, NEW o \in Rows, TurnMoves(o) PROVE Changed(o)
<1>1. occ[o] \in Occurrence
  BY RowType DEF TypeInv
<1>2. ASSUME NEW t \in {"running", "waiting"} \cup Over, occ' = [occ EXCEPT ![o].turn = t],
             occ[o].turn \in {"queued", "running", "waiting"},
             occ[o].turn = "queued" /\ t = "running" => Authorized(o)
      PROVE  Changed(o)
  <2> DEFINE r == [occ[o] EXCEPT !.turn = t]
  <2>1. r \in Occurrence /\ occ' = [occ EXCEPT ![o] = r]
    BY <1>1, <1>2 DEF Occurrence
  <2> QED BY <1>1, <1>2, <2>1, OneRow DEF Occurrence
<1>3. ASSUME occ' = [occ EXCEPT ![o].turnAck = TRUE] PROVE Changed(o)
  <2> DEFINE r == [occ[o] EXCEPT !.turnAck = TRUE]
  <2>1. r \in Occurrence /\ occ' = [occ EXCEPT ![o] = r]
    BY <1>1, <1>3 DEF Occurrence
  <2> QED BY <1>1, <2>1, OneRow DEF Occurrence
<1> QED BY <1>2, <1>3, SchedulesAssumption DEF TurnMoves, Over

LEMMA StorageRow ==
    ASSUME TypeInv, NEW o \in Rows, StorageMoves(o) PROVE Changed(o)
<1>1. occ[o] \in Occurrence
  BY RowType DEF TypeInv
<1>2. ASSUME NEW s \in {"dispatching", "completed", "failed"},
             occ' = [occ EXCEPT ![o].storage = s]
      PROVE  Changed(o)
  <2> DEFINE r == [occ[o] EXCEPT !.storage = s]
  <2>1. r \in Occurrence /\ occ' = [occ EXCEPT ![o] = r]
    BY <1>1, <1>2 DEF Occurrence
  <2> QED BY <1>1, <2>1, OneRow DEF Occurrence
<1>3. \E s \in {"dispatching", "completed", "failed"} : occ' = [occ EXCEPT ![o].storage = s]
  BY DEF StorageMoves
<1> QED BY <1>2, <1>3

\* The rows that are added.
LEMMA AdmittedRow ==
    ASSUME TypeInv, AdmitMinute PROVE Added
<1>1. Minute \in Nat
  BY MinuteIs DEF TypeInv, AdmitMinute
<1>2. occ' = Append(occ, Row("recurring", Minute, grant, "accepted")) /\ grant \in Nat
  BY DEF AdmitMinute, TypeInv, TypeOK
<1>3. occ' \in Seq(Occurrence) /\ Len(occ') = Len(occ) + 1
      /\ (\A p \in Rows : occ'[p] = occ[p])
      /\ occ'[Len(occ) + 1] = Row("recurring", Minute, grant, "accepted")
  BY <1>1, <1>2, RowMade
<1>4. ~Busy
  BY DEF AdmitMinute
<1> QED BY <1>3, <1>4 DEF Added, Row

LEMMA SkippedRow ==
    ASSUME TypeInv, SkipMinute PROVE occ' = occ \/ Added
<1>1. Minute \in Nat
  BY MinuteIs DEF TypeInv, SkipMinute, Foreseen
<1> SUFFICES ASSUME occ' = Append(occ, Row("recurring", Minute, 0, "skipped")) PROVE Added
    BY DEF SkipMinute
<1>3. occ' \in Seq(Occurrence) /\ Len(occ') = Len(occ) + 1
      /\ (\A p \in Rows : occ'[p] = occ[p])
      /\ occ'[Len(occ) + 1] = Row("recurring", Minute, 0, "skipped")
  BY <1>1, RowMade
<1>4. /\ Row("recurring", Minute, 0, "skipped").turn = "none"
      /\ Row("recurring", Minute, 0, "skipped").state = "skipped"
      /\ Row("recurring", Minute, 0, "skipped").grant = 0
      /\ Row("recurring", Minute, 0, "skipped").kind = "recurring"
      /\ Row("recurring", Minute, 0, "skipped").at = Minute
  BY DEF Row
<1> QED BY <1>3, <1>4 DEF Added

LEMMA OwnersRow ==
    ASSUME TypeInv, RunNow PROVE Added
<1>1. now \in Nat /\ epoch + 1 \in Nat /\ epoch' = epoch + 1 /\ ~Busy
  BY DEF TypeInv, TypeOK, RunNow
<1>2. occ' = Append(occ, Row("manual", now, epoch + 1, "accepted"))
  BY DEF RunNow
<1>3. occ' \in Seq(Occurrence) /\ Len(occ') = Len(occ) + 1
      /\ (\A p \in Rows : occ'[p] = occ[p])
      /\ occ'[Len(occ) + 1] = Row("manual", now, epoch + 1, "accepted")
  BY <1>1, <1>2, RowMade
<1> QED BY <1>1, <1>3 DEF Added, Row

\* A step leaves the rows alone, changes one or adds one.
LEMMA OccSteps ==
    ASSUME TypeInv, Next
    PROVE  \/ occ' = occ
           \/ \E o \in Rows : Changed(o)
           \/ Added
<1> DEFINE Goal == \/ occ' = occ
                   \/ \E o \in Rows : Changed(o)
                   \/ Added
<1>1. Planner => Goal
  BY AdmittedRow, SkippedRow
  DEF Planner, PlanRead, Freeze, RefuseMinute, NoRoom, StopSchedule, FinishBatch, history
<1>2. Advance => Goal
  BY WorkerRows
<1>3. Abort \/ Pause \/ Edit \/ Activate \/ EmergencyStop \/ Tick => Goal
  BY DEF Abort, Pause, Edit, Activate, EmergencyStop, Tick, history
<1>4. RunNow => Goal
  BY OwnersRow
<1>5. \A g \in grants : Expire(g) => Goal
  BY DEF Expire, history
<1>6. \A o \in Rows : AdvanceRead(o) \/ Settle(o) \/ Cancel(o) \/ TurnMoves(o) \/ StorageMoves(o)
                        => Goal
  BY SettleRow, CancelRow, TurnRow, StorageRow DEF AdvanceRead, history
<1> HIDE DEF Goal
<1>7. Goal
  BY <1>1, <1>2, <1>3, <1>4, <1>5, <1>6 DEF Next
<1> QED BY <1>7 DEF Goal

-----------------------------------------------------------------------------
(* Types.                                                                  *)

\* What is kept beside the rows.
PlanType ==
    /\ sched \in {"enabled", "paused", "attention", "completed"}
    /\ config \in Config
    /\ {rev, rule, epoch, grant, cursor, nextDue, observed, now, since, events} \subseteq Nat
    /\ grants \subseteq 1..epoch /\ emergency \in BOOLEAN
    /\ batch \in Batch /\ batch.minutes \subseteq batch.excluded
    /\ hint \in Hint /\ hint.batch.minutes \subseteq hint.batch.excluded
    /\ ranges \subseteq Omission /\ edge \subseteq Nat
    /\ at \in {"idle", "freeze", "admit", "skip", "stop", "advance", "failed", "busy"}
    /\ seen \in {"none"} \cup Undispatched

\* The rows alone, and where the worker stands.
RowTypes ==
    /\ occ \in Seq(Occurrence)
    /\ at \in {"advance", "failed", "busy"} => cur \in Rows
    /\ cur = 0 \/ at \in {"advance", "failed", "busy"}
    /\ halted \subseteq Rows

LEMMA TypeParts ==
    TypeOK /\ Typed <=> PlanType /\ RowTypes
<1>1. ASSUME TypeOK, Typed PROVE PlanType /\ RowTypes
  BY <1>1 DEF TypeOK, Typed, PlanType, RowTypes
<1>2. ASSUME PlanType, RowTypes PROVE TypeOK /\ Typed
  <2>1. Typed
    BY <1>2 DEF PlanType, RowTypes, Typed
  <2>2. Len(occ) \in Nat /\ \A o \in Rows : o \in Nat \ {0} /\ occ[o] \in Occurrence
    BY <2>1, RowType
  <2>3. cur \in Nat /\ (at \in {"advance", "failed", "busy"} <=> cur \in Rows)
    BY <1>2, <2>2 DEF RowTypes
  <2>4. \A o \in Rows :
         /\ occ[o].state \in Undispatched \cup Watched
                            \cup {"succeeded", "failed", "cancelled", "skipped"}
         /\ occ[o].storage \in {"none", "queued", "dispatching", "completed", "failed"}
         /\ occ[o].turn \in {"none", "queued", "running", "waiting"} \cup Over
    BY <2>2 DEF Occurrence, Closed
  <2>5. PlanType => /\ sched \in {"enabled", "paused", "attention", "completed"}
                    /\ config \in Config /\ grants \subseteq 1..epoch /\ emergency \in BOOLEAN
                    /\ batch.minutes \subseteq batch.excluded
                    /\ hint.batch.minutes \subseteq hint.batch.excluded
                    /\ at \in {"idle", "freeze", "admit", "skip", "stop", "advance", "failed",
                               "busy"}
                    /\ seen \in {"none"} \cup Undispatched /\ edge \subseteq Nat
                    /\ {rev, rule, epoch, grant, cursor, nextDue, observed, now, since,
                        events} \subseteq Nat
    BY DEF PlanType
  <2>6. {rev, rule, epoch, grant, cursor, nextDue, observed, now, cur, since, events}
           \subseteq Nat
    BY <1>2, <2>3, <2>5
  <2> QED BY <1>2, <2>1, <2>3, <2>4, <2>5, <2>6 DEF TypeOK, RowTypes
<1> QED BY <1>1, <1>2

\* A recurring rule always has another minute.
LEMMA AnotherMinute ==
    ASSUME TypeInv, config.once = 0
    PROVE  Later(config, hint.now) # {} /\ Later(config, now) # {}
<1>1. Fires(config) = Due
  BY DEF Fires
<1>2. PICK m \in Due : m >= Horizon
  BY SchedulesAssumption
<1>3. m \in Nat /\ m > 0 /\ Horizon \in Nat /\ now \in Nat /\ hint.now \in Nat
  BY SchedulesAssumption, <1>2 DEF TypeInv, TypeOK, Typed, Hint
<1>4. m > now /\ m > hint.now
  BY <1>2, <1>3 DEF TypeInv, Foreseen
<1> QED BY <1>1, <1>4 DEF Later

\* The choice of a pass, while the row is what was read.
LEMMA ChoiceIs ==
    ASSUME TypeInv, at = "freeze", hint.rev = rev
    PROVE  Chosen \in Batch /\ Chosen.minutes \subseteq Chosen.excluded
<1> DEFINE due == Earliest(Later(config, hint.cursor))
           minutes == CASE ~(due + Grace < hint.now) -> {due}
                        [] due + Grace < hint.now /\ config.catchUp ->
                              Recent(config, hint.cursor, hint.now)
                        [] OTHER -> {}
           last == IF config.once # 0 THEN 0 ELSE Earliest(Later(config, hint.now))
<1>1. hint.epoch \in Nat /\ hint.cursor \in Nat /\ hint.now \in Nat
  BY DEF TypeInv, Typed, Hint
<1>2. due \in Nat
  BY <1>1, LaterIs DEF TypeInv, Foreseen
<1>3. last \in Nat
  BY <1>1, LaterIs, AnotherMinute DEF TypeInv
<1>4. Fires(config) \subseteq Nat
  BY SchedulesAssumption DEF TypeInv, TypeOK, Fires
<1>5. Recent(config, hint.cursor, hint.now) \subseteq Nat
  BY <1>4 DEF Recent
<1>6. minutes \subseteq Nat
  <2> HIDE DEF due
  <2> QED BY <1>2, <1>5
<1>7. (due + Grace < hint.now) \in BOOLEAN
  OBVIOUS
<1>8. Chosen = [id |-> hint.epoch, late |-> due + Grace < hint.now, from |-> hint.cursor,
                through |-> hint.now, next |-> last, minutes |-> minutes,
                excluded |-> minutes]
  BY DEF Chosen
<1> HIDE DEF due, minutes, last
<1> QED BY <1>1, <1>3, <1>6, <1>7, <1>8 DEF Batch

\* What is left of a batch.
LEMMA ConsumedIs ==
    ASSUME Typed, hint.batch.minutes \subseteq hint.batch.excluded
    PROVE  /\ Consumed \in Batch /\ Consumed.minutes \subseteq Consumed.excluded
           /\ Consumed.minutes = hint.batch.minutes \ {Minute}
           /\ Consumed = [hint.batch EXCEPT !.minutes = hint.batch.minutes \ {Minute}]
<1>1. hint.batch \in Batch
  BY DEF Typed, Hint
<1>2. Consumed = [hint.batch EXCEPT !.minutes = hint.batch.minutes \ {Minute}]
  BY <1>1 DEF Consumed, Minute, Batch
<1> QED BY <1>1, <1>2 DEF Batch

LEMMA NoBatchIs ==
    NoBatch \in Batch /\ NoHint \in Hint /\ NoBatch.minutes = {} /\ NoBatch.excluded = {}
        /\ NoHint.batch = NoBatch
BY DEF NoBatch, NoHint, Batch, Hint

LEMMA PlanTypeStep ==
    ASSUME TypeInv, Next
    PROVE  PlanType'
<1> PlanType /\ SchedulesAssumption
  BY TypeParts, SchedulesAssumption DEF TypeInv
<1>1. Rest /\ hint' = NoHint => /\ hint' \in Hint /\ hint'.batch.minutes \subseteq hint'.batch.excluded
                                /\ at' = "idle" /\ seen' = "none"
  BY NoBatchIs DEF Rest
<1>2. ASSUME PlanRead PROVE PlanType'
  <2>1. hint' = [rev |-> rev, rule |-> rule, epoch |-> epoch, grant |-> grant,
                 cursor |-> cursor, batch |-> batch, now |-> now]
    BY <1>2 DEF PlanRead
  <2>2. hint' \in Hint /\ hint'.batch.minutes \subseteq hint'.batch.excluded
    BY <2>1 DEF PlanType, Hint
  <2>3. at' \in {"stop", "admit", "freeze"}
    BY <1>2 DEF PlanRead
  <2> QED BY <1>2, <2>2, <2>3 DEF PlanRead, PlanType, schedule, history, ghosts
<1>3. ASSUME Freeze PROVE PlanType'
  <2>1. CASE Read /\ cursor = hint.cursor /\ batch = NoBatch
    <3>1. Chosen \in Batch /\ Chosen.minutes \subseteq Chosen.excluded
      BY <1>3, <2>1, ChoiceIs DEF Freeze, Read
    <3>2. hint' = [hint EXCEPT !.batch = Chosen] /\ batch' = Chosen /\ observed' = hint.now
          /\ at' = "admit" /\ seen' = seen
      BY <1>3, <2>1 DEF Freeze
    <3>3. hint' \in Hint /\ hint'.batch.minutes \subseteq hint'.batch.excluded /\ hint.now \in Nat
      BY <3>1, <3>2 DEF PlanType, Hint
    <3>4. edge' \subseteq Nat
      BY <1>3, <2>1, <3>3 DEF Freeze, Edge, PlanType
    <3> QED BY <1>3, <3>1, <3>2, <3>3, <3>4 DEF Freeze, PlanType, history
  <2>2. CASE ~(Read /\ cursor = hint.cursor /\ batch = NoBatch)
    <3>1. Rest /\ UNCHANGED <<batch, observed, edge>>
      BY <1>3, <2>2 DEF Freeze
    <3> QED BY <1>1, <1>3, <3>1 DEF Freeze, PlanType, history, Rest
  <2> QED BY <2>1, <2>2
<1>4. ASSUME AdmitMinute PROVE PlanType'
  <2>1. Minute \in Nat /\ Consumed \in Batch /\ Consumed.minutes \subseteq Consumed.excluded
    BY <1>4, MinuteIs, ConsumedIs DEF AdmitMinute, TypeInv, TypeOK
  <2>2. hint.batch.next \in Nat
    BY DEF PlanType, Hint, Batch
  <2>3. Rest /\ cursor' = Minute /\ nextDue' = hint.batch.next /\ observed' = now
        /\ batch' = Consumed /\ ranges' = ranges
        /\ UNCHANGED <<sched, config, rev, rule, epoch, grant, grants, emergency, now,
                       ghosts, events>>
    BY <1>4 DEF AdmitMinute
  <2> QED BY <1>1, <2>1, <2>2, <2>3 DEF PlanType, Rest, ghosts
<1>5. ASSUME RefuseMinute PROVE PlanType'
  <2>1. Rest \/ (at' \in {"skip", "stop"} /\ UNCHANGED <<hint, cur, seen>>)
    BY <1>5 DEF RefuseMinute
  <2> QED BY <1>1, <1>5, <2>1 DEF RefuseMinute, PlanType, Rest, schedule, history, ghosts
<1>6. ASSUME SkipMinute PROVE PlanType'
  <2>1. Minute \in Nat /\ Consumed \in Batch /\ Consumed.minutes \subseteq Consumed.excluded
    BY <1>6, MinuteIs, ConsumedIs DEF SkipMinute, TypeInv, TypeOK, Foreseen
  <2>2. Rest /\ ranges' = ranges /\ \/ cursor' = Minute /\ batch' = Consumed
                                    \/ UNCHANGED <<cursor, batch>>
    BY <1>6 DEF SkipMinute
  <2>3. UNCHANGED <<sched, config, rev, rule, epoch, grant, grants, nextDue, observed,
                    emergency, now, ghosts, events>>
    BY <1>6 DEF SkipMinute
  <2> QED BY <1>1, <2>1, <2>2, <2>3 DEF PlanType, Rest, ghosts
<1>7. ASSUME StopSchedule PROVE PlanType'
  BY <1>1, <1>7 DEF StopSchedule, PlanType, Rest, history, ghosts
<1>8. ASSUME FinishBatch PROVE PlanType'
  <2>1. /\ Rest
        /\ UNCHANGED <<config, rev, rule, epoch, grant, grants, observed, emergency, now,
                       ghosts, events>>
    BY <1>8 DEF FinishBatch
  <2>2. batch.from \in Nat /\ batch.through \in Nat /\ batch.excluded \subseteq Nat
        /\ batch.next \in Nat
    BY DEF PlanType, Batch
  <2>3. Larger(cursor, batch.through) \in Nat
    BY <2>2 DEF Larger, PlanType
  <2>4. [from |-> batch.from, through |-> batch.through, excluded |-> batch.excluded]
           \in Omission
    BY <2>2 DEF Omission
  <2>5. ranges' \subseteq Omission
    BY <1>8, <2>4 DEF FinishBatch, PlanType
  <2>6. {cursor', nextDue'} \subseteq Nat
    BY <1>8, <2>2, <2>3 DEF FinishBatch, PlanType
  <2>7. batch' \in Batch /\ batch'.minutes \subseteq batch'.excluded
    BY <1>8, NoBatchIs DEF FinishBatch, PlanType
  <2>8. sched' \in {"enabled", "paused", "attention", "completed"}
    BY <1>8 DEF FinishBatch, PlanType
  <2> QED BY <1>1, <2>1, <2>5, <2>6, <2>7, <2>8 DEF PlanType, Rest, ghosts
<1>9. ASSUME Prepare \/ AdmitTurn \/ Wait PROVE PlanType'
  BY <1>1, <1>9 DEF Prepare, AdmitTurn, Wait, PlanType, Rest, schedule, history, ghosts
<1>10. ASSUME RefuseTurn PROVE PlanType'
  <2>1. at' \in {"failed", "busy"} /\ UNCHANGED <<hint, seen>>
    BY <1>10 DEF RefuseTurn
  <2> QED BY <1>10, <2>1 DEF RefuseTurn, PlanType, schedule, history, ghosts
<1>11. ASSUME GiveUp PROVE PlanType'
  BY <1>1, <1>11 DEF GiveUp, PlanType, Rest, ghosts
<1>12. ASSUME Abort PROVE PlanType'
  BY <1>1, <1>12 DEF Abort, Event, PlanType, Rest, schedule, history, ghosts
<1>13. ASSUME Pause \/ EmergencyStop PROVE PlanType'
  <2>1. /\ events' = events + 1 /\ sched' = "paused" /\ batch' = NoBatch /\ grants' = {}
        /\ emergency' \in {emergency, TRUE}
        /\ UNCHANGED <<config, rev, rule, epoch, grant, cursor, nextDue, observed, history,
                       now, worker, since, edge>>
    BY <1>13 DEF Pause, EmergencyStop, Event
  <2>2. events' \in Nat
    BY <2>1 DEF PlanType
  <2> QED BY <2>1, <2>2, NoBatchIs DEF PlanType, history, worker
<1>14. ASSUME Edit PROVE PlanType'
  <2>1. rev' = rev + 1 /\ rule' \in {rule, rule + 1} /\ grant' = 0 /\ events' = events + 1
        /\ config' \in Config
    BY <1>14 DEF Edit, Event
  <2>2. {rev', rule', grant', events'} \subseteq Nat
    BY <2>1 DEF PlanType
  <2>3. sched' = "paused" /\ batch' = NoBatch /\ grants' = {}
        /\ UNCHANGED <<epoch, cursor, nextDue, observed, history, emergency, now, worker,
                       since, edge>>
    BY <1>14 DEF Edit
  <2> QED BY <2>1, <2>2, <2>3, NoBatchIs DEF PlanType, history, worker
<1>15. ASSUME Activate PROVE PlanType'
  <2>1. epoch' \in Nat /\ epoch' = epoch + 1 /\ grant' = epoch + 1 /\ events' \in Nat
    BY <1>15 DEF Activate, Event, PlanType
  <2>2. Larger(cursor, now) \in Nat /\ now \in Nat
    BY DEF Larger, PlanType
  <2>3. Earliest(Later(config, now)) \in Nat
    BY <1>15, <2>2, LaterIs DEF Activate, TypeInv
  <2>4. grants' \subseteq 1..epoch'
    <3>1. \A g \in grants' : g \in grants \/ g = epoch + 1
      BY <1>15 DEF Activate
    <3>2. epoch \in Nat /\ \A g \in grants : g \in 1..epoch
      BY DEF PlanType
    <3> QED BY <2>1, <3>1, <3>2
  <2>5. sched' = "enabled" /\ batch' = NoBatch /\ cursor' = Larger(cursor, now)
        /\ since' = cursor' /\ nextDue' = Earliest(Later(config, now)) /\ observed' = now
        /\ UNCHANGED <<config, rev, rule, history, emergency, now, worker, halted>>
    BY <1>15 DEF Activate
  <2>6. edge' \subseteq Nat
    BY <1>15 DEF Activate
  <2> QED BY <2>1, <2>2, <2>3, <2>4, <2>5, <2>6, NoBatchIs DEF PlanType, history, worker
<1>16. ASSUME RunNow PROVE PlanType'
  <2>0. epoch \in Nat /\ events \in Nat /\ grants \subseteq 1..epoch
    BY DEF PlanType
  <2>1. epoch' \in Nat /\ epoch' = epoch + 1 /\ events' \in Nat
        /\ grants' = grants \cup {epoch + 1}
    BY <1>16, <2>0 DEF RunNow, Event
  <2>2. grants' \subseteq 1..epoch'
    BY <2>0, <2>1
  <2>3. UNCHANGED <<sched, config, rev, rule, grant, cursor, nextDue, observed, batch,
                    ranges, emergency, now, worker, ghosts>>
    BY <1>16 DEF RunNow
  <2> QED BY <2>1, <2>2, <2>3 DEF PlanType, worker, ghosts
<1>17. ASSUME NoRoom PROVE PlanType'
  BY <1>17 DEF NoRoom, PlanType, schedule, history, ghosts
<1>18. ASSUME Tick PROVE PlanType'
  <2>1. now' \in Nat /\ events' \in Nat
    BY <1>18 DEF Tick, Event, PlanType
  <2>2. UNCHANGED <<schedule, history, emergency, worker, ghosts>>
    BY <1>18 DEF Tick
  <2> QED BY <2>1, <2>2 DEF PlanType, schedule, history, worker, ghosts
<1>19. ASSUME NEW g \in grants, Expire(g) PROVE PlanType'
  BY <1>19 DEF Expire, Event, PlanType, history, worker, ghosts
<1>20. ASSUME NEW o \in Rows, AdvanceRead(o) PROVE PlanType'
  <2>1. at' = "advance" /\ seen' \in Undispatched
        /\ UNCHANGED <<schedule, history, emergency, now, hint, ghosts, events>>
    BY <1>20 DEF AdvanceRead
  <2> QED BY <2>1 DEF PlanType, schedule, history, ghosts
<1>21. ASSUME NEW o \in Rows, Settle(o) PROVE PlanType'
  BY <1>21 DEF Settle, PlanType, worker, ghosts
<1>22. ASSUME NEW o \in Rows, Cancel(o) PROVE PlanType'
  BY <1>22 DEF Cancel, Event, PlanType, schedule, worker, ghosts
<1>23. ASSUME NEW o \in Rows, TurnMoves(o) \/ StorageMoves(o) PROVE PlanType'
  <2>1. UNCHANGED <<schedule, ranges, emergency, now, worker, ghosts, events>>
    BY <1>23 DEF TurnMoves, StorageMoves
  <2> QED BY <2>1 DEF PlanType, schedule, worker, ghosts
<1>24. Planner => PlanType'
  BY <1>2, <1>3, <1>4, <1>5, <1>6, <1>7, <1>8, <1>17 DEF Planner
<1>25. Advance => PlanType'
  BY <1>9, <1>10, <1>11 DEF Advance
<1> QED BY <1>12, <1>13, <1>14, <1>15, <1>16, <1>18, <1>19, <1>20, <1>21, <1>22, <1>23,
            <1>24, <1>25 DEF Next

\* No row is taken back.
LEMMA RowsStay ==
    ASSUME TypeInv, Next
    PROVE  /\ occ' \in Seq(Occurrence) /\ Rows \subseteq Rows'
           /\ Len(occ) \in Nat /\ Len(occ') \in Nat
           /\ \A o \in Rows : occ'[o].kind = occ[o].kind /\ occ'[o].at = occ[o].at
                                 /\ occ'[o].grant = occ[o].grant
<1>1. Len(occ) \in Nat /\ occ \in Seq(Occurrence)
  BY RowType DEF TypeInv, Typed
<1>2. CASE occ' = occ
  BY <1>1, <1>2 DEF Rows
<1>3. ASSUME NEW o \in Rows, Changed(o)
      PROVE  /\ occ' \in Seq(Occurrence) /\ Rows = Rows' /\ Len(occ') \in Nat
             /\ \A p \in Rows : occ'[p].kind = occ[p].kind /\ occ'[p].at = occ[p].at
                                 /\ occ'[p].grant = occ[p].grant
  BY <1>1, <1>3 DEF Changed, Rows
<1>4. CASE Added
  BY <1>1, <1>4 DEF Added, Rows
<1> QED BY <1>1, <1>2, <1>3, <1>4, OccSteps

LEMMA RowTypesStep ==
    ASSUME TypeInv, Next
    PROVE  RowTypes'
<1> DEFINE W == {"advance", "failed", "busy"}
<1> RowTypes
  BY TypeParts DEF TypeInv
<1>1. occ' \in Seq(Occurrence) /\ Rows \subseteq Rows'
  BY RowsStay
<1>2. UNCHANGED <<at, cur>> => (at' \in W => cur' \in Rows) /\ (cur' = 0 \/ at' \in W)
  BY DEF RowTypes
<1>3. Rest => (at' \in W => cur' \in Rows) /\ (cur' = 0 \/ at' \in W)
  BY DEF Rest
<1>4. at \notin W /\ cur' = cur /\ at' \notin W
        => (at' \in W => cur' \in Rows) /\ (cur' = 0 \/ at' \in W)
  BY DEF RowTypes
<1>5. /\ at' \in W => cur' \in Rows
      /\ cur' = 0 \/ at' \in W
  <2>1. ASSUME Planner PROVE (at' \in W => cur' \in Rows) /\ (cur' = 0 \/ at' \in W)
    <3>1. Rest \/ (at \notin W /\ cur' = cur /\ at' \notin W)
      BY <2>1
      DEF Planner, PlanRead, Freeze, AdmitMinute, RefuseMinute, SkipMinute, NoRoom,
          StopSchedule, FinishBatch
    <3> HIDE DEF W
    <3> QED BY <1>3, <1>4, <3>1
  <2>2. ASSUME Advance PROVE (at' \in W => cur' \in Rows) /\ (cur' = 0 \/ at' \in W)
    <3>1. Rest \/ (at \in W /\ cur' = cur /\ at' \in W)
      BY <2>2 DEF Advance, Prepare, AdmitTurn, Wait, RefuseTurn, GiveUp
    <3>2. at \in W /\ cur' = cur /\ at' \in W => cur' \in Rows
      BY DEF RowTypes
    <3> QED BY <1>3, <3>1, <3>2
  <2>3. ASSUME NEW o \in Rows, AdvanceRead(o)
        PROVE  (at' \in W => cur' \in Rows) /\ (cur' = 0 \/ at' \in W)
    BY <2>3 DEF AdvanceRead
  <2>4. ASSUME \/ Pause \/ Edit \/ Activate \/ RunNow \/ EmergencyStop \/ Tick
               \/ \E g \in grants : Expire(g)
               \/ \E o \in Rows : Settle(o) \/ Cancel(o) \/ TurnMoves(o) \/ StorageMoves(o)
        PROVE  UNCHANGED <<at, cur>>
    BY <2>4
    DEF Pause, Edit, Activate, RunNow, EmergencyStop, Tick, Expire, Settle,
        Cancel, TurnMoves, StorageMoves, worker
  <2>5. Abort => Rest
    BY DEF Abort
  <2> HIDE DEF W
  <2> QED BY <1>2, <1>3, <2>1, <2>2, <2>3, <2>4, <2>5 DEF Next
<1>6. halted' \subseteq Rows
  <2>1. ASSUME Pause \/ Edit \/ EmergencyStop PROVE halted' \subseteq Rows
    BY <2>1 DEF Pause, Edit, EmergencyStop, Halt, RowTypes
  <2>2. ASSUME \/ Planner \/ Advance \/ Abort \/ Activate \/ RunNow \/ Tick
               \/ \E g \in grants : Expire(g)
               \/ \E o \in Rows : \/ AdvanceRead(o) \/ Settle(o) \/ Cancel(o)
                                  \/ TurnMoves(o) \/ StorageMoves(o)
        PROVE  halted' = halted
    BY <2>2
    DEF Planner, PlanRead, Freeze, AdmitMinute, RefuseMinute, SkipMinute, NoRoom,
        StopSchedule, FinishBatch, Advance, Prepare, AdmitTurn, Wait, RefuseTurn, GiveUp,
        Abort, Activate, RunNow, Tick, Expire, AdvanceRead, Settle, Cancel, TurnMoves,
        StorageMoves, ghosts
  <2> QED BY <2>1, <2>2 DEF Next, RowTypes
<1> QED BY <1>1, <1>5, <1>6 DEF RowTypes

LEMMA ForeseenStep ==
    ASSUME TypeInv, Next
    PROVE  Foreseen'
<1> Foreseen /\ SchedulesAssumption
  BY SchedulesAssumption DEF TypeInv
<1>0. rev \in Nat /\ hint.rev \in Nat /\ now \in Nat /\ Horizon \in Nat /\ hint.now \in Nat
      /\ hint.batch \in Batch
  BY SchedulesAssumption DEF TypeInv, TypeOK, Typed, Hint
<1>1. ASSUME Rest, now' = now, rev' = rev PROVE Foreseen'
  BY <1>0, <1>1 DEF Rest, NoHint, Foreseen
<1>2. ASSUME UNCHANGED <<at, hint, now, rev, config>> PROVE Foreseen'
  BY <1>2 DEF Foreseen, Later
<1>3. ASSUME UNCHANGED <<hint, now, rev>>, at' \notin {"freeze", "skip"} PROVE Foreseen'
  BY <1>3 DEF Foreseen
<1>4. ASSUME PlanRead PROVE Foreseen'
  <2>1. hint'.now = now /\ hint'.rev = rev /\ hint'.cursor = cursor
        /\ now' = now /\ rev' = rev /\ config' = config
    BY <1>4 DEF PlanRead, schedule
  <2>2. at' # "skip" /\ (at' = "freeze" => Later(config, cursor) # {})
    BY <1>4 DEF PlanRead
  <2> QED BY <1>0, <2>1, <2>2 DEF Foreseen, Later
<1>5. ASSUME Freeze PROVE Foreseen'
  <2>1. now' = now /\ rev' = rev
    BY <1>5 DEF Freeze
  <2>2. ASSUME at' = "admit", hint' = [hint EXCEPT !.batch = Chosen] PROVE Foreseen'
    <3>1. hint'.now = hint.now /\ hint'.rev = hint.rev
      BY <2>2 DEF TypeInv, Typed, Hint
    <3> QED BY <2>1, <2>2, <3>1 DEF Foreseen
  <2> QED BY <1>1, <1>5, <2>1, <2>2 DEF Freeze
<1>6. ASSUME RefuseMinute PROVE Foreseen'
  <2>1. now' = now /\ rev' = rev
    BY <1>6 DEF RefuseMinute, schedule
  <2>2. hint.batch.minutes # {}
    BY <1>6 DEF RefuseMinute
  <2>3. Rest \/ (at' \in {"skip", "stop"} /\ hint' = hint)
    BY <1>6 DEF RefuseMinute
  <2>4. ASSUME at' \in {"skip", "stop"}, hint' = hint PROVE Foreseen'
    BY <2>1, <2>2, <2>4 DEF Foreseen
  <2> QED BY <1>1, <2>1, <2>3, <2>4
<1>7. AdmitMinute \/ SkipMinute \/ StopSchedule \/ FinishBatch \/ Abort
        => Rest /\ now' = now /\ rev' = rev
  BY DEF AdmitMinute, SkipMinute, StopSchedule, FinishBatch, Abort, schedule
<1>8. Advance => now' = now /\ rev' = rev
                   /\ (Rest \/ (hint' = hint /\ at' \notin {"freeze", "skip"}))
  BY DEF Advance, Prepare, AdmitTurn, Wait, RefuseTurn, GiveUp, schedule
<1>9. Pause \/ Activate \/ RunNow \/ EmergencyStop
        => UNCHANGED <<at, hint, now, rev, config>>
  BY DEF Pause, Activate, RunNow, EmergencyStop, worker, schedule
<1>10. ASSUME NEW g \in grants, Expire(g) PROVE UNCHANGED <<at, hint, now, rev, config>>
  BY <1>10 DEF Expire, worker
<1>11. ASSUME NEW o \in Rows, Settle(o) \/ Cancel(o) \/ TurnMoves(o) \/ StorageMoves(o)
       PROVE  UNCHANGED <<at, hint, now, rev, config>>
  BY <1>11 DEF Settle, Cancel, TurnMoves, StorageMoves, worker, schedule
<1>12. ASSUME NEW o \in Rows, AdvanceRead(o)
       PROVE  UNCHANGED <<hint, now, rev>> /\ at' \notin {"freeze", "skip"}
  BY <1>12 DEF AdvanceRead, schedule
<1>13. ASSUME Edit PROVE Foreseen'
  <2>1. rev' = rev + 1 /\ UNCHANGED <<now, at, hint>>
    BY <1>13 DEF Edit, worker
  <2>2. hint'.rev <= rev' /\ hint'.rev # rev'
    BY <1>0, <2>1 DEF Foreseen
  <2> QED BY <2>1, <2>2 DEF Foreseen
<1>14. ASSUME Tick PROVE Foreseen'
  <2>1. UNCHANGED <<at, hint, rev, config>>
    BY <1>14 DEF Tick, worker, schedule
  <2>2. now' = 0 \/ now' < Horizon
    BY <1>0, <1>14 DEF Tick, Foreseen
  <2> QED BY <2>1, <2>2 DEF Foreseen, Later
<1>15. Planner => Foreseen'
  <2>1. NoRoom => UNCHANGED <<hint, now, rev>> /\ at' \notin {"freeze", "skip"}
    BY DEF NoRoom, schedule
  <2> QED BY <1>1, <1>3, <1>4, <1>5, <1>6, <1>7, <2>1 DEF Planner
<1>16. Advance => Foreseen'
  BY <1>1, <1>3, <1>8
<1> QED BY <1>1, <1>2, <1>3, <1>7, <1>9, <1>10, <1>11, <1>12, <1>13, <1>14, <1>15, <1>16
        DEF Next

\* An occurrence goes on showing what its turn makes of it, and one that is
\* unresolved was before.
LEMMA CoherentStep ==
    ASSUME TypeInv, OneOpen, Next
    PROVE  Coherent' /\ OneOpen'
<1> Coherent /\ Typed
  BY DEF TypeInv
<1>0. Len(occ) \in Nat /\ \A o \in Rows : o \in Nat \ {0} /\ occ[o] \in Occurrence
  BY RowType
<1>1. CASE occ' = occ
  BY <1>1 DEF Coherent, OneOpen, Rows, AtWork, Unresolved
<1>2. ASSUME NEW o \in Rows, Changed(o) PROVE Coherent' /\ OneOpen'
  <2>1. Rows' = Rows /\ \A p \in Rows : p # o => occ'[p] = occ[p]
    BY <1>2 DEF Changed, Rows
  <2>2. occ'[o] \in Occurrence
    BY <1>2, <2>1, <1>0, ElementOfSeq DEF Changed, Rows
  <2>3. /\ occ[o].state \in Undispatched => occ[o].turn = "none"
        /\ occ[o].state \in Watched => occ[o].turn # "none"
        /\ occ[o].state = "uncertain" => occ[o].turn = "uncertain"
        /\ AtWork(o) => occ[o].state \in {"queued_turn", "running", "attention"}
    BY DEF Coherent
  <2>4. /\ occ'[o].state \in Undispatched => occ'[o].turn = "none"
        /\ occ'[o].state \in Watched => occ'[o].turn # "none"
        /\ occ'[o].state = "uncertain" => occ'[o].turn = "uncertain"
        /\ occ'[o].turn \in {"queued", "running", "waiting"}
             => occ'[o].state \in {"queued_turn", "running", "attention"}
        /\ Unresolved(o)' => Unresolved(o)
    <3>1. CASE /\ occ'[o].state = occ[o].state /\ occ'[o].ack = occ[o].ack
               /\ \/ occ'[o].turn = occ[o].turn
                  \/ /\ occ[o].turn \in {"queued", "running", "waiting"}
                     /\ occ'[o].turn \in {"running", "waiting"} \cup Over
      BY <2>3, <3>1 DEF AtWork, Unresolved, Undispatched, Watched, Over
    <3>2. CASE /\ occ[o].state \in Undispatched
               /\ \/ occ'[o].state \in Undispatched \cup Closed /\ occ'[o].turn = occ[o].turn
                  \/ occ'[o].state = "queued_turn" /\ occ'[o].turn = "queued"
      BY <2>3, <3>2 DEF AtWork, Unresolved, Undispatched, Watched, Closed
    <3>3. CASE /\ occ[o].state \in Watched
               /\ occ'[o].state = Outcome(occ[o].turn) /\ occ'[o].turn = occ[o].turn
               /\ occ[o].ack => occ'[o].ack
      <4>1. occ[o].turn \in {"queued", "running", "waiting"} \cup Over
        BY <1>0, <2>3, <3>3 DEF Occurrence
      <4>2. /\ occ'[o].state \notin Undispatched
            /\ occ[o].turn \in {"queued", "running", "waiting"} =>
                 occ'[o].state \in {"queued_turn", "running", "attention"}
            /\ occ'[o].state = "uncertain" <=> occ[o].turn = "uncertain"
        BY <4>1, <3>3, OutcomeType
      <4>3. Unresolved(o)' => Unresolved(o)
        <5>1. occ[o].state # "uncertain" => Unresolved(o)
          BY <3>3 DEF Unresolved
        <5>2. occ[o].state = "uncertain" => occ'[o].state = "uncertain"
          BY <2>3, <4>2
        <5> QED BY <5>1, <5>2, <3>3 DEF Unresolved, Undispatched, Watched
      <4> QED BY <2>3, <3>3, <4>2, <4>3
    <3> QED BY <1>2, <3>1, <3>2, <3>3 DEF Changed
  <2>5. \A p \in Rows : p # o => (Unresolved(p)' <=> Unresolved(p))
    BY <2>1 DEF Unresolved
  <2>6. OneOpen'
    BY <2>1, <2>4, <2>5 DEF OneOpen
  <2>7. Coherent'
    BY <2>1, <2>4 DEF Coherent, AtWork
  <2> QED BY <2>6, <2>7
<1>3. ASSUME Added PROVE Coherent' /\ OneOpen'
  <2>0. PICK n \in Nat : n = Len(occ) + 1
    BY <1>0
  <2>1. /\ Rows' = Rows \cup {n} /\ n \notin Rows
        /\ \A p \in Rows : occ'[p] = occ[p]
    BY <1>0, <1>3, <2>0 DEF Added, Rows
  <2>2. occ'[n].turn = "none" /\ (occ'[n].state = "skipped" \/ (occ'[n].state = "accepted" /\ ~Busy))
    BY <1>3, <2>0 DEF Added
  <2>3. Coherent'
    <3>1. \A p \in Rows : (AtWork(p)' <=> AtWork(p))
      BY <2>1 DEF AtWork
    <3>2. ~AtWork(n)'
      BY <2>2 DEF AtWork
    <3>3. occ'[n].state \in {"skipped", "accepted"}
      BY <2>2
    <3> QED BY <2>1, <2>2, <3>1, <3>2, <3>3 DEF Coherent, Undispatched, Watched
  <2>4. \A p \in Rows : Unresolved(p)' <=> Unresolved(p)
    BY <2>1 DEF Unresolved
  <2>5. Unresolved(n)' => \A p \in Rows : ~Unresolved(p)
    BY <2>2 DEF Unresolved, Undispatched, Watched, Busy
  <2>6. OneOpen'
    BY <2>1, <2>4, <2>5 DEF OneOpen
  <2> QED BY <2>3, <2>6
<1> QED BY <1>1, <1>2, <1>3, OccSteps

LEMMA TypeStep ==
    ASSUME TypeInv, OneOpen, Next
    PROVE  TypeInv' /\ OneOpen'
<1>1. TypeOK' /\ Typed'
  <2>1. PlanType' /\ RowTypes'
    BY PlanTypeStep, RowTypesStep
  <2>2. (TypeOK /\ Typed)' <=> (PlanType /\ RowTypes)'
    BY TypeParts, PTL
  <2> QED BY <2>1, <2>2
<1> QED BY <1>1, ForeseenStep, CoherentStep DEF TypeInv

-----------------------------------------------------------------------------
(* What a step does to the plan.                                           *)

PlanInv == Behind /\ Ahead /\ Complete /\ OncePerMinute /\ Accounted

\* Nothing that a minute is accounted by is touched.
Still == /\ UNCHANGED <<config, cursor, batch, ranges, since, edge>>
         /\ sched' = "enabled" => sched = "enabled"
         /\ \A o \in Rows' : occ'[o].kind = "recurring" => o \in Rows

\* The schedule is halted, and its batch dropped.
Halting == /\ sched' = "paused" /\ batch' = NoBatch
           /\ UNCHANGED <<cursor, ranges, since, edge, occ>>

\* A pass is chosen.
Freezing == /\ at = "freeze" /\ hint.rev = rev /\ cursor = hint.cursor
            /\ batch = NoBatch /\ batch' = Chosen
            /\ edge' = edge \cup Edge
            /\ UNCHANGED <<sched, config, cursor, ranges, since, occ>>

\* The first minute of the batch is answered for by a new row.
Consuming == /\ hint.batch.minutes # {} /\ batch = hint.batch
             /\ cursor' = Minute /\ batch' = Consumed
             /\ UNCHANGED <<sched, config, ranges, since, edge>>
             /\ occ' \in Seq(Occurrence) /\ Len(occ') = Len(occ) + 1
             /\ \A p \in Rows : occ'[p] = occ[p]
             /\ occ'[Len(occ) + 1].kind = "recurring" /\ occ'[Len(occ) + 1].at = Minute

\* A batch is done with.
Finishing == /\ batch.minutes = {}
             /\ ranges' = IF batch.late
                          THEN ranges \cup {[from |-> batch.from, through |-> batch.through,
                                             excluded |-> batch.excluded]}
                          ELSE ranges
             /\ cursor' = Larger(cursor, batch.through) /\ batch' = NoBatch
             /\ sched = "enabled" /\ UNCHANGED <<config, since, edge, occ>>

\* Only the planner adds rows of the rule.
LEMMA NoNewMinute ==
    ASSUME TypeInv, Next, ~(AdmitMinute \/ SkipMinute)
    PROVE  \A o \in Rows' : occ'[o].kind = "recurring" => o \in Rows
<1>1. Len(occ) \in Nat
  BY RowType DEF TypeInv
<1>2. ASSUME NEW o \in Rows, Changed(o) PROVE Rows' = Rows
  BY <1>2 DEF Changed, Rows
<1>3. ASSUME Added PROVE Rows' = Rows \cup {Len(occ) + 1}
                         /\ occ'[Len(occ) + 1].kind = "manual"
  BY <1>1, <1>3 DEF Added, Rows
<1>4. occ' = occ => Rows' = Rows
  BY DEF Rows
<1>5. Rows' = Rows \/ Added
  BY <1>2, <1>4, OccSteps
<1> QED BY <1>3, <1>5

LEMMA PlanSteps ==
    ASSUME TypeInv, Next
    PROVE  Still \/ Halting \/ Activate \/ Freezing \/ Consuming \/ Finishing
<1>1. ASSUME AdmitMinute PROVE Consuming
  <2>1. Minute \in Nat /\ grant \in Nat
    BY <1>1, MinuteIs DEF TypeInv, TypeOK, AdmitMinute
  <2>2. occ' = Append(occ, Row("recurring", Minute, grant, "accepted"))
    BY <1>1 DEF AdmitMinute
  <2>3. occ' \in Seq(Occurrence) /\ Len(occ') = Len(occ) + 1
        /\ (\A p \in Rows : occ'[p] = occ[p])
        /\ occ'[Len(occ) + 1] = Row("recurring", Minute, grant, "accepted")
    BY <2>1, <2>2, RowMade
  <2>4. Row("recurring", Minute, grant, "accepted").kind = "recurring"
        /\ Row("recurring", Minute, grant, "accepted").at = Minute
    BY DEF Row
  <2>5. /\ hint.batch.minutes # {} /\ batch = hint.batch
        /\ cursor' = Minute /\ batch' = Consumed
        /\ UNCHANGED <<sched, config, ranges, since, edge>>
    BY <1>1 DEF AdmitMinute, Fresh, ghosts
  <2> QED BY <2>3, <2>4, <2>5 DEF Consuming
<1>2. ASSUME SkipMinute PROVE Consuming \/ Still
  <2>0. UNCHANGED <<sched, config, ranges, since, edge>>
    BY <1>2 DEF SkipMinute, ghosts
  <2>1. CASE /\ Same /\ Len(occ) < MaxRuns
             /\ occ' = Append(occ, Row("recurring", Minute, 0, "skipped"))
             /\ cursor' = Minute /\ batch' = Consumed
    <3>1. Minute \in Nat /\ hint.batch.minutes # {}
      BY <1>2, MinuteIs DEF TypeInv, Foreseen, SkipMinute
    <3>2. /\ occ' = Append(occ, Row("recurring", Minute, 0, "skipped"))
          /\ cursor' = Minute /\ batch' = Consumed
      BY <2>1
    <3>3. occ' \in Seq(Occurrence) /\ Len(occ') = Len(occ) + 1
          /\ (\A p \in Rows : occ'[p] = occ[p])
          /\ occ'[Len(occ) + 1] = Row("recurring", Minute, 0, "skipped")
      BY <3>1, <3>2, RowMade
    <3>4. Row("recurring", Minute, 0, "skipped").kind = "recurring"
          /\ Row("recurring", Minute, 0, "skipped").at = Minute
      BY DEF Row
    <3> QED BY <2>0, <2>1, <3>1, <3>2, <3>3, <3>4 DEF Consuming, Same
  <2>2. CASE UNCHANGED <<occ, cursor, batch>>
    BY <2>0, <2>2 DEF Still, Rows
  <2> QED BY <1>2, <2>1, <2>2 DEF SkipMinute
<1> SUFFICES ASSUME ~(AdmitMinute \/ SkipMinute)
             PROVE  Still \/ Halting \/ Activate \/ Freezing \/ Consuming \/ Finishing
    BY <1>1, <1>2
<1> DEFINE Calm == /\ UNCHANGED <<config, cursor, batch, ranges, since, edge>>
                   /\ sched' = "enabled" => sched = "enabled"
<1>3. Calm => Still
  BY NoNewMinute DEF Still
<1>4. ASSUME Freeze PROVE Calm \/ Freezing
  BY <1>4 DEF Freeze, Freezing, Read, history
<1>5. ASSUME FinishBatch PROVE Calm \/ Finishing
  BY <1>5 DEF FinishBatch, Finishing, Same, ghosts
<1>6. PlanRead \/ RefuseMinute \/ NoRoom \/ StopSchedule => Calm
  BY DEF PlanRead, RefuseMinute, NoRoom, StopSchedule, schedule, history, ghosts
<1>7. Advance => Calm
  BY DEF Advance, Prepare, AdmitTurn, Wait, RefuseTurn, GiveUp, schedule, history, ghosts
<1>8. Abort \/ RunNow \/ Tick => Calm
  BY DEF Abort, RunNow, Tick, schedule, history, ghosts
<1>9. ASSUME NEW g \in grants, Expire(g) PROVE Calm
  BY <1>9 DEF Expire, history, ghosts
<1>10. ASSUME NEW o \in Rows,
              AdvanceRead(o) \/ Settle(o) \/ Cancel(o) \/ TurnMoves(o) \/ StorageMoves(o)
       PROVE  Calm
  <2>1. ASSUME Settle(o) PROVE Calm
    BY <2>1 DEF Settle, ghosts
  <2>2. ASSUME AdvanceRead(o) \/ Cancel(o) \/ TurnMoves(o) \/ StorageMoves(o) PROVE Calm
    BY <2>2 DEF AdvanceRead, Cancel, TurnMoves, StorageMoves, schedule, history, ghosts
  <2> QED BY <1>10, <2>1, <2>2
<1>11. Pause \/ Edit \/ EmergencyStop => Halting
  BY DEF Pause, Edit, EmergencyStop, Halting, history
<1> HIDE DEF Calm
<1> QED BY <1>3, <1>4, <1>5, <1>6, <1>7, <1>8, <1>9, <1>10, <1>11 DEF Next, Planner

-----------------------------------------------------------------------------
(* The minutes stay accounted for.                                         *)

\* What is no batch omits nothing, and asks for nothing.
LEMMA NothingOmitted ==
    ASSUME NEW m \in Nat PROVE ~Omitted(m, NoBatch)
BY DEF Omitted, NoBatch

LEMMA FiresAre == TypeOK => Fires(config) \subseteq Nat
BY SchedulesAssumption DEF TypeOK, Fires

\* Rows that no row of the rule joins stand for the minutes they stood for.
LEMMA SameMinutes ==
    ASSUME TypeInv, Next, OncePerMinute,
           \A o \in Rows' : occ'[o].kind = "recurring" => o \in Rows
    PROVE  /\ OncePerMinute'
           /\ \A m : (\E o \in Rows : occ[o].kind = "recurring" /\ occ[o].at = m)
                        => \E o \in Rows' : occ'[o].kind = "recurring" /\ occ'[o].at = m
<1>1. Rows \subseteq Rows' /\ \A o \in Rows : occ'[o].kind = occ[o].kind /\ occ'[o].at = occ[o].at
  BY RowsStay
<1>2. OncePerMinute'
  BY <1>1 DEF OncePerMinute
<1> QED BY <1>1, <1>2

LEMMA StillStep ==
    ASSUME TypeInv, Next, PlanInv, Still PROVE PlanInv'
<1>1. Rows \subseteq Rows' /\ \A o \in Rows : occ'[o].kind = occ[o].kind /\ occ'[o].at = occ[o].at
  BY RowsStay
<1>2. OncePerMinute' /\ \A m : (\E o \in Rows : occ[o].kind = "recurring" /\ occ[o].at = m)
                        => \E o \in Rows' : occ'[o].kind = "recurring" /\ occ'[o].at = m
  BY SameMinutes DEF PlanInv, Still
<1>3. Behind' /\ Ahead'
  BY <1>1 DEF Still, PlanInv, Behind, Ahead
<1>4. Complete'
  BY DEF Still, PlanInv, Complete, Fires, Omitted
<1>5. Accounted'
  <2> SUFFICES ASSUME sched' = "enabled", NEW m \in Fires(config), since < m, m <= cursor
               PROVE  \/ \E o \in Rows' : occ'[o].kind = "recurring" /\ occ'[o].at = m
                      \/ \E r \in ranges \cup {batch} : Omitted(m, r)
                      \/ m \in edge
      BY DEF Accounted, Passed, Answered, Still, Fires, Omitted
  <2>1. \/ \E o \in Rows : occ[o].kind = "recurring" /\ occ[o].at = m
        \/ \E r \in ranges \cup {batch} : Omitted(m, r)
        \/ m \in edge
    BY DEF PlanInv, Accounted, Passed, Answered, Still, Fires
  <2> QED BY <1>2, <2>1
<1> QED BY <1>2, <1>3, <1>4, <1>5 DEF PlanInv

LEMMA HaltingStep ==
    ASSUME TypeInv, Next, PlanInv, Halting PROVE PlanInv'
<1>1. OncePerMinute' /\ Behind'
  BY DEF Halting, PlanInv, OncePerMinute, Behind, Rows
<1>2. Ahead'
  BY NoBatchIs DEF Halting, Ahead
<1>3. Complete'
  <2>1. Fires(config)' \subseteq Nat
    <3>1. config' \in Config
      BY PlanTypeStep DEF PlanType
    <3> QED BY <3>1, SchedulesAssumption DEF Fires
  <2>2. NoBatch.from = 0 /\ NoBatch.excluded = {} /\ NoBatch.minutes = {}
    BY DEF NoBatch
  <2>3. \A m \in Nat : ~Omitted(m, NoBatch)
    BY NothingOmitted
  <2>4. cursor \in Nat
    BY DEF TypeInv, TypeOK
  <2> QED BY <2>1, <2>2, <2>3, <2>4 DEF Halting, Complete, Omitted
<1>4. Accounted'
  BY DEF Halting, Accounted
<1> QED BY <1>1, <1>2, <1>3, <1>4 DEF PlanInv

LEMMA ActivateStep ==
    ASSUME TypeInv, Next, PlanInv, Activate PROVE PlanInv'
<1>0. cursor \in Nat /\ now \in Nat /\ cursor' = Larger(cursor, now)
      /\ UNCHANGED <<occ, config>> /\ since' = cursor' /\ batch' = NoBatch
  BY DEF TypeInv, TypeOK, Activate, history
<1>1. cursor' \in Nat /\ cursor <= cursor'
  BY <1>0 DEF Larger
<1>2. Fires(config) \subseteq Nat
  BY FiresAre DEF TypeInv
<1>3. \A o \in Rows : occ[o].at \in Nat
  BY RowType DEF TypeInv, Occurrence
<1>4. OncePerMinute' /\ Behind'
  <2>1. \A o \in Rows : occ[o].kind = "recurring" => occ[o].at <= cursor'
    BY <1>0, <1>1, <1>3 DEF PlanInv, Behind
  <2> QED BY <1>0, <2>1 DEF PlanInv, OncePerMinute, Behind, Rows
<1>5. Ahead'
  BY <1>0, NoBatchIs DEF Ahead
<1>6. Complete'
  <2>1. NoBatch.from = 0 /\ NoBatch.excluded = {} /\ NoBatch.minutes = {}
    BY DEF NoBatch
  <2>2. \A m \in Nat : ~Omitted(m, NoBatch)
    BY NothingOmitted
  <2> QED BY <1>0, <1>1, <1>2, <2>1, <2>2 DEF Complete, Omitted, Fires
<1>7. Accounted'
  <2>1. \A m \in Nat : ~(since' < m /\ m <= cursor')
    BY <1>0, <1>1
  <2> QED BY <1>0, <1>2, <2>1 DEF Accounted, Passed, Fires
<1> QED BY <1>4, <1>5, <1>6, <1>7 DEF PlanInv

LEMMA FreezingStep ==
    ASSUME TypeInv, Next, PlanInv, Freezing PROVE PlanInv'
<1> DEFINE due == Earliest(Later(config, hint.cursor))
           minutes == CASE ~(due + Grace < hint.now) -> {due}
                        [] due + Grace < hint.now /\ config.catchUp ->
                              Recent(config, hint.cursor, hint.now)
                        [] OTHER -> {}
<1>0. hint.cursor \in Nat /\ hint.now \in Nat /\ Fires(config) \subseteq Nat /\ cursor = hint.cursor
  BY FiresAre DEF TypeInv, Typed, Hint, Freezing
<1>1. due \in Fires(config) /\ due \in Nat /\ hint.cursor < due
      /\ \A m \in Fires(config) : hint.cursor < m => due <= m
  BY <1>0, LaterIs DEF TypeInv, Foreseen, Freezing
<1>2. \A m \in Recent(config, hint.cursor, hint.now) :
         m \in Fires(config) /\ hint.cursor < m /\ m <= hint.now
  BY <1>0 DEF Recent
<1>3. /\ batch'.late = (due + Grace < hint.now) /\ batch'.from = hint.cursor
      /\ batch'.through = hint.now /\ batch'.minutes = minutes /\ batch'.excluded = minutes
  BY DEF Freezing, Chosen
<1>4. \A n \in minutes : n \in Fires(config) /\ hint.cursor < n
                           /\ (n = due \/ n <= hint.now)
  <2> HIDE DEF due
  <2> QED BY <1>1, <1>2
<1>5. ~(due + Grace < hint.now) => minutes = {due}
  BY DEF minutes
<1>5a. /\ Grace \in Nat
       /\ \A m \in Fires(config) : due < m => due + Grace <= m
  BY <1>0, <1>1, SchedulesAssumption DEF Fires
<1>5b. Edge = {m \in Fires(config) : m = hint.now /\ due + Grace = m}
  BY DEF Edge
<1> HIDE DEF due, minutes
<1>6. OncePerMinute' /\ Behind'
  BY DEF Freezing, PlanInv, OncePerMinute, Behind, Rows
<1>7. Ahead'
  BY <1>0, <1>3, <1>4 DEF Ahead, Freezing
<1>8. Complete'
  <2>1. batch'.from <= cursor'
    BY <1>0, <1>3 DEF Freezing
  <2>2. \A m \in batch'.excluded : m \in batch'.minutes \/ m <= cursor'
    BY <1>3
  <2>3. ASSUME NEW m \in Fires(config), NEW n \in minutes,
               hint.cursor < m, m <= n, m \notin minutes
        PROVE  m <= hint.now
    <3>1. n \in Nat /\ m \in Nat /\ due <= m
      BY <1>0, <1>1, <1>4, <2>3
    <3>2. CASE n <= hint.now
      BY <1>0, <2>3, <3>1, <3>2
    <3>3. CASE n = due
      <4>1. m = due
        BY <1>1, <2>3, <3>1, <3>3
      <4>2. m \in minutes
        BY <3>3, <4>1
      <4> QED BY <2>3, <4>2
    <3> QED BY <1>4, <3>2, <3>3
  <2>4. ASSUME ~(due + Grace < hint.now), NEW m \in Fires(config),
               hint.cursor < m, m <= hint.now, m \notin minutes
        PROVE  m \in edge'
    <3>1. due < m
      BY <1>0, <1>1, <1>5, <2>4
    <3>2. m = hint.now /\ due + Grace = m
      BY <1>0, <1>1, <1>5a, <2>4, <3>1
    <3> QED BY <1>5b, <3>2 DEF Freezing
  <2>5. config' = config
    BY DEF Freezing
  <2> QED BY <1>3, <2>1, <2>2, <2>3, <2>4, <2>5 DEF Complete, Omitted, Fires
<1>9. Accounted'
  <2> SUFFICES ASSUME sched = "enabled", NEW m \in Fires(config), since < m, m <= cursor
               PROVE  \/ \E o \in Rows : occ[o].kind = "recurring" /\ occ[o].at = m
                      \/ \E r \in ranges : Omitted(m, r)
                      \/ m \in edge
      BY DEF Accounted, Passed, Answered, Freezing, Rows, Fires, Omitted
  <2>1. \/ \E o \in Rows : occ[o].kind = "recurring" /\ occ[o].at = m
        \/ \E r \in ranges \cup {NoBatch} : Omitted(m, r)
        \/ m \in edge
    BY DEF PlanInv, Accounted, Passed, Answered, Freezing
  <2>2. ~Omitted(m, NoBatch)
    BY <1>0, NothingOmitted
  <2> QED BY <2>1, <2>2
<1> QED BY <1>6, <1>7, <1>8, <1>9 DEF PlanInv

LEMMA ConsumingStep ==
    ASSUME TypeInv, Next, PlanInv, Consuming PROVE PlanInv'
<1>0. PICK n \in Nat \ {0} : n = Len(occ) + 1
  BY RowType DEF TypeInv
<1>1. Rows' = Rows \cup {n} /\ n \notin Rows /\ \A p \in Rows : p \in Nat /\ p < n
  BY <1>0, RowType DEF TypeInv, Consuming, Rows
<1>2. occ'[n].kind = "recurring" /\ occ'[n].at = Minute /\ \A p \in Rows : occ'[p] = occ[p]
  BY <1>0 DEF Consuming
<1>3. Minute \in batch.minutes /\ Minute \in Nat /\ \A m \in batch.minutes : Minute <= m
  BY MinuteIs DEF TypeInv, Consuming
<1>4. cursor < Minute /\ cursor' = Minute /\ cursor \in Nat
  BY <1>3 DEF PlanInv, Ahead, Consuming, TypeInv, TypeOK
<1>5. /\ batch'.minutes = batch.minutes \ {Minute} /\ batch'.late = batch.late
      /\ batch'.from = batch.from /\ batch'.through = batch.through
      /\ batch'.excluded = batch.excluded
  <2>1. batch' = [batch EXCEPT !.minutes = batch.minutes \ {Minute}]
    BY ConsumedIs DEF TypeInv, TypeOK, Consuming
  <2> QED BY <2>1 DEF TypeInv, Typed, Batch
<1>6. /\ Fires(config) \subseteq Nat /\ batch.minutes \subseteq Nat
      /\ batch.excluded \subseteq Nat /\ batch.from \in Nat /\ batch.through \in Nat
  BY FiresAre DEF TypeInv, Typed, Batch
<1>7. \A o \in Rows : occ[o].at \in Nat
  BY RowType DEF TypeInv, Occurrence
<1>8. Behind'
  BY <1>1, <1>2, <1>3, <1>4, <1>7 DEF PlanInv, Behind
<1>9. OncePerMinute'
  <2>1. \A o \in Rows : occ[o].kind = "recurring" => occ[o].at < Minute
    BY <1>3, <1>4, <1>7 DEF PlanInv, Behind
  <2> QED BY <1>1, <1>2, <2>1 DEF PlanInv, OncePerMinute
<1>10. Ahead'
  BY <1>3, <1>4, <1>5, <1>6 DEF Ahead
<1>11. Complete'
  <2>1. batch.from <= Minute
    BY <1>3, <1>4, <1>6 DEF PlanInv, Complete
  <2>2. \A m \in batch.excluded : m \in batch.minutes \ {Minute} \/ m <= Minute
    BY <1>3, <1>4, <1>6 DEF PlanInv, Complete
  <2>3. config' = config /\ edge' = edge
    BY DEF Consuming
  <2> QED BY <1>4, <1>5, <2>1, <2>2, <2>3 DEF PlanInv, Complete, Fires, Omitted
<1>12. Accounted'
  <2> SUFFICES ASSUME sched = "enabled", NEW m \in Fires(config), since < m, m <= Minute
               PROVE  \/ \E o \in Rows' : occ'[o].kind = "recurring" /\ occ'[o].at = m
                      \/ \E r \in ranges \cup {batch} : Omitted(m, r)
                      \/ m \in edge
      BY <1>4, <1>5 DEF Accounted, Passed, Answered, Consuming, Fires, Omitted
  <2>1. CASE m <= cursor
    <3>1. \/ \E o \in Rows : occ[o].kind = "recurring" /\ occ[o].at = m
          \/ \E r \in ranges \cup {batch} : Omitted(m, r)
          \/ m \in edge
      BY <2>1 DEF PlanInv, Accounted, Passed, Answered
    <3> QED BY <1>1, <1>2, <3>1
  <2>2. CASE m = Minute
    BY <1>1, <1>2, <2>2
  <2>3. CASE cursor < m /\ m < Minute
    <3>1. m \notin batch.excluded
      BY <1>3, <1>4, <1>6, <2>3 DEF PlanInv, Complete
    <3>2. batch.from < m
      BY <1>4, <1>6, <2>3 DEF PlanInv, Complete
    <3>3. m <= batch.through
      BY <1>3, <3>1, <3>2 DEF PlanInv, Complete
    <3> QED BY <3>1, <3>2, <3>3 DEF Omitted
  <2> QED BY <1>3, <1>4, <1>6, <2>1, <2>2, <2>3
<1> QED BY <1>8, <1>9, <1>10, <1>11, <1>12 DEF PlanInv

LEMMA FinishingStep ==
    ASSUME TypeInv, Next, PlanInv, Finishing PROVE PlanInv'
<1>0. /\ Fires(config) \subseteq Nat /\ cursor \in Nat
      /\ batch.from \in Nat /\ batch.through \in Nat
  BY FiresAre DEF TypeInv, TypeOK, Typed, Batch
<1>1. cursor' \in Nat /\ cursor <= cursor'
      /\ \A m \in Nat : m <= cursor' => m <= cursor \/ m <= batch.through
  BY <1>0 DEF Finishing, Larger
<1>2. \A o \in Rows : occ[o].at \in Nat
  BY RowType DEF TypeInv, Occurrence
<1>3. OncePerMinute' /\ Behind'
  <2>1. \A o \in Rows : occ[o].kind = "recurring" => occ[o].at <= cursor'
    BY <1>0, <1>1, <1>2 DEF PlanInv, Behind
  <2> QED BY <2>1 DEF Finishing, PlanInv, OncePerMinute, Behind, Rows
<1>4. Ahead'
  BY NoBatchIs DEF Finishing, Ahead
<1>5. Complete'
  <2>1. NoBatch.from = 0 /\ NoBatch.excluded = {} /\ NoBatch.minutes = {}
    BY DEF NoBatch
  <2>2. \A m \in Nat : ~Omitted(m, NoBatch)
    BY NothingOmitted
  <2> QED BY <1>0, <1>1, <2>1, <2>2 DEF Finishing, Complete, Omitted, Fires
<1>6. Accounted'
  <2> DEFINE all == [from |-> batch.from, through |-> batch.through,
                     excluded |-> batch.excluded]
  <2> SUFFICES ASSUME NEW m \in Fires(config), since < m, m <= cursor'
               PROVE  \/ \E o \in Rows : occ[o].kind = "recurring" /\ occ[o].at = m
                      \/ \E r \in ranges' : Omitted(m, r)
                      \/ m \in edge
      BY DEF Finishing, Accounted, Passed, Answered, Rows, Fires, Omitted
  <2>0. ranges \subseteq ranges' /\ (batch.late => all \in ranges')
    BY DEF Finishing
  <2>1. Omitted(m, batch) => batch.late \/ m \in edge
    BY DEF PlanInv, Complete
  <2>2. Omitted(m, batch) => Omitted(m, all)
    BY DEF Omitted
  <2>3. Omitted(m, batch) => (\E r \in ranges' : Omitted(m, r)) \/ m \in edge
    BY <2>0, <2>1, <2>2
  <2>4. CASE m <= cursor
    <3>1. \/ \E o \in Rows : occ[o].kind = "recurring" /\ occ[o].at = m
          \/ \E r \in ranges \cup {batch} : Omitted(m, r)
          \/ m \in edge
      BY <2>4 DEF PlanInv, Accounted, Passed, Answered, Finishing
    <3> HIDE DEF all
    <3> QED BY <2>0, <2>3, <3>1
  <2>5. CASE cursor < m /\ m <= batch.through
    <3>1. batch.from < m
      BY <1>0, <2>5 DEF PlanInv, Complete
    <3>2. m \notin batch.excluded
      BY <1>0, <2>5 DEF PlanInv, Complete, Finishing
    <3> QED BY <2>3, <2>5, <3>1, <3>2 DEF Omitted
  <2> QED BY <1>0, <1>1, <2>4, <2>5
<1> QED BY <1>3, <1>4, <1>5, <1>6 DEF PlanInv

LEMMA PlanStep ==
    ASSUME TypeInv, Next, PlanInv PROVE PlanInv'
BY PlanSteps, StillStep, HaltingStep, ActivateStep, FreezingStep, ConsumingStep, FinishingStep

-----------------------------------------------------------------------------
(* Grants.                                                                 *)

\* A grant is new when it is given; what is halted loses every grant there is.
LEMMA GrantSteps ==
    ASSUME TypeInv, Next
    PROVE  /\ \/ epoch' = epoch /\ grants' \subseteq grants
              \/ epoch' = epoch + 1 /\ grants' \subseteq grants \cup {epoch + 1}
           /\ grant' \in {grant, 0, epoch'}
           /\ halted' = halted \/ grants' = {}
<1> DEFINE Goal == /\ \/ epoch' = epoch /\ grants' \subseteq grants
                      \/ epoch' = epoch + 1 /\ grants' \subseteq grants \cup {epoch + 1}
                   /\ grant' \in {grant, 0, epoch'}
                   /\ halted' = halted \/ grants' = {}
<1>1. ASSUME Planner PROVE Goal
  <2>1. UNCHANGED <<epoch, grant, grants, halted>>
    BY <1>1
    DEF Planner, PlanRead, Freeze, AdmitMinute, RefuseMinute, SkipMinute, NoRoom,
        StopSchedule, FinishBatch, schedule, ghosts
  <2> QED BY <2>1
<1>2. ASSUME Advance \/ Abort \/ Tick PROVE Goal
  <2>1. UNCHANGED <<epoch, grant, grants, ghosts>>
    BY <1>2
    DEF Advance, Prepare, AdmitTurn, Wait, RefuseTurn, GiveUp, Abort, Tick,
        schedule
  <2> QED BY <2>1 DEF ghosts
<1>3. ASSUME NEW o \in Rows,
             AdvanceRead(o) \/ Settle(o) \/ Cancel(o) \/ TurnMoves(o) \/ StorageMoves(o)
      PROVE  Goal
  <2>1. UNCHANGED <<epoch, grant, grants, ghosts>>
    BY <1>3 DEF AdvanceRead, Settle, Cancel, TurnMoves, StorageMoves, schedule
  <2> QED BY <2>1 DEF ghosts
<1>4. Pause \/ Edit \/ EmergencyStop => Goal
  BY DEF Pause, Edit, EmergencyStop
<1>5. Activate => Goal
  BY DEF Activate
<1>6. RunNow => Goal
  BY DEF RunNow, ghosts
<1>7. ASSUME NEW g \in grants, Expire(g) PROVE Goal
  BY <1>7 DEF Expire, ghosts
<1> HIDE DEF Goal
<1>8. Goal
  BY <1>1, <1>2, <1>3, <1>4, <1>5, <1>6, <1>7 DEF Next
<1> QED BY <1>8 DEF Goal

LEMMA MintedStep ==
    ASSUME TypeInv, Minted, Next
    PROVE  Minted'
<1>0. epoch \in Nat /\ grant \in Nat /\ \A o \in Rows : occ[o].grant \in Nat
  BY RowType DEF TypeInv, TypeOK, Occurrence
<1>1. epoch' \in Nat /\ epoch <= epoch' /\ grant' <= epoch'
  BY <1>0, GrantSteps DEF Minted
<1>2. \A o \in Rows : occ'[o].grant = occ[o].grant /\ occ'[o].grant <= epoch'
  BY <1>0, <1>1, RowsStay DEF Minted
<1>3. \A o \in Rows' : o \in Rows \/ occ'[o].grant <= epoch'
  <2>1. CASE occ' = occ
    BY <2>1 DEF Rows
  <2>2. ASSUME NEW o \in Rows, Changed(o) PROVE Rows' = Rows
    BY <2>2 DEF Changed, Rows
  <2>3. ASSUME Added PROVE \A o \in Rows' : o \in Rows \/ occ'[o].grant <= epoch'
    <3>1. Rows' = Rows \cup {Len(occ) + 1}
      BY <2>3, RowType DEF Added, Rows, TypeInv
    <3>2. occ'[Len(occ) + 1].grant \in {0, grant, epoch'}
      BY <2>3 DEF Added
    <3>3. grant <= epoch'
      BY <1>0, <1>1 DEF Minted
    <3> QED BY <1>1, <3>1, <3>2, <3>3
  <2> QED BY <2>1, <2>2, <2>3, OccSteps
<1> QED BY <1>1, <1>2, <1>3 DEF Minted

LEMMA RevokedStep ==
    ASSUME TypeInv, Minted, Revoked, Next
    PROVE  Revoked'
<1>1. CASE grants' = {}
  BY <1>1 DEF Revoked
<1>2. CASE halted' = halted
  <2>1. \A o \in halted : o \in Rows /\ occ[o].grant \in Nat /\ occ'[o].grant = occ[o].grant
    BY RowType, RowsStay DEF TypeInv, TypeOK, Occurrence
  <2>2. epoch \in Nat /\ \A o \in halted : occ[o].grant <= epoch /\ occ[o].grant \notin grants
    BY <2>1 DEF Minted, Revoked, TypeInv, TypeOK
  <2>3. \A g \in grants' : g \in grants \/ g = epoch + 1
    BY GrantSteps
  <2> QED BY <1>2, <2>1, <2>2, <2>3 DEF Revoked
<1> QED BY <1>1, <1>2, GrantSteps

\* What is halted does not start: its turn is asked for its grant once more.
LEMMA HaltedStep ==
    ASSUME TypeInv, Revoked, Next, NEW o \in halted, occ[o].turn \in {"none", "queued"}
    PROVE  occ'[o].turn # "running"
<1>1. o \in Rows /\ ~Authorized(o)
  BY DEF TypeInv, TypeOK, Revoked, Authorized
<1>2. CASE occ' = occ
  BY <1>2
<1>3. ASSUME NEW p \in Rows, Changed(p) PROVE occ'[o].turn # "running"
  <2>1. CASE p = o
    BY <1>1, <1>3, <2>1 DEF Changed
  <2>2. CASE p # o
    BY <1>1, <1>3, <2>2 DEF Changed
  <2> QED BY <2>1, <2>2
<1>4. CASE Added
  BY <1>1, <1>4 DEF Added
<1> QED BY <1>2, <1>3, <1>4, OccSteps

-----------------------------------------------------------------------------
(* The invariant, and what follows from it.                                *)

LEMMA InitIInv == Init => IInv
<1> SUFFICES ASSUME Init PROVE IInv
    OBVIOUS
<1> USE SchedulesAssumption
<1>1. occ = <<>> /\ Len(occ) = 0 /\ Rows = {} /\ occ \in Seq(Occurrence)
  <2>1. occ = <<>>
    BY DEF Init
  <2>2. Len(occ) = 0 /\ occ \in Seq(Occurrence)
    BY <2>1, EmptySeq
  <2> QED BY <2>1, <2>2 DEF Rows
<1>2. config \in Config /\ Later(config, 0) # {} /\ Fires(config) \subseteq Nat
  BY DEF Init, Fires
<1>3. nextDue \in Nat
  <2>1. Later(config, 0) \subseteq Nat
    BY <1>2 DEF Later
  <2>2. Earliest(Later(config, 0)) \in Later(config, 0)
    BY <1>2, <2>1, EarliestIs
  <2> QED BY <2>1, <2>2 DEF Init
<1>4. /\ batch = NoBatch /\ hint = NoHint /\ at = "idle" /\ cur = 0 /\ ranges = {} /\ now = 0
      /\ halted = {} /\ rev = 1 /\ grants = {1} /\ epoch = 1 /\ grant = 1 /\ cursor = 0
      /\ since = 0 /\ edge = {}
  BY DEF Init
<1>5. PlanType
  <2>1. observed = 0 /\ events = 0 /\ rule = 1 /\ seen = "none" /\ emergency = FALSE
        /\ sched = "enabled"
    BY DEF Init
  <2>2. {rev, rule, epoch, grant, cursor, nextDue, observed, now, since, events} \subseteq Nat
    BY <1>3, <1>4, <2>1
  <2>3. grants \subseteq 1..epoch
    BY <1>4
  <2>4. /\ batch \in Batch /\ batch.minutes \subseteq batch.excluded
        /\ hint \in Hint /\ hint.batch.minutes \subseteq hint.batch.excluded
    BY <1>4, NoBatchIs
  <2> QED BY <1>2, <1>4, <2>1, <2>2, <2>3, <2>4 DEF PlanType
<1>6. RowTypes
  BY <1>1, <1>4 DEF RowTypes
<1>7. TypeOK /\ Typed
  BY <1>5, <1>6, TypeParts
<1>8. Foreseen
  BY <1>4 DEF Foreseen, NoHint
<1>9. Coherent /\ OneOpen /\ Behind /\ OncePerMinute /\ Minted /\ Revoked
  BY <1>1, <1>4 DEF Coherent, OneOpen, Behind, OncePerMinute, Minted, Revoked
<1>10. Ahead
  BY <1>4, NoBatchIs DEF Ahead
<1>11. Complete
  <2>1. NoBatch.from = 0 /\ NoBatch.excluded = {} /\ NoBatch.minutes = {}
    BY DEF NoBatch
  <2>2. \A m \in Nat : ~Omitted(m, NoBatch)
    BY NothingOmitted
  <2> QED BY <1>2, <1>4, <2>1, <2>2 DEF Complete, Omitted
<1>12. Accounted
  BY <1>2, <1>4 DEF Accounted, Passed
<1> QED BY <1>7, <1>8, <1>9, <1>10, <1>11, <1>12 DEF IInv

LEMMA StepIInv == IInv /\ [Next]_vars => IInv'
<1> SUFFICES ASSUME IInv, [Next]_vars PROVE IInv'
    OBVIOUS
<1>1. CASE Next
  <2>1. TypeInv /\ OneOpen /\ PlanInv /\ Minted /\ Revoked
    BY DEF IInv, TypeInv, PlanInv
  <2>2. TypeInv' /\ OneOpen'
    BY <1>1, <2>1, TypeStep
  <2>3. PlanInv'
    BY <1>1, <2>1, PlanStep
  <2>4. Minted' /\ Revoked'
    BY <1>1, <2>1, MintedStep, RevokedStep
  <2> QED BY <2>2, <2>3, <2>4 DEF IInv, TypeInv, PlanInv
<1>2. CASE UNCHANGED vars
  <2>1. TypeOK' /\ Typed' /\ Foreseen'
    BY <1>2
    DEF IInv, TypeOK, Typed, Foreseen, Later, Rows, vars, schedule, history, worker, ghosts
  <2>2. Coherent' /\ OneOpen' /\ Behind' /\ OncePerMinute'
    BY <1>2
    DEF IInv, Coherent, OneOpen, Behind, OncePerMinute, Rows, AtWork, Unresolved, vars,
        schedule, history
  <2>3. Ahead' /\ Complete' /\ Accounted' /\ Minted' /\ Revoked'
    BY <1>2
    DEF IInv, Ahead, Complete, Accounted, Minted, Revoked, Rows, Omitted, Fires, Passed, Answered, vars,
        schedule, history, ghosts
  <2> QED BY <2>1, <2>2, <2>3 DEF IInv
<1> QED BY <1>1, <1>2

\* The inductive invariant holds.
THEOREM Invariant == Spec => []IInv
BY InitIInv, StepIInv, PTL DEF Spec

\* Every reachable state is well formed.
THEOREM TypeCorrect == Spec => []TypeOK
<1>1. IInv => TypeOK
  BY DEF IInv
<1> QED BY <1>1, Invariant, PTL

\* For any rule and any number of edits, pauses, renewals, failures and steps
\* of the clock: a minute has one occurrence, and they come in order.
THEOREM AnsweredOnce == Spec => []OncePerMinute
<1>1. IInv => OncePerMinute
  BY DEF IInv
<1> QED BY <1>1, Invariant, PTL

\* Of the minutes the cursor has passed while the schedule is enabled none is
\* lost, whatever the limit and the window of the catch-up, but one at which a
\* pass finds the minute before it exactly Grace old: the edge case of
\* NoGapLost is the only one.
THEOREM NoMinuteLost == Spec => []Accounted
<1>1. IInv => Accounted
  BY DEF IInv
<1> QED BY <1>1, Invariant, PTL

\* The earliest minute that is due has none exactly Grace after it.
LEMMA NoEdge ==
    ASSUME \A m, n \in Due : m < n => m + Grace < n, IInv, edge = {}, Next
    PROVE  edge' = {}
<1>1. ASSUME Freeze PROVE edge' = {}
  <2>1. CASE ~(Read /\ cursor = hint.cursor /\ batch = NoBatch)
    BY <1>1, <2>1 DEF Freeze
  <2>2. CASE Read /\ cursor = hint.cursor /\ batch = NoBatch
    <3> DEFINE due == Earliest(Later(config, hint.cursor))
    <3>1. /\ due \in Fires(config) /\ due \in Nat /\ Fires(config) \subseteq Nat
          /\ Grace \in Nat \ {0}
      BY <1>1, <2>2, LaterIs, FiresAre, SchedulesAssumption
      DEF Freeze, Read, IInv, Typed, Hint, Foreseen
    <3>2. Edge = {m \in Fires(config) : m = hint.now /\ due + Grace = m}
      BY DEF Edge
    <3>3. edge' = Edge
      BY <1>1, <2>2 DEF Freeze
    <3> HIDE DEF due
    <3>4. \A m \in Fires(config) : due + Grace # m
      <4>1. CASE config.once = 0
        BY <3>1, <4>1 DEF Fires
      <4>2. CASE config.once # 0
        BY <3>1, <4>2 DEF Fires
      <4> QED BY <4>1, <4>2
    <3> QED BY <3>2, <3>3, <3>4
  <2> QED BY <2>1, <2>2
<1>2. Pause \/ Edit \/ EmergencyStop \/ Activate => edge' = {}
  BY DEF Pause, Edit, EmergencyStop, Activate
<1>3. ASSUME Planner, ~Freeze PROVE edge' = edge
  BY <1>3
  DEF Planner, PlanRead, AdmitMinute, RefuseMinute, SkipMinute, NoRoom, StopSchedule,
      FinishBatch, ghosts
<1>4. ASSUME Advance \/ Abort \/ RunNow \/ Tick PROVE edge' = edge
  BY <1>4
  DEF Advance, Prepare, AdmitTurn, Wait, RefuseTurn, GiveUp, Abort, RunNow, Tick, ghosts
<1>5. ASSUME NEW g \in grants, Expire(g) PROVE edge' = edge
  BY <1>5 DEF Expire, ghosts
<1>6. ASSUME NEW o \in Rows,
             AdvanceRead(o) \/ Settle(o) \/ Cancel(o) \/ TurnMoves(o) \/ StorageMoves(o)
      PROVE  edge' = edge
  BY <1>6 DEF AdvanceRead, Settle, Cancel, TurnMoves, StorageMoves, ghosts
<1> QED BY <1>1, <1>2, <1>3, <1>4, <1>5, <1>6 DEF Next

\* That case takes a rule with two minutes exactly Grace apart: for a rule whose
\* minutes are further apart no gap is lost at all, the one-time rules included.
THEOREM SparseRule ==
    ASSUME \A m, n \in Due : m < n => m + Grace < n
    PROVE  Spec => []NoGapLost
<1>1. Init => edge = {}
  BY DEF Init
<1>2. IInv /\ edge = {} /\ [Next]_vars => (edge = {})'
  BY NoEdge DEF vars, ghosts
<1>3. IInv /\ edge = {} => NoGapLost
  BY DEF IInv, Accounted, NoGapLost
<1> QED BY <1>1, <1>2, <1>3, Invariant, PTL DEF Spec

\* The turns of a schedule do not overlap, and one that is shown as over is not
\* at work: what is at work is unresolved, and one occurrence at a time is.
THEOREM TurnsApart == Spec => []OneAtWork
<1>1. IInv => OneAtWork
  <2> SUFFICES ASSUME IInv PROVE OneAtWork
      OBVIOUS
  <2>1. \A o \in Rows : AtWork(o) => /\ Unresolved(o)
                                     /\ occ[o].state \in {"queued_turn", "running", "attention"}
    BY DEF IInv, Coherent, Unresolved, Watched
  <2> QED BY <2>1 DEF IInv, OneOpen, OneAtWork
<1> QED BY <1>1, Invariant, PTL

\* What a pause, an edit or the emergency stop found undispatched never starts:
\* its grant is revoked with the halt, and no grant is given twice.
THEOREM PausedStays == Spec => HaltedStays
<1> DEFINE Stays == \A o \in halted : occ[o].turn \in {"none", "queued"}
                                         => occ'[o].turn # "running"
<1>1. IInv /\ [Next]_vars => [Stays]_vars
  <2>1. IInv /\ Next => Stays
    BY HaltedStep DEF IInv, TypeInv
  <2> QED BY <2>1
<1> HIDE DEF Stays
<1>2. Spec => [][Stays]_vars
  BY <1>1, Invariant, PTL DEF Spec
<1> QED BY <1>2 DEF Stays, HaltedStays
=============================================================================
