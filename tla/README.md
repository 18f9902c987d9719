# Codex Harbor: a verification project

Codex Harbor is a single-owner web interface and API for Codex. An API service
validates and stores what the owner asks for in PostgreSQL, a supervisor does
the work (it starts native Codex runtimes, sends them turns, stores what they
answer), and a browser shows the result. Nothing but the database connects the
two services, so the correctness of the system is a question of which
transaction commits when, what a process still remembers, and what is left of
both after a crash.

Four parts are modelled:

- the **conversation dispatcher of the personal profile**
  (`src/apps/supervisor/src/main.ts`), the profile the repository deploys;
- the **workspaces of the managed profile**: file and Git operations, terminals,
  previews, conversations and the storage service, which share the folders of a
  project through one reservation column;
- the **input of a terminal**, from the lease of its controller to the shell;
- a **schedule**: planning, admission, preparation, settlement, and the owner.

Paths below are relative to `src/`; `main.ts` is always
`apps/supervisor/src/main.ts`.

1. [Inventory](#1-inventory)
2. [Modules](#2-modules)
3. [How the model corresponds to the code](#3-how-the-model-corresponds-to-the-code)
4. [Runs](#4-runs)
5. [Fairness](#5-fairness)
6. [Proofs](#6-proofs)
7. [Disagreements found](#7-disagreements-found)
8. [What is abstracted and what is not modelled](#8-what-is-abstracted-and-what-is-not-modelled)
9. [Plan](#9-plan)

## 1. Inventory

| Component | State it keeps | Operations | Hard behaviour | What makes it correct |
|---|---|---|---|---|
| Conversation dispatcher (`main.ts`, `runtime-capacity.ts`, `background-retirement.ts`, `packages/storage/src/conversation-runtimes.ts`) | rows `operations`, `sessions`, `conversation_runtimes`, `harbor_meta`; in memory the `runtimes` map and one `RuntimeState` per runtime | startup, the tick (emergency, reconciliation, answers, cancellation, dispatch), retirement and its settlement | the tick, the handlers of every runtime and the API interleave at each await; every statement may fail; the process may die anywhere while runtimes survive it | at most one dispatch per turn, ceilings, no runtime left uncounted, honest outcomes, capacity comes back |
| Runtime mailbox (`runtime-mailbox.ts`) | queue of notifications, `poisoned` | enqueue, poison | a failure poisons at once, outside the queue | nothing is applied after poisoning, the callback runs once |
| Codex adapter (`packages/codex-adapter/src/index.ts`) | pending requests, pending approvals of one connection | initialize, startTurn, respond, interrupt, closeAndWait | disconnect between request and response; an answer that was perhaps delivered | a request is written once; every pending promise is settled |
| Runtime launch and inspection (`local-runtime.ts`, `personal-cgroup.ts`) | cgroup and process identity | launch paused, save identity, start, inspect, kill | crash between two of these | absence is only said of a verifiably empty cgroup |
| Turn acceptance and session state (`packages/storage/src/turns.ts`, `index.ts`, `session-lock.ts`) | `operations`, `sessions.state` | accept, derive state, append event | eight writers of one column | the session shows its uncertain turn |
| Turn cancellation (`cancellation.ts`, `main.ts:1315`) | operations of kind `cancel` | request, deliver, repair | races with the end of its target and a restart | each request is settled once, and tells the truth |
| Approvals (`server.ts`, `main.ts:1206`) | rows `approvals` | ask, answer, deliver, expire | answer against expiry, against a dead runtime | answered at most once; an undelivered answer is uncertain |
| Session recovery (`apps/supervisor/src/recovery.ts`, `apps/api/src/recovery.ts`) | rows `session_recoveries`, audits | fence, inspect, repair, acknowledge | phases cut by a restart or by a lost COMMIT reply | history is acknowledged only under an unbroken fence |
| Workspaces (`packages/workspaces`, `workspace-admission.ts`, `workspace-storage.ts`) | rows `workspaces`, storage operations, writer leases | create, claim, release, remove | four kinds of users of one directory | one writer per workspace |
| Schedules (`packages/schedules`) | rows `schedules`, versions, occurrences, grants | plan, admit, advance, settle, pause, cancel | planning, advancing and settling are separate transactions; clock jumps; edits in between | one occurrence per due time and grant, one turn per occurrence |
| History capacity, idempotent commands, maintenance (`admission.ts`, `capacity.ts`, `maintenance.ts`) | counters, idempotency rows | admit, prune | pruning against a retry | a retry never does the work again |
| Event replay (`replay.ts`, `server.ts:1148`) | event rows, `sequence`, `replay_floor`, a cursor per stream | append, prune, stream | reads in separate statements | no viewer skips an event without a resync |
| Terminals (`terminals.ts`, `packages/terminals`) | rows `terminals`, `terminal_input`, output chunks | acquire control, accept input, dispatch, resize, retire | reconnect, expiry and restart between acceptance and delivery | input is written at most once and in sequence |
| Previews (`previews.ts`, `packages/previews`) | rows `previews`, `preview_stops` | start, stop, retire, grant | retirement that is not confirmed | a preview that may run is never forgotten |
| Files (`apps/supervisor/src/files.ts`) | rows `file_operations`, `file_inspections` | stage, commit, inspect, release | effect done, record lost | an effect is applied once or shown uncertain |
| Credentials (`credentials.ts`) | the current credential and its revision | begin, complete, clear | runtimes that still use the old one | no runtime starts with a credential that is being changed |
| Attachments, conversation output, discovery, policy and tokens, deployment gate, web UI | rows without a protocol of their own, or presentation | | | |

**Interaction.** The API calls nothing in the supervisor: it inserts queued
operations and sets flags (`background_stop_requested`, `emergency`). The
supervisor polls with a job (every 0.5 s, `main.ts:1958`) and a timer (250 ms,
`main.ts:1971`), both through the same guarded tick, so there is one tick at a
time. A runtime talks through its adapter; notifications are applied one at a
time by its mailbox. A disconnect poisons the mailbox, whose callback starts two
calls that nobody awaits: a retirement and an update of the operation. Writers
of one conversation serialise on the session row (`session-lock.ts`); the
`runtimes` map and the `RuntimeState` objects have no lock but the event loop.

## 2. Modules

| Module | What it is |
|---|---|
| `TurnLedger` | What the dispatcher promises about turns, with no word about runtimes: a turn is worked on at most once, an outcome is final, an uncertain turn stops its conversation, the number of active turns is bounded. |
| `ConversationRuntimes` | The dispatcher: 31 variables, one action per stretch of code between two awaits or per transaction, invariants, action properties, liveness, and the refinement mapping to `TurnLedger`. It also holds the seeded faults, each next to the definition it falsifies. |
| `WorkspaceLease` | What a reservation promises: work runs in a workspace only while it holds it, and the workspace changes hands only when nothing of the former holder runs. |
| `Reservations` | The state shared by everything that works in a project, and the guards every admission has. |
| `FileOperations`, `TerminalProcesses`, `PreviewProcesses`, `ConversationWriters`, `StorageOperations` | One component each: its requests, its loop in the supervisor, its startup, what its processes do. They extend `Reservations` and not each other. |
| `ManagedWorkspaces` | Their composition with the emergency stop and restarts; the properties, the fairness and the refinement of `WorkspaceLease`. |
| `TerminalInput` | The frames typed into one terminal. |
| `Schedules` | One schedule with its occurrences, up to the edge of the 60 seconds in which a minute counts as seen in time. |
| `MCConversationRuntimes`, `MCManagedWorkspaces`, `MCSchedules` | Values of the constants for TLC. |
| `ConversationRuntimes_proofs` | `TypeCorrect`. |
| `TurnOutcome_proofs` | `UncertaintyKept`, `SendsOnce`, `OutcomesAreHonest`. |
| `RuntimeReservation_proofs` | `LiveIsReserved`, `RetentionIsCounted`, `CeilingKept`, and `StopsAreFollowed`, which delimits a finding. |
| `ActiveTurns_proofs` | `ActiveCeilingKept`, `UncertainIsShown`, `SendIsFenced`, the refinement `LedgerIsKept`, and `OutcomesStand` and `FailuresAreOwn`, which delimit two of the findings. |
| `HealthyRuntimes_proofs` | `HealthyAreSpared`. |
| `TerminalInput_proofs`, `Schedules_proofs` | The inductive invariant of each, and from it each of its safety properties. |
| `ManagedWorkspaces_proofs` | The inductive invariant of the workspaces, and from it each of their safety properties and the refinement of `WorkspaceLease`. |

## 3. How the model corresponds to the code

**State.** The first eight variables are rows and survive a crash. `up`, `map`,
`rt`, `rtOp`, `rtTurn`, `poisoned`, `hook`, `asked` and `pending` are the memory
of the supervisor outside the tick; `at` and its registers are the tick's local
variables and its program counter. `proc` and `native` are the world: the
processes of a runtime and the turn its open transport talks about. `sent` and
`reported` are history: what was written to runtimes and what they announced.

| Variable | Code |
|---|---|
| `op`, `opGen` | `operations.state` (`waiting_input` and `waiting_approval` are one value), `operations.generation` |
| `sgen`, `sUncertain`, `retained`, `stopRequested` | `sessions.generation`, `state = 'uncertain'`, `background_until IS NOT NULL`, `background_stop_requested` |
| `member` | the `conversation_runtimes` row: state, generation, whether the identity was saved |
| `map`, `rtOp`, `rtTurn`, `poisoned` | `runtimes`, `RuntimeState.operation`, `.turn`, `mailbox.poisoned` |
| `rt` | phase of a `RuntimeState`: present, being killed, absence confirmed or not, gone; `stuck` when `retiring` was set by a transaction that did not commit |
| `hook` | what the mailbox handler has still to do after the transaction of `turn/completed`, or the answer of the process inspection it is about to store |
| `asked`, `pending` | calls of `retireSessionRuntime` and of `update(…, "uncertain")` that were started and not awaited |

**Atomicity.** A transaction that begins with the session lock is one step,
because everybody else who writes these rows takes the same lock. A stretch of
JavaScript between two awaits is one step. A read that is used after an await is
a register: `wait.gen`, `cur`, `tgen`, `failed`, `cands`, `hook`.

**Actions, in the order of a pass.** `BeginPass` reads the emergency flag.
`HaltRuntime`, `InterruptOperation` and `HaltQueue` are the emergency branch.
`ReconcileMember` and `ReconcileRuntime` are the two halves of the
reconciliation loop; `AnswerRequest` … `CloseAdapter` deliver an approval;
`CancelQueued` is a cancellation that finds its target queued. `Snapshot` reads
the queue, `Consider` and `ConsiderCapacity` are the guards of the loop, `Route`,
`Evict`, `EvictionDone` find a place, `Capture` chooses between reusing and
replacing the runtime, `AdmitReuse`/`AdmitNew` are the admission transaction,
`Launch`, `SaveIdentity`, `Transport` the three observable steps of a launch,
`Claim`, `Send`, `Acknowledge`, `MarkRunning` the dispatch, `FailOperation` and
`Cleanup` its catch clause. `RetireAwaited` and `Retired` are the retirements
the tick awaits; `Retire` is one nobody awaits; `RetirementConfirmed`,
`RetirementUnconfirmed`, `Release`, `RetirementUncertain` are what follows in
either case. `TurnCompleted`, `TurnFinished`, `Inspect`, `Classify` and
`NativeRequests` are the mailbox handler, `Poison` its failure, `SettleUncertain`
the update its callback started. `Crash` loses memory and keeps rows and
processes; `Startup` is the startup transaction. The actions ending in `Lost`
are transactions that fail; `AdmissionLost` is also the inspection inside an
automatic retirement that rejects (`main.ts:735`). `ReuseLost` is the admission
that reuses a runtime and does not commit: `runtime.operation` is set before the
COMMIT (`main.ts:1601`) and no rollback takes it back. The constant `ReuseAborts`
says whether that may happen; it is TRUE in every run.

**Workspaces (`Reservations` and the modules that extend it).** `workspace`,
`writer` and `readers` are `workspaces.state`, `writer_owner_id` and the rows of
`preview_readers`. `state`, `review`, `tries` and `ack` are columns of the row of
each piece of work: its state, the state of an inspection or release asked for,
the attempts so far, `acknowledged_at`. `hand`, `held`, `note` and `booting` are
the memory of the supervisor: what each loop awaits, the handles of terminals,
previews and runtimes (the maps `owned`), the outcome or the reason to stop that
has still to be written (the `repairs` map of `files.ts`, `reason` of a handle),
and the loops that have not reconciled the rows since the last start. `live`,
`sent` and `effect` are outside: processes that may still write, how often a
command was given, the changes that are in the folder.

Every transaction that decides over a reservation locks the project's row first
(`selectedWorkspace`, or the same statement in a route), so it is one action. A
file request keeps that row while a helper reads the file; that is `lock`, and
`Unlocked` is a guard of everybody who takes the row. What does not take it
(`recoverFileStartup`, `InspectWorkspace`, the emergency flag) has no such guard.
A command is written inside the transaction that checks everything again
(`SendFile`, `StartShell`, `StartServer`). A process that is being retired may be
gone although its retirement is not confirmed: `live' \in {live, live \ {t}}`.
A preview that was refused is `failed` with `retired = true` in the code; the
model has one state, `stopped`, for everything at rest. A conversation in doubt
is left in one of two ways: its workspace is released, or it is recovered.
`RecoverSession` is the transaction of a recovery that retires the runtime and
releases the workspace, `ContinueSession` the route that acknowledges the
uncertain turn and accepts another one in the same transaction; `ack` holds the
conversations whose recovery is ready.

**Terminal input.** `row` is the table `terminal_input`, `epoch`, `leased`,
`high` and `doubt` are `controller_epoch`, `controller_until`, `input_high` and
`input_uncertain`. `handle`, `repair` and `exit` are the `Owned` object; `at` and
`cur` are the tick's place and the frame it awaits. `typed` is what the shell
got: bytes are written before the COMMIT that marks their row, so `SendInput`,
`SendLost` and `CrashSending` are the three ways this may go on.

**Schedules.** `sched` … `batch` are columns of `schedules`, its version and its
grants, `occ` the rows of `schedule_occurrences` with the state of their turn and
storage operation, `ranges` the rows that record omitted minutes. `hint`, `cur`
and `seen` are what the worker read before the transaction that acts on it. `Due`
stands for the rule. The unit of time is left open, because the clock is read in
milliseconds and a rule names minutes: `Grace` is the 60 seconds a minute may be
seen late, in whatever unit, and a lag of exactly `Grace` is in time, as at
`planner.ts:72`. Of the distance between minutes only that it is no less is
assumed. Rows are kept as history when the code prunes them; the quota
(`capacity.ts:8-60`), which refuses where nothing settled is left to prune, is
`RefuseMinute` and `NoRoom`, possible at any time. `since`, `edge` and `halted`
are history: the cursor of the last activation, the minutes since then at which a
pass found the minute before exactly `Grace` old, and what a pause found
undispatched.

Every entry of the map in `PROJECT.json` names the lines an action stands for.

## 4. Runs

| Run | Instance | Checks | Distinct states |
|---|---|---|---|
| `conversation` | 1 conversation, 2 turns that complete or are interrupted, emergency stop at any time, 1 failed transaction | `TypeOK` `SentOnce` `HonestOutcome` `UncertaintyShown` `SendFenced` `HealthySpared` `UncertainFinal` | 3.9 million |
| `faults` | 2 conversations with a turn each, 1 runtime place, 1 active turn, 1 crash, 1 failed transaction | `LiveReserved` `RuntimeCeiling` `ActiveCeiling` `RetainedNamesMember` `SentOnce` `UncertainFinal` | 3.9 million |
| `progress` | 1 conversation, 2 turns, no faults, fairness | `LedgerKept` `NoTurnStranded` | 0.2 million |
| `recovery` | 1 conversation, 1 turn, emergency stop, 2 crashes, fairness | `CapacityReturns` `EmergencySettles` | 58 thousand |
| `workspaces` | 3 workspaces; 2 saves, 2 Git operations, a terminal, 2 previews, a conversation, a creation, a removal; any 2 requests, 1 restart, 1 failed transaction | `TypeOK` `GitAlone` `StorageAlone` `HonestFile` `DoubtReserved` `NoOrphan` `OneWriter` `NoSecondStart` | 1.3 million |
| `settles` | 1 save, 1 terminal, 1 preview, 1 removal, the same faults, fairness | `FileSettles` `StopHeard` `EmergencyHeard` `ProjectReopens` | 0.1 million |
| `terminal` | 2 controllers with 2 frames each, 1 restart, 2 failed transactions, fairness | `TypeOK` `TypedInOrder` `StopsAtDoubt` `HonestInput` `InputSettles` | 0.5 million |
| `schedules` | a recurring and a one-time rule, 2 occurrences, 2 events, fairness | `TypeOK` `OncePerMinute` `Accounted` `OneAtWork` `HaltedStays` `OccurrenceSettles` | 1.3 million |
| `not_started`, `stop_flag`, `emergency_overwrites` | 1 conversation, 2 turns | one documented claim each, refuted | |
| `lost_minute` | the instance of `schedules` | `NoGapLost`, refuted | |

What the properties say:

- `SentOnce`: no retry, replacement, restart or failed transaction dispatches a
  turn twice, and a queued turn was never sent.
- `SendFenced`: at the moment of the write the conversation's row reserves this
  generation with a recorded identity, the turn is dispatching, no sibling is
  active or uncertain, and the emergency stop has not been pressed. The fence in
  the code (`main.ts:1690`) tests other things than this property says; that the
  two agree depends on admission, retirement, disconnect and emergency handling.
- `HealthySpared`: retirements are started by five different pieces of code and
  some run late; none of them kills a healthy runtime under an active turn.
- `LiveReserved`: a runtime whose processes may run always has its row. Four
  pieces of code delete rows.
- `RuntimeCeiling`, `ActiveCeiling`: D014's ceilings, although the counts are
  read several awaits before the insert and replacing a runtime skips the count.
- `UncertaintyShown`, `UncertainFinal`, `RetainedNamesMember`: relations between
  columns that different transactions write.
- `HonestOutcome`: success only on the runtime's word, also when the response,
  the completion and a disconnect come in an unexpected order.
- `LedgerKept`: the dispatcher implements `TurnLedger` with `state <- op`.
  It does not with an emergency stop (section 7) nor with a failed transaction
  after the write of a request, which is why the run has neither.
- `NoTurnStranded`, `CapacityReturns`, `EmergencySettles`: liveness, below.
- `OneWriter`: the reservation column, written by five loops, the routes that
  release and a start without memory, implements `WorkspaceLease`.
- `GitAlone`, `StorageAlone`: a staging or committing helper has the project to
  itself, readers included, and so has the storage service. Five admissions
  that look at each other's rows have to agree for this.
- `HonestFile`, `DoubtReserved`, `NoOrphan`: the owner is never told that a
  change failed which is in the folder; a folder in doubt is kept until an
  inspection was seen; a reservation always has an owner whose row something can
  still be done about.
- `NoSecondStart`: a claim whose acknowledgement was lost, a repeated pass or a
  restart never gives a command to a second process beside the first.
- `FileSettles`, `StopHeard`, `EmergencyHeard`, `ProjectReopens`: what was
  started is settled, stopped, or shown as uncertain; the emergency stop also
  reaches a launch in progress; a storage operation ends.
- `TypedInOrder`, `StopsAtDoubt`, `HonestInput`, `InputSettles`: keystrokes are
  never repeated or reordered though rows are pruned and COMMITs lost after the
  bytes left; nothing is typed past an unknown outcome that was not
  acknowledged; each accepted frame gets an outcome, and a true one.
- `OncePerMinute`, `Accounted`: however the owner edits, pauses and renews and
  the clock is set back, a minute is answered for once, and none the cursor has
  passed is forgotten, but one at the edge of the grace (finding `lost_minute`).
- `OneAtWork`, `HaltedStays`, `OccurrenceSettles`: the turns of a schedule do not
  overlap; what a pause found undispatched does not run after a resume; an
  accepted occurrence is dispatched or closed and shows the outcome of its turn.

**Bounds, and why they are enough.** Constants bound the number of turns,
crashes and failed transactions; nothing else is bounded. Two turns of one
conversation are what reuse, replacement and every race between the end of one
turn and the dispatch of the next need: while no more than one transaction fails,
a third turn meets a runtime in a state the second already met. Two conversations with one place are what eviction and
the ceilings need. One crash can fall at any step and the rest of the
run is the restarted supervisor, with whatever the crash left; `recovery` has a
second crash during the recovery from the first. One failed transaction can be
any transaction. `status = completed` alone is used where the others only take a
shorter path; `recovery` has all three, `conversation` a success and an
interruption. Two failed transactions in a conversation of three turns are beyond
these runs; section 7 says what they can do.
`UncertaintyShown` is checked with a failed transaction and without a crash; that
a restart keeps it is part of its theorem. Generations are
named by the turn whose dispatch minted them, which is exact because a turn is
dispatched at most once (`SentOnce` does not assume it:
a second dispatch of a turn would increment `sent` again). No symmetry is used:
sessions carry different turns and the liveness runs do not permit it.

For the workspaces, `MaxRequests = 2` lets any two of the requests of the API
meet (that includes two starts of the same preview, an availability change or
the emergency stop), with at most one restart and one failed transaction at any
step; a request that is followed up (terminate, stop, inspect, release) is bounded
by the code's own limit of attempts. Two saves meet in one workspace, `g2` is a
Git operation in another workspace of the project, `n1` creates a third. Every
admission rule relates two pieces of work, so pairs are what matters. In
`TerminalInput` two controllers and two frames are what a takeover, a gap and
pruning (`Retained = 1`) need; two failed transactions can strike the write and
the repair of the same frame. In `Schedules` the rule fires at 1, 2 and
4, `Grace = 1`, and the clock runs from 0 to 3 (`Horizon = 4`). A pass that first
looks at 3 finds minute 1 late; with `Limit = 1` it takes minute 2 and omits minute
1, so that one batch both catches up and omits. A pass that first looks at 2 finds
minute 1 exactly `Grace` old, and minute 2 at the edge. Minute 4 is never reached:
it is what the planner finds as the next one. `Window = 3` cuts off nothing here,
so the limit alone omits. `Ends` has
only `uncertain` among the ways a turn may end after it ran: `failed` and
`interrupted` come from the queue, and `succeeded` is settled like `failed`. Two
events are any two of pause, edit, renewal, run now, cancel, emergency stop, a
lost grant, a clock set back and a restart. `MaxRuns = 2` bounds the occurrences
for the exploration only: it lets the second minute or a "run now" follow the
first, and says nothing of the quota, which may refuse at any time.

The proofs of section 6 remove these bounds from every safety property of every
passing run: they hold for each value of the constants, `UncertaintyShown` under
one more assumption. What the runs show beyond the proofs is liveness, and
`UncertaintyShown` with a reuse that fails to commit.

`CHECK_DEADLOCK FALSE` is set where requests or the clock are bounded and the
system may come to rest: in the runs of the managed profile. In the runs of
the dispatcher it is not set: a supervisor at rest may always begin another pass.

Each property has a seeded fault (`mutants` in `PROJECT.json`): a plausible bug,
such as a dropped condition, a wrong order or a missing reset, under which TLC
finds the property violated in the same run.

## 5. Fairness

`LiveSpec` adds to `Spec`:

- weak fairness of the tick: the job queue and the timer run it for ever, and
  every await in it has a deadline (adapter requests, kills and inspections all
  time out). Strong fairness of `Snapshot` and `EvictionDone`: a pass walks
  lists that were read once, so it does not deliver answers or evict members for
  ever, which the model, that reads the lists afresh, would allow;
- weak fairness of a mailbox handler, a poison callback and a retirement that
  were started, per runtime: they are promises, and the event loop runs on;
- a runtime that is dead or being killed disconnects: its pipe closes;
- the service manager restarts a supervisor that crashed;
- strong fairness of an inspection that finds absence (`Freed`): the inspection
  of a dead cgroup may fail any number of times, but not for ever.

`ManagedWorkspaces` assumes that each loop, which runs on a timer, takes the steps
it is ready for, one piece of work at a time (weak fairness per step and piece of
work); that what it awaits ends, because a watchdog ends a helper, a timeout ends
a launch and a route ends with its request; and that the storage service is asked
again until it answers. It assumes nothing of the API, of processes that nobody
awaits, or of confirmations: an unconfirmed retirement shows as `uncertain`.
`TerminalInput` assumes that the tick runs and that a lifetime of 24 hours ends.
`Schedules` assumes that the worker goes on, that a pass neither settles nor
advances to the exclusion of the other (strong fairness of `AdvanceRead` and
`Settle`, because a pass does both once), and that a storage operation is
executed; failing transactions and restarts are bounded by `MaxEvents`. A turn may
stay queued or run for ever, so `OccurrenceSettles` is `[]<>`: again and again the
occurrence shows what its turn has come to.

Nothing is assumed of the owner, who may never answer or submit anything, of
the native runtimes, which may never finish, or of crashes. Consequently there is
no property that a turn eventually ends: `NoTurnStranded` says that none stays
dispatching, or active on a dead runtime.

## 6. Proofs

Each safety property of a passing run is also stated by a theorem. Each theorem
is about `Spec`, without fairness, and assumes nothing but the named assumption
on the constants of its module, but for three that say so: `LedgerIsKept`,
`UncertainIsShown` and `SparseRule`. The
invariants were checked with TLC, on the instances of section 4, before they
were proved.

**The dispatcher.** The theorems hold for any number of conversations, turns,
places, crashes and failed transactions; the assumption is the
`ConstantsAssumption` of `ConversationRuntimes`: numbers are numbers, every turn
has a conversation, of which there are finitely many, and no more turns may be
active than runtimes live. The modules build on each other in the order of
this list, and `Invariants` in `ActiveTurns_proofs` is the conjunction of what
they show.

- **`TypeCorrect`** (`Spec => []TypeOK`). `TypeOK` is not inductive: a dispatch
  writes `op[cur]`, and `cur` may be 0. `TypeInv` adds `StageOK`, which says for
  each stage of the tick which registers hold a turn or a generation. One lemma
  per group of actions.
- **`UncertaintyKept`** (`Spec => UncertainFinal`). The argument is a census of
  the writers of `operations.state`: every step leaves `op` alone, or is one of
  a dozen writers, each of which goes through `update()` or tests the old state.
- **`SendsOnce`** (`Spec => []SentOnce`). `SentOnce` is not inductive: `Send`
  adds one to `sent[cur]`, so one has to know that the turn in hand was not sent
  before. `SentInv` adds that the candidates of the pass were queued when it
  read the queue, that only the turn in hand may have been sent and is still
  considered, and that past the admission the turn in hand is no longer queued.
  Every step either leaves these facts alone, leaves the dispatch, or is one of
  the few that are proved one by one.
- **`OutcomesAreHonest`** (`Spec => []HonestOutcome`). The strengthening
  `HonestInv` relates the tick and the transport: the emergency branch only runs
  after the flag was set, which no code takes back; unsent candidates are not
  interrupted; the turn an open transport carries was sent.
- **`LiveIsReserved`** (`Spec => []LiveReserved`) and **`RetentionIsCounted`**
  (`Spec => []RetainedNamesMember`). A runtime that may live has its place in the
  database. `ReserveInv` follows one generation from the admission that mints it
  to the settlement that gives its place back. `FreshTurns`: a generation is
  minted once, for a turn no runtime was launched for. `Started`: from its
  reservation to its publication the generation owns the row of its conversation.
  `Mapped`, `Recorded` and `Registered`: an entry of the map has its row, an
  absence is only confirmed of a dead process, and the registers of the tick name
  runtimes the supervisor knows. `RetainedIdentified` and `Down` say what
  survives a turn and a crash. What could break the property are the deletions
  of the row: each is proved to follow a confirmed absence, or a launch that
  never spawned anything.
- **`StopsAreFollowed`** (`Spec => StopsFollowed`): of all steps, two leave a
  requested stop behind that no runtime will clear (finding `stop_flag`). A restart
  requests a stop for a conversation that is retained without a row; by
  `RetainedIdentified` there is none.
- **`CeilingKept`** (`Spec => []RuntimeCeiling`). `RuntimeCeiling` is not
  inductive: the admission counts nothing. `CeilingInv` adds that from the
  eviction to the admission, across every await in between, there is room, or
  the conversation has a row already; only the tick adds rows.
- **`ActiveCeilingKept`** (`Spec => []ActiveCeiling`). The same for active turns:
  they are counted when a turn is considered, and `ActiveInv` says that the room
  and the absence of an active sibling last until the admission.
- **`UncertainIsShown`** (`Spec => []UncertaintyShown`). Whether a conversation
  shows its uncertain turn depends on every writer of `sessions.state`
  (`WritersShow`), and on three groups of facts: what has left the queue
  (`DispatchedInv`, `LeftInv`), that the runtime in use and what it works on
  belong to the conversation (`UsingInv`), and that a turn which was sent has no
  uncertain sibling (`SentAlone`, in `ShownInv`). It is proved under `Steady`: no
  transaction fails, or at least the admission that reuses a runtime does not fail
  to commit (`ReuseAborts = FALSE`). This is needed: with two failures the property
  does not hold, see section 7. All other theorems hold with any number of such
  failures.
- **`SendIsFenced`** (`Spec => SendFenced`). The fence before a request is
  written reads some facts again and relies on others that were read several
  awaits ago: the invariants above say that those still hold.
- **`LedgerIsKept`** (`Emergencies = FALSE`, `MaxLost = 0` imply
  `Spec => LedgerKept`): each step of the dispatcher is a step of `TurnLedger` or a
  stutter. `OneTurnMoves` says that a step changes one turn, but for a
  restart; `LedgerInv`, that the turn in the catch clause has no outcome yet. The
  two hypotheses are needed: without either of them the ledger is not kept, and
  the next two theorems say how far that goes.
- **`OutcomesStand`** (`Spec => OutcomeStands`): an outcome is overwritten only
  after the emergency stop was pressed (finding `emergency_overwrites`) or a
  transaction failed. The second exception is real as well: see section 7.
- **`FailuresAreOwn`** (`Spec => []OwnFailure`): a turn that was sent to the runtime
  launched for it is shown failed on that runtime's word alone. So the finding
  `not_started` needs a reused runtime. `FailureInv` adds that the flag which the
  catch clause reads, `launched`, agrees with the generation in `opGen`.
- **`HealthyAreSpared`** (`Spec => HealthySpared`). The admission of a retirement
  reads the runtime and the session, never the turns, and runs long after the
  call was made. `SparedInv` therefore says what each of the four callers asked
  for and why it is still so: a poisoned runtime stays poisoned and a dead one
  dead (`AskedInv`), a handler that retires has committed the end of the turn its
  runtime names (`HookInv`), the tick found an idle runtime or ended the turn
  first (`AwaitInv`, `GivenUp`), and a runtime being given a turn has no older
  one to end (`ClaimInv`). Underneath, `WorksOn`: a healthy runtime knows the
  active turn it works on. Steps that start no turn and give no runtime away
  keep all of this (`QuietKeeps`).

**The workspaces.** The theorems hold for any number of workspaces, pieces of work
of each kind, requests, restarts and failed transactions, with any limits. The
only assumption is the `ConstantsAssumption` of `Reservations`: each piece of work
has a workspace, and none is of two kinds. The proof has five layers.

1. *Frames.* `Own(K, loop)` says that a step changes only rows, handles, notes and
   processes of work in `K`, only the hand of `loop`, and only reservations that
   pass between `K` and nobody. Each component's steps satisfy it with its own
   kind of work (`FileOwn` … `StorageOwn`). This is where it matters that
   `settle()` and `recoverFileStartup` close other requests, but only of files.
2. *One invariant per component*, kept by the component's own actions
   (`FilesStep` …) and by everybody else's because of the frames (`FilesKept` …).
   `FileInv` relates the row, the outcome the supervisor has still to write, the
   helper and the folder; it is needed because `HonestFile` alone says nothing of
   an outcome that is noted and not yet written, nor of a command that has not
   left yet. `FileHeld`, `TerminalHeld`, `PreviewHeld` and `ConversationHeld` say
   that what runs is reserved and in which states of the row a reservation may
   exist.
3. *How reservations move.* `LeaseMove` lists what any step may do to the
   `writer` column and to the processes that write; a reservation is taken only
   where no Git and no storage operation is pending, and by a Git operation only
   where nothing is reserved. `ReadersMove` is the same for `preview_readers`.
4. *The project.* From these moves and the component invariants follow `GitHeld`
   (a Git operation with a reservation has the only one: it counts as pending as
   long as it has it, so that no admission passes) and `StorageHeld` (while a
   storage operation is pending nothing is reserved; its request looked at
   previews, whose state by `PreviewHeld` tells whether they are readers).
5. *Consequences.* `GitIsAlone`, `StorageIsAlone`, `FileIsHonest`,
   `DoubtIsReserved`, `NoOrphanLeft`, `NotStartedTwice` (an action property: each
   action that gives a command has a guard which by the invariant excludes a
   running process) and `ImplementsLease`, the refinement: `LeaseMove` is a step of
   `WorkspaceLease` or a stutter.

**The input of a terminal.** For any number of controllers, frames, stops,
restarts and failed transactions, under `InputAssumption`: the bounds are numbers.
`IInv` adds to the properties that nothing in the table or in the shell is ahead
of the counters of the row (`Bounded`: the sequence only grows, so that a frame
whose row was pruned is never accepted again), that no accepted frame comes
before a typed one (`NoneOvertaken`), and, for `HonestInput`, what is in between:
what was typed and is not recorded is owed by the supervisor as a repair, unless a
restart forgot it (`Owing`, `Restarted`, `HonestRepair`, `NothingOwed`).
`OrderedInput` and `OutcomesAreTrue` are conjuncts; `NothingPastDoubt` is an
action property and follows from `Acknowledged`: a leased terminal has no
unknown outcome that was not acknowledged.

**A schedule.** For any rule, limit, window, quota and interventions, under
`SchedulesAssumption`: constants have their types, two minutes of the rule are no
less than `Grace` apart, and it has a minute at the horizon or later, because the
planner always finds a next one. `OncePerMinute` and
`Accounted` are not inductive, for two reasons that `IInv` makes up for. A
batch frozen in one transaction is consumed in others: `Ahead` says that its
minutes lie after the cursor, `Behind` that no recurring occurrence does, and
`Complete` that a batch holds each minute of the rule up to its last one or is
going to omit it. And a pass acts on what an earlier transaction read:
`Foreseen` bounds what it may have read, `Coherent` and `OneOpen` relate an
occurrence with its turn and storage operation. `HaltedStays` speaks of two
states: `Minted` and `Revoked` say that the grant of an occurrence was revoked
with the halt and that no grant is minted twice.

`NoMinuteLost` states `Accounted` with its exception, the minutes in `edge`, so it
delimits the finding `lost_minute`: a minute is lost only where a pass found the
one before it exactly `Grace` old. `SparseRule` removes the exception for every rule
whose minutes are further apart than `Grace`, which leaves the rules with two
consecutive minutes: for the others `edge` stays empty.

**Only model-checked**: the liveness properties `NoTurnStranded`,
`CapacityReturns`, `EmergencySettles`, `FileSettles`, `StopHeard`,
`EmergencyHeard`, `ProjectReopens`, `InputSettles` and `OccurrenceSettles`. The
proof system has no rules for liveness under fairness, nor for `ENABLED`.

## 7. Disagreements found

Each is a run that TLC ends with a counterexample, and an entry of `findings`.

- **`not_started`** (`main.ts:1920`). A reused runtime disconnects after
  `turn/start` was written and before the response. The poison callback deletes
  the map entry, so the catch clause takes the dispatch for one that never
  created a runtime and records "no native request was dispatched".
  `design/architecture.md:206` asks to show the uncertainty "instead of
  inferring that no action happened". `FailuresAreOwn` proves that it takes a
  reused runtime. The same clause (`main.ts:1920-1926`) also relabels a turn that
  *succeeded*: a reused runtime ends its turn and disconnects before the tick marks
  the turn running, and the transaction that would mark it fails. Hence the
  exception for failed transactions in `OutcomesStand`.
- **`stop_flag`** (`main.ts:1941`, also `main.ts:765-780`). The row of a failed
  dispatch is deleted without clearing a background stop that was requested in
  between; nothing clears the flag afterwards and the conversation refuses turns
  until "background development processes" stop, of which there are none.
  `StopsAreFollowed` proves that only this and the settlement of an unconfirmed
  retirement do so.
- **`emergency_overwrites`** (`main.ts:1094-1096`). The emergency branch reads
  the operation of a runtime and overwrites its state later; a turn that
  succeeded in between is relabelled interrupted. `OutcomesStand` proves that,
  while transactions commit, nothing else overwrites an outcome.
- **`lost_minute`** (`planner.ts:72`). A minute is late when its lag is more than
  60000 ms. With the rule `* * * * *`, 12:00 seen at exactly 12:01:00.000 is in
  time: the batch is that one minute, it has no `rangeFrom`, the next minute is
  sought strictly after the present (12:02), and the batch is finished by setting
  the cursor to 12:01:00.000 (`planner.ts:273-276`). Minute 12:01 gets neither an
  occurrence nor a `MISSED_RANGE` row.
  `design/systems/003-scheduled-execution.md:55` asks not to "silently lose the
  gap". The window is one millisecond of the database's clock, and only rules with
  two consecutive minutes have it (`SparseRule`).

Differences that were met while modelling and have no run of their own:

- `main.ts:1601`: an uncertain turn can be hidden after two failures. A turn is
  admitted to the runtime of its conversation, `runtime.operation` is set, and the
  transaction does not commit; the read or the update of the catch clause
  (`main.ts:1912-1920`) fails as well, as in an outage of the database. The turn
  stays queued while the runtime names it. The runtime disconnects; its poison
  callback starts `update(…, "uncertain")`, which fails or is delayed
  (`main.ts:1636`, repaired later). A later turn of the conversation is sent in the
  meantime, then the update commits (`main.ts:534` lets a queued turn become
  uncertain), and the later turn's own events write `sessions.state` over it. TLC
  finds this with three turns of one conversation and `MaxLost = 2`, in a
  behaviour of 49 steps, too deep for a run of this project; two turns and one
  failed transaction do not suffice (`conversation`), nor do any number of
  failures that spare the reuse (`UncertainIsShown`).
- `terminals.ts:424`: whether accepted input of a terminal that a restart left
  behind is shown as uncertain depends on `failure_code` still being
  `SUPERVISOR_RESTARTED`; lines 446 and 497 overwrite it, and such a frame is then
  denied although its bytes may have been written just before the crash.
  `design/systems/002-workspaces-and-resources.md:178` asks for uncertain. This is
  why the denied half of `HonestInput` is limited to runs without a crash.
- `settlement.ts:7-11,60-78`: an acknowledged uncertain occurrence is selected
  again in each pass and sets a renewed schedule back to `attention`.
- `planner.ts:117-277`: a pause or an edit in the middle of a catch-up drops the
  record of the minutes the batch was going to omit (`Accounted` is claimed for
  an enabled schedule since its activation).
- `worker.ts:116-120`: the update to `attention` tests neither revision nor grant;
  a one-time schedule whose occurrence is skipped or cancelled before it has a
  turn stays enabled.
- after a clock was set back and the schedule resumed, the next minute is refused
  as not due yet and the schedule needs attention.
- `apps/api/src/files.ts:338-388` against `files.ts:93-103`: a request that was
  checked before a restart may be inserted after the startup recovery, which
  takes no project row, has failed the requests that depended on the same
  uncertainty (`design/systems/002-workspaces-and-resources.md:122`).
- `workspace-storage.ts:112-123`: an archived workspace whose removal fails is
  made ready.
- `previews.ts:402-497`: when only the reply of a retirement's COMMIT is lost, the
  handle stays; its reason to stop gives up each later start of the preview, until
  the supervisor restarts.

## 8. What is abstracted and what is not modelled

Abstracted in `ConversationRuntimes`, and why it is sound:

- consecutive statements of a dispatch with no reader in between are one step
  (`Claim`, `main.ts:1799-1862`); the catch clause's read of the state and its
  update are one step, because both are under the session lock or protected by
  `update()`;
- `sessions.state` is projected on `uncertain`, the only value control reads;
  queue reasons are display;
- the order in which members are evicted, and that the reconciliation uses stop
  flags read with the member list, are left open or read afresh: the model has
  more behaviours;
- a notification of a poisoned mailbox is dropped when the mailbox is poisoned
  rather than when it is next looked at;
- the backlog limit, a failed handler, a disconnect and an interruption that is
  not confirmed are one action, `Poison`, which may happen at any time;
- `Forget` clears fields of a retiring runtime nobody reads again;
- the flag `emergency` is never cleared by running code (a restore does, with
  every service stopped).

In the managed profile:

- rows are identified with the work they stand for; a terminal, a file operation
  and a storage operation are used once, a preview and a conversation again and
  again, as in the code. Generations and epochs are left out where `state`, `held`
  and `live` say the same: each loop handles one row at a time and rereads it
  under the lock with its epoch;
- the time at which a deadline passes or a process fails is left open
  (`FailTerminal`, `FailPreview`);
- the loops interleave freely, although the terminals' and previews' timers and
  the tick are one event loop: each awaits the database in every step;
- the content of files, the base version a save is checked against and the Git
  index are not modelled: an answer that rejects the command as stale is a
  failure without effect;
- the conversation of this profile is reduced to its reservation; what happens
  to its turn is the subject of `ConversationRuntimes`;
- a schedule's turn and its storage operation move as their own modules say, under
  the authority of the occurrence. The early answer of an admission whose row
  exists already (`admission.ts:152-191`) coincides with a hint that is no longer
  `Fresh`: the row and the cursor are written in one transaction;
- in `TerminalInput` the flush of a retirement that fails (`terminals.ts:403`) is one
  step with the retirement, although it is a transaction of its own;
- a runtime of this profile is never continued: `main.ts:1511-1518` asks
  `claimWorkspace` for reuse only in the personal profile;
- the emergency flag is never cleared, as above.

Not modelled: graceful `stop()`, discovery, credential clearing, the approvals
table, cancel rows, the mailbox's backlog, the fence and inspection of a session
recovery, event replay, quotas and idempotency records, terminal resize and
output, the preview gateway, time zones, attachments, tokens, and all components
listed as `not_modelled` in `PROJECT.json`. The web UI, contracts, infrastructure
and the I/O of cgroups, files and HTTP gateways stay out: they keep no state the
properties relate.

## 9. Plan

What remains, most important first:

1. **`SessionRecovery`**: fencing by generation, inspection, repair and
   acknowledgement in separate transactions; two recoveries, one crash, one lost
   COMMIT. It composes with `ConversationWriters` through `ack` and the generation.
2. **`RuntimeMailbox`, `Approvals`, `TurnCancellation`**: the queue of
   notifications and its limits; ask, answer, deliver, expire; cancel rows and
   their repair. Abstract specification: a request is answered at most once.
3. **`EventReplay`** (append, prune, stream; a viewer sees a gap-free prefix or a
   resync) and **`Credentials`**.
4. **Proofs**: what the runs check of safety is proved. Left are the properties
   of the modules above; the proof that a session recovery composes with the
   workspaces can reuse the frames of `ManagedWorkspaces_proofs`.
