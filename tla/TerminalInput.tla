--------------------------- MODULE TerminalInput ---------------------------
(***************************************************************************)
(* What is typed into one terminal.  A controller holds a short lease, its *)
(* frames are accepted into a durable mailbox by the API, and the loop of  *)
(* TerminalSupervisor writes them to the shell, one at a time, each inside *)
(* the transaction that marks it: the bytes leave before the COMMIT.  How  *)
(* a terminal gets and returns its workspace is in TerminalProcesses.      *)
(***************************************************************************)
EXTENDS Naturals, FiniteSets, Sequences

CONSTANTS
    MaxEpoch,       \* bound: takeovers of the control
    MaxInput,       \* bound: frames of one controller
    Pending,        \* frames that may wait (128)
    Retained,       \* settled frames kept for reconciliation (128)
    MaxStops,       \* terminations an owner may ask for (3)
    MaxAlarms,      \* bound: emergency stops
    MaxCrashes,     \* bound: restarts of the supervisor
    MaxLost         \* bound: transactions that fail or whose reply is lost

Number == Nat \ {0}

ASSUME InputAssumption ==
    /\ {Pending, Retained} \subseteq Number
    /\ {MaxEpoch, MaxInput, MaxStops, MaxAlarms, MaxCrashes, MaxLost} \subseteq Nat

Frame == (1..MaxEpoch) \X (1..MaxInput)     \* controller_epoch, sequence

VARIABLES
    \* the rows of terminals and terminal_input
    state, failure, epoch, leased, high, doubt, row,
    emergency, expired,     \* harbor_meta.emergency; the deadline has passed
    \* TerminalSupervisor: the handle, the outcome it owes, the shell's exit
    handle, repair, exit, at, cur, booting,
    \* the shell: its runtime may still run; what was typed into it
    alive, typed,
    stops, alarms, crashes, lost

database == <<state, failure, epoch, leased, high, doubt, row>>
fences == <<emergency, expired>>
memory == <<handle, repair, exit, at, cur, booting>>
shell == <<alive, typed>>
bounds == <<stops, alarms, crashes, lost>>
vars == <<database, fences, memory, shell, bounds>>

None == <<0, 0>>
NoRepair == [frame |-> None, outcome |-> "none"]
Outcome == {"delivered", "denied", "uncertain"}
Waiting == {"accepted", "dispatching"}

Before(f, g) == f[1] < g[1] \/ (f[1] = g[1] /\ f[2] < g[2])
Typed == {typed[i] : i \in 1..Len(typed)}

Init ==
    /\ state = "running" /\ failure = "none"
    /\ epoch = 0 /\ leased = FALSE /\ high = 0 /\ doubt = FALSE
    /\ row = [f \in Frame |-> "none"]
    /\ emergency = FALSE /\ expired = FALSE
    /\ handle = "open" /\ repair = NoRepair /\ exit = FALSE
    /\ at = "idle" /\ cur = None /\ booting = FALSE
    /\ alive = TRUE /\ typed = <<>>
    /\ stops = 0 /\ alarms = 0 /\ crashes = 0 /\ lost = 0

-----------------------------------------------------------------------------
\* The API.

\* acquireControl(): an input in doubt has to be acknowledged; the flag of the
\* request is \E-bound, so that a takeover is possible only with it.
TakeControl ==
    /\ state = "running" /\ ~expired /\ epoch < MaxEpoch
    /\ \E acknowledged \in BOOLEAN : doubt => acknowledged
    /\ epoch' = epoch + 1 /\ leased' = TRUE /\ high' = 0 /\ doubt' = FALSE
    /\ UNCHANGED <<state, failure, row, fences, memory, shell, bounds>>

\* requireController()
Controls(f) == state = "running" /\ f[1] = epoch /\ leased /\ ~expired

\* acceptInput(): a retained row is answered as it is, an old sequence has
\* expired, a gap is refused.
AcceptInput(f) ==
    /\ row[f] = "none" /\ Controls(f)
    /\ f[2] = high + 1
    /\ Cardinality({g \in Frame : row[g] \in Waiting}) < Pending
    /\ high' = f[2]
    /\ row' = [row EXCEPT ![f] = "accepted"]
    /\ UNCHANGED <<state, failure, epoch, leased, doubt, fences, memory, shell, bounds>>

\* No heartbeat for 20 seconds, or the viewer's socket closes.
ReleaseControl ==
    /\ leased /\ leased' = FALSE
    /\ UNCHANGED <<state, failure, epoch, high, doubt, row, fences, memory, shell, bounds>>

\* POST /terminals/:id/terminate
Terminate ==
    /\ state # "retired" /\ stops < MaxStops
    /\ stops' = stops + 1
    /\ state' = "retiring" /\ leased' = FALSE
    /\ UNCHANGED <<failure, epoch, high, doubt, row, fences, memory, shell,
                   alarms, crashes, lost>>

Alarm ==
    /\ \/ ~emergency /\ alarms < MaxAlarms /\ alarms' = alarms + 1
       \/ emergency /\ UNCHANGED alarms
    /\ emergency' = ~emergency
    /\ UNCHANGED <<database, expired, memory, shell, stops, crashes, lost>>

\* The lifetime of 24 hours ends.
Expire ==
    /\ ~expired /\ expired' = TRUE
    /\ UNCHANGED <<database, emergency, memory, shell, bounds>>

-----------------------------------------------------------------------------
\* The loop of the supervisor.

Faulty == lost < MaxLost /\ lost' = lost + 1

\* pruneInput() keeps the latest settled rows.
Prune(rows) ==
    LET settled == {f \in Frame : rows[f] \in Outcome}
    IN  [f \in Frame |->
           IF f \in settled /\ Cardinality({g \in settled : Before(f, g)}) >= Retained
           THEN "none" ELSE rows[f]]

Repaired == IF repair # NoRepair /\ row[repair.frame] \in Waiting
            THEN [row EXCEPT ![repair.frame] = repair.outcome] ELSE row

\* (seeded fault) the controller keeps its lease although an input is in doubt.
FlushKeepingControl ==
    LET ended == exit /\ state = "running"
    IN  /\ row' = Prune(Repaired)
        /\ doubt' = (doubt \/ repair.outcome = "uncertain")
        /\ leased' = (leased /\ ~ended)
        /\ state' = IF ended THEN "exited" ELSE state
        /\ UNCHANGED <<failure, epoch, high>>

\* flush(): the outcome owed, and the exit of the shell.
Flush ==
    LET unsure == repair.outcome = "uncertain"
        ended == exit /\ state = "running"
    IN  /\ row' = Prune(Repaired)
        /\ doubt' = (doubt \/ unsure)
        /\ leased' = (leased /\ ~unsure /\ ~ended)
        /\ state' = IF ended THEN "exited" ELSE state
        /\ UNCHANGED <<failure, epoch, high>>

FlushDone == Flush /\ repair' = NoRepair /\ exit' = FALSE /\ UNCHANGED lost

\* Its transaction fails, or only its reply is lost: the tick ends here and
\* what is owed stays owed.
FlushLost == Faulty /\ (Flush \/ UNCHANGED database) /\ UNCHANGED <<repair, exit>>

Due(read) ==
    IF read = "retired" THEN "idle"
    ELSE IF read # "uncertain" /\ (emergency \/ expired \/ handle = "broken")
    THEN "giveup"
    ELSE IF read = "retiring" THEN "retire"
    ELSE IF read = "running" /\ handle # "none" THEN "loop"
    ELSE "idle"

\* A tick first writes what every handle owes, then reads the rows.
BeginTick ==
    /\ at = "idle" /\ ~booting
    /\ \/ /\ handle # "none"
          /\ \/ FlushDone /\ at' = Due(state')
             \/ FlushLost /\ at' = "idle"
       \/ /\ handle = "none" /\ at' = Due(state)
          /\ UNCHANGED <<database, repair, exit, lost>>
    /\ UNCHANGED <<fences, handle, cur, booting, shell, stops, alarms, crashes>>

GiveUp ==
    /\ at = "giveup" /\ at' = "retire"
    /\ IF state = "retired" THEN UNCHANGED <<state, failure, leased>>
       ELSE state' = "retiring" /\ failure' = "given up" /\ leased' = FALSE
    /\ UNCHANGED <<epoch, high, doubt, row, fences, handle, repair, exit, cur,
                   booting, shell, bounds>>

\* retire(): the runtime is gone; what was not sent is denied.  Nobody knows
\* what a supervisor that ended had sent.
Orphaned == handle = "none" /\ failure = "restarted"

\* (seeded fault) only inputs that were not sent are settled.
RetireAccepted ==
    /\ at = "retire" /\ at' = "idle"
    /\ alive' = FALSE
    /\ row' = Prune([f \in Frame |-> IF Repaired[f] = "accepted" THEN "denied"
                                     ELSE Repaired[f]])
    /\ state' = "retired" /\ leased' = FALSE
    /\ handle' = "none" /\ repair' = NoRepair /\ exit' = FALSE
    /\ UNCHANGED <<failure, epoch, high, doubt, fences, cur, booting, typed, bounds>>

Retire ==
    /\ at = "retire" /\ at' = "idle"
    /\ alive' = FALSE
    /\ LET left == {f \in Frame : Repaired[f] \in Waiting}
           unsure == {f \in left : Repaired[f] = "dispatching" \/ Orphaned}
       IN  /\ row' = Prune([f \in Frame |-> IF f \in unsure THEN "uncertain"
                                            ELSE IF f \in left THEN "denied"
                                            ELSE Repaired[f]])
           /\ doubt' = (doubt \/ repair.outcome = "uncertain" \/ unsure # {})
    /\ state' = "retired" /\ leased' = FALSE
    /\ handle' = "none" /\ repair' = NoRepair /\ exit' = FALSE
    /\ UNCHANGED <<failure, epoch, high, fences, cur, booting, typed, bounds>>

\* The runtime is not confirmed gone, or a transaction fails: the handle stays.
RetireFails ==
    /\ at = "retire" /\ at' = "idle"
    /\ alive' \in {alive, FALSE}
    /\ state' = "uncertain" /\ failure' = "unconfirmed" /\ leased' = FALSE
    /\ UNCHANGED <<epoch, high, doubt, row, fences, handle, repair, exit, cur,
                   booting, typed, bounds>>

\* (seeded fault) the accepted frames in any order.
AnyAccepted(f) == at = "loop" /\ row[f] = "accepted"

\* The accepted frames in the order of epoch and sequence.
First(f) == /\ at = "loop" /\ row[f] = "accepted"
            /\ \A g \in Frame : row[g] = "accepted" => ~Before(g, f)

EndLoop ==
    /\ at = "loop" /\ at' = "idle"
    /\ \A f \in Frame : row[f] # "accepted"
    /\ UNCHANGED <<database, fences, handle, repair, exit, cur, booting, shell, bounds>>

\* wire(): everything is checked again under the locks.
Sendable(f) == First(f) /\ handle = "open" /\ ~emergency /\ Controls(f) /\ ~exit

\* The bytes are written: they reach the shell, or are lost with the pipe.
Write(f) == \/ alive /\ typed' = Append(typed, f)
            \/ UNCHANGED typed

\* (seeded fault) the outcome is owed for the frame sent before.
OweCurrent(f, outcome) == repair' = [frame |-> cur, outcome |-> outcome] /\ at' = "flush"

Owe(f, outcome) == repair' = [frame |-> f, outcome |-> outcome] /\ at' = "flush"

SendInput(f) ==
    /\ Sendable(f) /\ Write(f)
    /\ row' = [row EXCEPT ![f] = "dispatching"]
    /\ cur' = f /\ at' = "answer"
    /\ UNCHANGED <<state, failure, epoch, leased, high, doubt, fences, handle,
                   repair, exit, booting, alive, bounds>>

\* (seeded fault) a transaction that fails is taken as proof that nothing left.
SendDenied(f) ==
    /\ Sendable(f) /\ Write(f) /\ Faulty
    /\ row' \in {row, [row EXCEPT ![f] = "dispatching"]}
    /\ Owe(f, "denied")
    /\ UNCHANGED <<state, failure, epoch, leased, high, doubt, fences, handle,
                   exit, cur, booting, alive, stops, alarms, crashes>>

\* The bytes are written, then the COMMIT fails or its reply is lost.
SendLost(f) ==
    /\ Sendable(f) /\ Write(f) /\ Faulty
    /\ row' \in {row, [row EXCEPT ![f] = "dispatching"]}
    /\ Owe(f, "uncertain")
    /\ UNCHANGED <<state, failure, epoch, leased, high, doubt, fences, handle,
                   exit, cur, booting, alive, stops, alarms, crashes>>

\* Refused by a check, or by a transaction that fails before the bytes leave.
DenyInput(f) ==
    /\ First(f)
    /\ \/ ~Sendable(f) /\ UNCHANGED lost
       \/ Sendable(f) /\ Faulty
    /\ Owe(f, "denied")
    /\ UNCHANGED <<database, fences, handle, exit, cur, booting, shell, stops,
                   alarms, crashes>>

\* The native acknowledgement, or none in time.
AnswerInput ==
    /\ at = "answer" /\ cur' = None
    /\ \/ cur \in Typed /\ Owe(cur, "delivered")
       \/ Owe(cur, "uncertain")
    /\ UNCHANGED <<database, fences, handle, exit, booting, shell, bounds>>

FlushInput ==
    /\ at = "flush"
    /\ \/ FlushDone /\ at' = IF repair.outcome = "uncertain" THEN "idle" ELSE "loop"
       \/ FlushLost /\ at' = "idle"
    /\ UNCHANGED <<fences, handle, cur, booting, shell, stops, alarms, crashes>>

-----------------------------------------------------------------------------
\* The shell and its runtime.

ExitShell ==
    /\ alive /\ handle = "open" /\ ~exit /\ state = "running"
    /\ exit' = TRUE
    /\ UNCHANGED <<database, fences, handle, repair, at, cur, booting, shell, bounds>>

BreakHandle ==
    /\ handle = "open" /\ handle' = "broken"
    /\ UNCHANGED <<database, fences, repair, exit, at, cur, booting, shell, bounds>>

Forget ==
    /\ crashes < MaxCrashes /\ crashes' = crashes + 1
    /\ handle' = "none" /\ repair' = NoRepair /\ exit' = FALSE
    /\ at' = "idle" /\ cur' = None /\ booting' = TRUE
    /\ UNCHANGED <<database, fences, alive, stops, alarms, lost>>

\* The supervisor ends anywhere: also after it wrote the bytes of a frame and
\* before the COMMIT that says so.
Crash == Forget /\ UNCHANGED typed

CrashSending(f) == Sendable(f) /\ Write(f) /\ Forget

\* The first tick after a start.
Boot ==
    /\ booting /\ booting' = FALSE
    /\ IF state = "retired" THEN UNCHANGED <<state, failure, leased>>
       ELSE state' = "retiring" /\ failure' = "restarted" /\ leased' = FALSE
    /\ UNCHANGED <<epoch, high, doubt, row, fences, handle, repair, exit, at,
                   cur, shell, bounds>>

Supervisor == \/ BeginTick \/ GiveUp \/ Retire \/ RetireFails \/ EndLoop
              \/ AnswerInput \/ FlushInput \/ Boot
              \/ \E f \in Frame : SendInput(f) \/ SendLost(f) \/ DenyInput(f)

Next == \/ TakeControl \/ ReleaseControl \/ Terminate \/ Alarm \/ Expire
        \/ Supervisor
        \/ ExitShell \/ BreakHandle \/ Crash
        \/ \E f \in Frame : AcceptInput(f) \/ CrashSending(f)

Spec == Init /\ [][Next]_vars

\* The tick runs every 100 ms and bounds what it waits for; a lifetime ends.
LiveSpec == Spec /\ WF_vars(Supervisor) /\ WF_vars(Expire)

-----------------------------------------------------------------------------
TypeOK ==
    /\ state \in {"running", "exited", "retiring", "uncertain", "retired"}
    /\ failure \in {"none", "restarted", "given up", "unconfirmed"}
    /\ epoch \in 0..MaxEpoch /\ high \in 0..MaxInput
    /\ row \in [Frame -> {"none"} \cup Waiting \cup Outcome]
    /\ {leased, doubt, emergency, expired, exit, booting, alive} \subseteq BOOLEAN
    /\ handle \in {"none", "open", "broken"}
    /\ repair \in [frame : Frame, outcome : Outcome] \cup {NoRepair}
    /\ at \in {"idle", "giveup", "retire", "loop", "answer", "flush"}
    /\ cur \in Frame \cup {None}
    /\ typed \in Seq(Frame)
    /\ {stops, alarms, crashes, lost} \subseteq Nat

\* The shell never gets the same keystrokes twice nor in another order, though
\* rows are pruned, transactions lost after the bytes left, and frames retried.
TypedInOrder == \A i, j \in 1..Len(typed) : i < j => Before(typed[i], typed[j])

\* Nothing is typed past an input nobody knows the outcome of: when bytes leave,
\* every earlier frame that reached the shell has its outcome in the database,
\* and a doubt about one was acknowledged by whoever controls the terminal.
StopsAtDoubt == [][typed' # typed =>
                     /\ ~doubt
                     /\ \A f \in Typed : row[f] \notin Waiting]_vars

\* What the owner reads: a delivered input reached the shell; a denied one did
\* not, as long as the supervisor that could have sent it has not ended.
HonestInput == \A f \in Frame : /\ row[f] = "delivered" => f \in Typed
                                /\ row[f] = "denied" /\ crashes = 0 => f \notin Typed

\* Every accepted input gets an outcome, unless the retirement is uncertain.
InputSettles == \A f \in Frame :
    row[f] \in Waiting ~> row[f] \notin Waiting \/ state = "uncertain"
=============================================================================
