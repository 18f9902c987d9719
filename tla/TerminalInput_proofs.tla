----------------------- MODULE TerminalInput_proofs -----------------------
(***************************************************************************)
(* What is typed into a terminal arrives once and in order, nothing is     *)
(* typed past a doubt, and the outcomes shown are true: for any number of  *)
(* controllers, frames, restarts and failing transactions.                 *)
(***************************************************************************)
EXTENDS TerminalInput, TLAPS

-----------------------------------------------------------------------------
(* The inductive invariant.                                                *)

\* The sequence of a controller only grows: what has a row, or was typed, is not
\* ahead of it, so that an old frame is never accepted again once its row is
\* pruned.
NotAhead(f) == f[1] <= epoch /\ (f[1] = epoch => f[2] <= high)
Bounded == \A f \in Frame : row[f] # "none" \/ f \in Typed => NotAhead(f)

\* No frame that waits comes before one that was typed.
NoneOvertaken == \A f, g \in Frame : row[f] = "accepted" /\ g \in Typed => ~Before(f, g)

\* The loop goes on only when it owes nothing.
NothingOwed == /\ at \in {"loop", "answer"} => repair = NoRepair
               /\ at = "answer" => cur \in Frame
               /\ booting => at = "idle"

\* The supervisor that wrote a frame still runs, or the terminal no longer does.
Remembered == crashes = 0 \/ (state = "running" /\ ~booting)

\* Then a typed frame whose row says otherwise is one it owes an outcome for.
Owing == Remembered =>
    \A f \in Frame :
       /\ row[f] = "accepted" /\ f \in Typed => repair.frame = f
       /\ row[f] = "dispatching" => repair.frame = f \/ (at = "answer" /\ cur = f)

Restarted == booting \/ failure = "restarted" => crashes > 0

\* What it owes is as true as what is written.
HonestRepair == /\ repair.outcome = "delivered" => repair.frame \in Typed
                /\ repair.outcome = "denied" /\ crashes = 0 => repair.frame \notin Typed

\* Whoever controls the terminal has acknowledged every doubt.
Acknowledged == leased => ~doubt

IInv == /\ TypeOK /\ Bounded /\ NoneOvertaken /\ TypedInOrder /\ NothingOwed
        /\ Owing /\ Restarted /\ HonestRepair /\ HonestInput /\ Acknowledged

-----------------------------------------------------------------------------
(* Lemmas about frames, rows and the shell.                                *)

\* Any two frames come one before the other.
LEMMA Frames ==
    /\ None \notin Frame
    /\ \A f \in Frame : f[1] \in Nat /\ f[2] \in Nat
    /\ \A f, g \in Frame : f # g => Before(f, g) \/ Before(g, f)
<1>1. \A f \in Frame : f = <<f[1], f[2]>> /\ f[1] \in 1..MaxEpoch /\ f[2] \in 1..MaxInput
  BY DEF Frame
<1>2. \A f \in Frame : f[1] \in Nat \ {0} /\ f[2] \in Nat \ {0}
  BY <1>1, InputAssumption
<1>3. None \notin Frame
  BY <1>2 DEF None
<1>4. ASSUME NEW f \in Frame, NEW g \in Frame, f # g PROVE Before(f, g) \/ Before(g, f)
  BY <1>1, <1>2, <1>4 DEF Before
<1> QED BY <1>2, <1>3, <1>4

\* pruneInput() removes settled rows only and changes no other.
LEMMA Pruned ==
    ASSUME NEW S, NEW rows \in [Frame -> S]
    PROVE  /\ Prune(rows) \in [Frame -> S \cup {"none"}]
           /\ \A f \in Frame : /\ Prune(rows)[f] \in {rows[f], "none"}
                               /\ rows[f] \notin Outcome => Prune(rows)[f] = rows[f]
<1> DEFINE settled == {f \in Frame : rows[f] \in Outcome}
           old(f) == f \in settled /\ Cardinality({g \in settled : Before(f, g)}) >= Retained
<1>1. Prune(rows) = [f \in Frame |-> IF old(f) THEN "none" ELSE rows[f]]
  BY DEF Prune
<1>2. \A f \in Frame : old(f) => rows[f] \in Outcome
  OBVIOUS
<1>3. \A f \in Frame : (IF old(f) THEN "none" ELSE rows[f]) \in S \cup {"none"}
  OBVIOUS
<1>4. Prune(rows) \in [Frame -> S \cup {"none"}]
  BY <1>1, <1>3, Zenon
<1>5. \A f \in Frame : Prune(rows)[f] = IF old(f) THEN "none" ELSE rows[f]
  BY <1>1, Zenon
<1> QED BY <1>2, <1>4, <1>5

\* The outcome owed is written to a row that still waits for one.
LEMMA RepairedRows ==
    ASSUME TypeOK
    PROVE  /\ Repaired \in [Frame -> {"none"} \cup Waiting \cup Outcome]
           /\ \A f \in Frame : Repaired[f] = IF repair.frame = f /\ row[f] \in Waiting
                                             THEN repair.outcome ELSE row[f]
           /\ \A f \in Frame : repair.frame = f => repair.outcome \in Outcome
<1>1. CASE repair = NoRepair
  BY <1>1, Frames DEF TypeOK, Repaired, NoRepair
<1>2. CASE repair \in [frame : Frame, outcome : Outcome]
  <2>1. repair.frame \in Frame /\ repair.outcome \in Outcome
    BY <1>2
  <2>2. repair # NoRepair
    BY <2>1, Frames DEF NoRepair
  <2> QED BY <2>1, <2>2 DEF TypeOK, Repaired
<1> QED BY <1>1, <1>2 DEF TypeOK

\* When nothing is typed, what was typed is the same.
LEMMA NothingTyped ==
    typed' = typed => Typed' = Typed /\ (TypedInOrder => TypedInOrder')
<1>1. typed' = typed => Typed' = Typed
  BY DEF Typed
<1>2. typed' = typed => (TypedInOrder => TypedInOrder')
  BY DEF TypedInOrder
<1> QED BY <1>1, <1>2

\* What reached the shell is a sequence of frames.
LEMMA TypedFrames == TypeOK => Typed \subseteq Frame
<1> SUFFICES ASSUME TypeOK PROVE Typed \subseteq Frame
  OBVIOUS
<1>1. typed \in Seq(Frame)
  BY DEF TypeOK
<1>2. \A i \in 1..Len(typed) : typed[i] \in Frame
  BY <1>1
<1> QED BY <1>2 DEF Typed

\* What every write of the supervisor relies on: the frame was never typed, every
\* typed one comes before it and has its outcome, and no doubt is open.
LEMMA Written ==
    ASSUME IInv, NEW f \in Frame, Sendable(f), Write(f)
    PROVE  /\ ~doubt /\ repair = NoRepair /\ at = "loop" /\ row[f] = "accepted"
           /\ f \notin Typed
           /\ \A g \in Typed : row[g] \notin Waiting /\ Before(g, f)
           /\ \A g \in Frame : row[g] = "accepted" => ~Before(g, f)
           /\ \A g \in Frame : row[g] # "dispatching"
           /\ typed' \in Seq(Frame) /\ TypedInOrder'
           /\ Typed' = Typed \/ Typed' = Typed \cup {f}
           /\ NotAhead(f)
<1>1. at = "loop" /\ row[f] = "accepted" /\ state = "running" /\ leased
  BY DEF Sendable, First, Controls
<1>2. ~doubt /\ repair = NoRepair /\ ~booting
  BY <1>1 DEF IInv, TypeOK, Acknowledged, NothingOwed
<1>3. \A g \in Frame : repair.frame # g
  BY <1>2, Frames DEF NoRepair
<1>4. \A g \in Frame : /\ row[g] = "accepted" => g \notin Typed
                       /\ row[g] # "dispatching"
  BY <1>1, <1>2, <1>3 DEF IInv, Owing, Remembered
<1>5. \A g \in Typed : g \in Frame /\ row[g] \notin Waiting /\ Before(g, f)
  BY <1>1, <1>4, Frames, TypedFrames DEF IInv, NoneOvertaken, Waiting
<1>6. \A g \in Frame : row[g] = "accepted" => ~Before(g, f)
  BY DEF Sendable, First
<1>7. NotAhead(f)
  BY <1>1 DEF IInv, Bounded
<1>8. ASSUME typed' = Append(typed, f)
      PROVE  typed' \in Seq(Frame) /\ TypedInOrder' /\ Typed' = Typed \cup {f}
  <2>1. typed \in Seq(Frame)
    BY DEF IInv, TypeOK
  <2>2. /\ typed' \in Seq(Frame) /\ Len(typed) \in Nat /\ Len(typed') = Len(typed) + 1
        /\ \A i \in 1..Len(typed) : typed'[i] = typed[i]
        /\ typed'[Len(typed) + 1] = f
    BY <1>8, <2>1
  <2>3. \A i \in 1..Len(typed) : typed[i] \in Typed
    BY DEF Typed
  <2>4. TypedInOrder'
    BY <1>5, <2>2, <2>3 DEF IInv, TypedInOrder
  <2>5. Typed' = Typed \cup {f}
    BY <2>2 DEF Typed
  <2> QED BY <2>2, <2>4, <2>5
<1>9. typed' = typed \/ typed' = Append(typed, f)
  BY DEF Write
<1>10. typed' = typed => typed' \in Seq(Frame) /\ TypedInOrder' /\ Typed' = Typed
  BY NothingTyped DEF IInv, TypeOK
<1> QED
  BY <1>1, <1>2, <1>4, <1>5, <1>6, <1>7, <1>8, <1>9, <1>10

-----------------------------------------------------------------------------
(* Typing, in parts: rows, the loop, flags and counters.                   *)

USE DEF database, fences, memory, shell, bounds, Faulty

RowsTyped ==
    /\ state \in {"running", "exited", "retiring", "uncertain", "retired"}
    /\ failure \in {"none", "restarted", "given up", "unconfirmed"}
    /\ epoch \in 0..MaxEpoch /\ high \in 0..MaxInput
    /\ row \in [Frame -> {"none"} \cup Waiting \cup Outcome]
LoopTyped ==
    /\ handle \in {"none", "open", "broken"}
    /\ repair \in [frame : Frame, outcome : Outcome] \cup {NoRepair}
    /\ at \in {"idle", "giveup", "retire", "loop", "answer", "flush"}
    /\ cur \in Frame \cup {None}
    /\ typed \in Seq(Frame)
FlagsTyped ==
    /\ leased \in BOOLEAN /\ doubt \in BOOLEAN /\ emergency \in BOOLEAN
    /\ expired \in BOOLEAN /\ exit \in BOOLEAN /\ booting \in BOOLEAN /\ alive \in BOOLEAN
CountersTyped ==
    /\ stops \in Nat /\ alarms \in Nat /\ crashes \in Nat /\ lost \in Nat

LEMMA BoundsTyped == MaxEpoch \in Nat /\ MaxInput \in Nat
<1>1. {MaxEpoch, MaxInput, MaxStops, MaxAlarms, MaxCrashes, MaxLost} \subseteq Nat
  BY InputAssumption
<1> QED BY <1>1, Zenon

LEMMA TypeParts ==
    /\ TypeOK <=> RowsTyped /\ LoopTyped /\ FlagsTyped /\ CountersTyped
    /\ TypeOK' <=> RowsTyped' /\ LoopTyped' /\ FlagsTyped' /\ CountersTyped'
<1>1. TypeOK <=> RowsTyped /\ LoopTyped /\ FlagsTyped /\ CountersTyped
  BY Zenon DEF TypeOK, RowsTyped, LoopTyped, FlagsTyped, CountersTyped
<1>2. TypeOK' <=> RowsTyped' /\ LoopTyped' /\ FlagsTyped' /\ CountersTyped'
  BY Zenon DEF TypeOK, RowsTyped, LoopTyped, FlagsTyped, CountersTyped
<1> QED BY <1>1, <1>2

-----------------------------------------------------------------------------
(* Steps that change no row and type nothing.                              *)

Untouched == UNCHANGED <<row, typed, repair, high, epoch, crashes, doubt>>

LEMMA UntouchedStep ==
    ASSUME IInv, TypeOK', Untouched, NothingOwed', Restarted', Remembered' => Remembered,
           at = "answer" => at' = "answer" /\ cur' = cur, leased' => leased
    PROVE  IInv'
<1>1. Typed' = Typed /\ TypedInOrder'
  BY NothingTyped DEF Untouched, IInv
<1>2. Bounded' /\ NoneOvertaken'
  BY <1>1 DEF Untouched, IInv, Bounded, NoneOvertaken, NotAhead, Before
<1>3. Owing'
  BY <1>1 DEF Untouched, IInv, Owing
<1>4. Acknowledged'
  BY DEF Untouched, IInv, Acknowledged
<1>5. HonestRepair' /\ HonestInput'
  BY <1>1 DEF Untouched, IInv, HonestRepair, HonestInput
<1> QED
  BY <1>1, <1>2, <1>3, <1>4, <1>5 DEF IInv

\* The requests and events that only move flags, and the steps of the loop that
\* only move the state of the terminal.
LEMMA FlagSteps ==
    ASSUME IInv, \/ ReleaseControl \/ Terminate \/ Alarm \/ Expire \/ GiveUp \/ RetireFails
                 \/ EndLoop \/ ExitShell \/ BreakHandle \/ Boot
    PROVE  IInv'
<1> USE DEF Untouched, NothingOwed, Restarted, Remembered
<1>1. RowsTyped /\ LoopTyped /\ FlagsTyped /\ CountersTyped
  BY TypeParts DEF IInv
<1>2. NothingOwed /\ Restarted
  BY DEF IInv
<1>3. CASE ReleaseControl
  <2>1. RowsTyped' /\ LoopTyped'
    BY <1>1, <1>3 DEF ReleaseControl, RowsTyped, LoopTyped
  <2>2. FlagsTyped'
    BY <1>1, <1>3 DEF ReleaseControl, FlagsTyped
  <2>5. CountersTyped'
    BY <1>1, <1>3 DEF ReleaseControl, CountersTyped
  <2>3. Untouched /\ NothingOwed' /\ Restarted' /\ (Remembered' => Remembered)
    BY <1>2, <1>3 DEF ReleaseControl
  <2>4. (at = "answer" => at' = "answer" /\ cur' = cur) /\ (leased' => leased)
    BY <1>2, <1>3 DEF ReleaseControl
  <2> QED BY <2>1, <2>2, <2>3, <2>4, <2>5, TypeParts, UntouchedStep
<1>4. CASE Terminate
  <2>1. RowsTyped' /\ LoopTyped'
    BY <1>1, <1>4 DEF Terminate, RowsTyped, LoopTyped
  <2>2. FlagsTyped'
    BY <1>1, <1>4 DEF Terminate, FlagsTyped
  <2>5. CountersTyped'
    BY <1>1, <1>4 DEF Terminate, CountersTyped
  <2>3. Untouched /\ NothingOwed' /\ Restarted' /\ (Remembered' => Remembered)
    BY <1>2, <1>4 DEF Terminate
  <2>4. (at = "answer" => at' = "answer" /\ cur' = cur) /\ (leased' => leased)
    BY <1>2, <1>4 DEF Terminate
  <2> QED BY <2>1, <2>2, <2>3, <2>4, <2>5, TypeParts, UntouchedStep
<1>5. CASE Alarm
  <2>1. RowsTyped' /\ LoopTyped'
    BY <1>1, <1>5 DEF Alarm, RowsTyped, LoopTyped
  <2>2. FlagsTyped'
    BY <1>1, <1>5 DEF Alarm, FlagsTyped
  <2>5. CountersTyped'
    BY <1>1, <1>5 DEF Alarm, CountersTyped
  <2>3. Untouched /\ NothingOwed' /\ Restarted' /\ (Remembered' => Remembered)
    BY <1>2, <1>5 DEF Alarm
  <2>4. (at = "answer" => at' = "answer" /\ cur' = cur) /\ (leased' => leased)
    BY <1>2, <1>5 DEF Alarm
  <2> QED BY <2>1, <2>2, <2>3, <2>4, <2>5, TypeParts, UntouchedStep
<1>6. CASE Expire
  <2>1. RowsTyped' /\ LoopTyped'
    BY <1>1, <1>6 DEF Expire, RowsTyped, LoopTyped
  <2>2. FlagsTyped'
    BY <1>1, <1>6 DEF Expire, FlagsTyped
  <2>5. CountersTyped'
    BY <1>1, <1>6 DEF Expire, CountersTyped
  <2>3. Untouched /\ NothingOwed' /\ Restarted' /\ (Remembered' => Remembered)
    BY <1>2, <1>6 DEF Expire
  <2>4. (at = "answer" => at' = "answer" /\ cur' = cur) /\ (leased' => leased)
    BY <1>2, <1>6 DEF Expire
  <2> QED BY <2>1, <2>2, <2>3, <2>4, <2>5, TypeParts, UntouchedStep
<1>7. CASE GiveUp
  <2>1. RowsTyped' /\ LoopTyped'
    BY <1>1, <1>7 DEF GiveUp, RowsTyped, LoopTyped
  <2>2. FlagsTyped'
    BY <1>1, <1>7 DEF GiveUp, FlagsTyped
  <2>5. CountersTyped'
    BY <1>1, <1>7 DEF GiveUp, CountersTyped
  <2>3. Untouched /\ NothingOwed' /\ Restarted' /\ (Remembered' => Remembered)
    BY <1>2, <1>7 DEF GiveUp
  <2>4. (at = "answer" => at' = "answer" /\ cur' = cur) /\ (leased' => leased)
    BY <1>2, <1>7 DEF GiveUp
  <2> QED BY <2>1, <2>2, <2>3, <2>4, <2>5, TypeParts, UntouchedStep
<1>8. CASE RetireFails
  <2>1. RowsTyped' /\ LoopTyped'
    BY <1>1, <1>8 DEF RetireFails, RowsTyped, LoopTyped
  <2>2. FlagsTyped'
    BY <1>1, <1>8 DEF RetireFails, FlagsTyped
  <2>5. CountersTyped'
    BY <1>1, <1>8 DEF RetireFails, CountersTyped
  <2>3. Untouched /\ NothingOwed' /\ Restarted' /\ (Remembered' => Remembered)
    BY <1>2, <1>8 DEF RetireFails
  <2>4. (at = "answer" => at' = "answer" /\ cur' = cur) /\ (leased' => leased)
    BY <1>2, <1>8 DEF RetireFails
  <2> QED BY <2>1, <2>2, <2>3, <2>4, <2>5, TypeParts, UntouchedStep
<1>9. CASE EndLoop
  <2>1. RowsTyped' /\ LoopTyped'
    BY <1>1, <1>9 DEF EndLoop, RowsTyped, LoopTyped
  <2>2. FlagsTyped'
    BY <1>1, <1>9 DEF EndLoop, FlagsTyped
  <2>5. CountersTyped'
    BY <1>1, <1>9 DEF EndLoop, CountersTyped
  <2>3. Untouched /\ NothingOwed' /\ Restarted' /\ (Remembered' => Remembered)
    BY <1>2, <1>9 DEF EndLoop
  <2>4. (at = "answer" => at' = "answer" /\ cur' = cur) /\ (leased' => leased)
    BY <1>2, <1>9 DEF EndLoop
  <2> QED BY <2>1, <2>2, <2>3, <2>4, <2>5, TypeParts, UntouchedStep
<1>10. CASE ExitShell
  <2>1. RowsTyped' /\ LoopTyped'
    BY <1>1, <1>10 DEF ExitShell, RowsTyped, LoopTyped
  <2>2. FlagsTyped'
    BY <1>1, <1>10 DEF ExitShell, FlagsTyped
  <2>5. CountersTyped'
    BY <1>1, <1>10 DEF ExitShell, CountersTyped
  <2>3. Untouched /\ NothingOwed' /\ Restarted' /\ (Remembered' => Remembered)
    BY <1>2, <1>10 DEF ExitShell
  <2>4. (at = "answer" => at' = "answer" /\ cur' = cur) /\ (leased' => leased)
    BY <1>2, <1>10 DEF ExitShell
  <2> QED BY <2>1, <2>2, <2>3, <2>4, <2>5, TypeParts, UntouchedStep
<1>11. CASE BreakHandle
  <2>1. RowsTyped' /\ LoopTyped'
    BY <1>1, <1>11 DEF BreakHandle, RowsTyped, LoopTyped
  <2>2. FlagsTyped'
    BY <1>1, <1>11 DEF BreakHandle, FlagsTyped
  <2>5. CountersTyped'
    BY <1>1, <1>11 DEF BreakHandle, CountersTyped
  <2>3. Untouched /\ NothingOwed' /\ Restarted' /\ (Remembered' => Remembered)
    BY <1>2, <1>11 DEF BreakHandle
  <2>4. (at = "answer" => at' = "answer" /\ cur' = cur) /\ (leased' => leased)
    BY <1>2, <1>11 DEF BreakHandle
  <2> QED BY <2>1, <2>2, <2>3, <2>4, <2>5, TypeParts, UntouchedStep
<1>12. CASE Boot
  <2>1. RowsTyped' /\ LoopTyped'
    BY <1>1, <1>12 DEF Boot, RowsTyped, LoopTyped
  <2>2. FlagsTyped'
    BY <1>1, <1>12 DEF Boot, FlagsTyped
  <2>5. CountersTyped'
    BY <1>1, <1>12 DEF Boot, CountersTyped
  <2>3. Untouched /\ NothingOwed' /\ Restarted' /\ (Remembered' => Remembered)
    BY <1>2, <1>12 DEF Boot
  <2>4. (at = "answer" => at' = "answer" /\ cur' = cur) /\ (leased' => leased)
    BY <1>2, <1>12 DEF Boot
  <2> QED BY <2>1, <2>2, <2>3, <2>4, <2>5, TypeParts, UntouchedStep
<1> QED BY <1>3, <1>4, <1>5, <1>6, <1>7, <1>8, <1>9, <1>10, <1>11, <1>12

-----------------------------------------------------------------------------
(* The API: control and acceptance.                                        *)

\* acquireControl(): the new controller starts at zero, beyond every frame.
LEMMA TakeControlStep == ASSUME IInv, TakeControl PROVE IInv'
<1>1. Typed' = Typed /\ TypedInOrder'
  BY NothingTyped DEF TakeControl, IInv
<1>2. RowsTyped /\ LoopTyped /\ FlagsTyped /\ CountersTyped
  BY TypeParts DEF IInv
<1>3. epoch \in Nat /\ epoch' = epoch + 1 /\ epoch' \in 0..MaxEpoch /\ high' = 0 /\ 0 \in 0..MaxInput
  <2>1. epoch \in 0..MaxEpoch
    BY <1>2, Zenon DEF RowsTyped
  <2>2. epoch < MaxEpoch /\ epoch' = epoch + 1 /\ high' = 0
    BY DEF TakeControl
  <2> QED BY <2>1, <2>2, BoundsTyped
<1>4. RowsTyped' /\ LoopTyped'
  <2>1. RowsTyped'
    BY <1>2, <1>3 DEF TakeControl, RowsTyped
  <2>2. LoopTyped'
    BY <1>2 DEF TakeControl, LoopTyped
  <2> QED BY <2>1, <2>2
<1>5. FlagsTyped' /\ CountersTyped'
  <2>1. FlagsTyped'
    BY <1>2 DEF TakeControl, FlagsTyped
  <2>2. CountersTyped'
    BY <1>2 DEF TakeControl, CountersTyped
  <2> QED BY <2>1, <2>2
<1>6. Bounded /\ row' = row
  BY DEF TakeControl, IInv
<1>7. Bounded'
  BY <1>1, <1>3, <1>6, Frames DEF Bounded, NotAhead
<1>8. NoneOvertaken'
  BY <1>1, <1>6 DEF IInv, NoneOvertaken, Before
<1>9. NothingOwed' /\ Owing' /\ Restarted'
  BY <1>1 DEF TakeControl, IInv, NothingOwed, Owing, Remembered, Restarted
<1>10. HonestRepair' /\ HonestInput' /\ Acknowledged'
  BY <1>1 DEF TakeControl, IInv, HonestRepair, HonestInput, Acknowledged
<1> QED
  BY <1>1, <1>4, <1>5, <1>7, <1>8, <1>9, <1>10, TypeParts DEF IInv

\* acceptInput(): the frame is ahead of everything its controller sent before.
LEMMA AcceptStep == ASSUME IInv, NEW f \in Frame, AcceptInput(f) PROVE IInv'
<1>1. Typed' = Typed /\ TypedInOrder'
  BY NothingTyped DEF AcceptInput, IInv
<1>2. RowsTyped /\ LoopTyped /\ FlagsTyped /\ CountersTyped
  BY TypeParts DEF IInv
<1>3. f[1] = epoch /\ f[2] = high + 1 /\ row' = [row EXCEPT ![f] = "accepted"] /\ high' = f[2]
      /\ epoch' = epoch
  BY DEF AcceptInput, Controls
<1>4. f[2] \in 1..MaxInput
  BY DEF Frame
<1>5. epoch \in Nat /\ high \in Nat /\ f[2] \in 0..MaxInput
  <2>1. epoch \in 0..MaxEpoch /\ high \in 0..MaxInput
    BY <1>2, Zenon DEF RowsTyped
  <2> QED BY <1>4, <2>1, BoundsTyped
<1>6. \A g \in Frame : row'[g] = IF g = f THEN "accepted" ELSE row[g]
  BY <1>2, <1>3 DEF RowsTyped
<1>7. row' \in [Frame -> {"none"} \cup Waiting \cup Outcome]
  BY <1>2, <1>3 DEF RowsTyped, Waiting
<1>8. RowsTyped' /\ LoopTyped'
  BY <1>2, <1>3, <1>5, <1>7 DEF AcceptInput, RowsTyped, LoopTyped
<1>9. FlagsTyped' /\ CountersTyped'
  <2>1. FlagsTyped'
    BY <1>2 DEF AcceptInput, FlagsTyped
  <2>2. CountersTyped'
    BY <1>2 DEF AcceptInput, CountersTyped
  <2> QED BY <2>1, <2>2
<1>10. \A g \in Frame : row[g] # "none" \/ g \in Typed => NotAhead(g)
  BY DEF IInv, Bounded
<1>11. f \notin Typed
  BY <1>3, <1>5, <1>10 DEF NotAhead
<1>12. Bounded'
  BY <1>1, <1>3, <1>5, <1>6, <1>10, Frames DEF Bounded, NotAhead
<1>13. \A g \in Typed : ~Before(f, g)
  BY <1>3, <1>5, <1>10, TypedFrames, Frames DEF IInv, Before, NotAhead
<1>14. NoneOvertaken'
  BY <1>1, <1>6, <1>13 DEF IInv, NoneOvertaken, Before
<1>15. NothingOwed' /\ Restarted' /\ Acknowledged'
  BY DEF AcceptInput, IInv, NothingOwed, Restarted, Acknowledged
<1>16. Owing'
  BY <1>1, <1>6, <1>11 DEF AcceptInput, IInv, Owing, Remembered
<1>17. HonestRepair' /\ HonestInput'
  BY <1>1, <1>6, <1>11 DEF AcceptInput, IInv, HonestRepair, HonestInput
<1> QED
  BY <1>1, <1>8, <1>9, <1>12, <1>14, <1>15, <1>16, <1>17, TypeParts DEF IInv

-----------------------------------------------------------------------------
(* Outcomes written to rows.                                               *)

\* A step that types nothing and only settles or prunes rows.
LEMMA SettledStep ==
    ASSUME IInv, TypeOK', NothingOwed', Restarted', Owing', HonestRepair', HonestInput',
           Acknowledged', UNCHANGED <<typed, epoch, high>>,
           \A f \in Frame : row'[f] = row[f] \/ row'[f] \notin Waiting,
           \A f \in Frame : row'[f] # "none" => row[f] # "none"
    PROVE  IInv'
<1>1. Typed' = Typed /\ TypedInOrder'
  BY NothingTyped DEF IInv
<1>2. Bounded'
  BY <1>1 DEF IInv, Bounded, NotAhead
<1>3. NoneOvertaken'
  BY <1>1 DEF IInv, NoneOvertaken, Before, Waiting
<1> QED BY <1>1, <1>2, <1>3 DEF IInv

\* What flush() does to the rows.
LEMMA FlushedRows ==
    ASSUME TypeOK, Flush
    PROVE  /\ RowsTyped'
           /\ \A f \in Frame :
                 /\ row'[f] = row[f] \/ row'[f] = "none"
                    \/ (repair.frame = f /\ row[f] \in Waiting /\ row'[f] = repair.outcome)
                 /\ repair.frame = f => row'[f] \notin Waiting
                 /\ row'[f] # "none" => row[f] # "none"
<1>1. RowsTyped
  BY TypeParts
<1>2. Repaired \in [Frame -> {"none"} \cup Waiting \cup Outcome]
  BY RepairedRows
<1>3. \A f \in Frame : /\ Repaired[f] = IF repair.frame = f /\ row[f] \in Waiting
                                        THEN repair.outcome ELSE row[f]
                       /\ repair.frame = f => repair.outcome \in Outcome
  BY RepairedRows
<1>4. row' = Prune(Repaired)
  BY DEF Flush
<1>5. /\ row' \in [Frame -> ({"none"} \cup Waiting \cup Outcome) \cup {"none"}]
      /\ \A f \in Frame : row'[f] \in {Repaired[f], "none"}
  BY <1>2, <1>4, Pruned
<1>6. ({"none"} \cup Waiting \cup Outcome) \cup {"none"} = {"none"} \cup Waiting \cup Outcome
  OBVIOUS
<1>7. row' \in [Frame -> {"none"} \cup Waiting \cup Outcome]
  BY <1>5, <1>6, Zenon
<1>8. UNCHANGED <<failure, epoch, high>> /\ state' \in {state, "exited"}
  BY DEF Flush
<1>9. RowsTyped'
  BY <1>1, <1>7, <1>8 DEF RowsTyped
<1>10. ASSUME NEW f \in Frame
       PROVE  /\ row'[f] = row[f] \/ row'[f] = "none"
                 \/ (repair.frame = f /\ row[f] \in Waiting /\ row'[f] = repair.outcome)
              /\ repair.frame = f => row'[f] \notin Waiting
              /\ row'[f] # "none" => row[f] # "none"
  BY <1>3, <1>5 DEF Waiting, Outcome
<1> QED BY <1>9, <1>10

\* flush(), whether its reply arrives or not: what it settled is true, and what
\* it owes is settled or still owed.
LEMMA FlushedStep ==
    ASSUME IInv, Flush, repair' \in {NoRepair, repair}, at \in {"idle", "flush"},
           LoopTyped', FlagsTyped', CountersTyped', NothingOwed',
           UNCHANGED <<typed, crashes, booting>>
    PROVE  IInv'
<1>1. TypeOK /\ Typed' = Typed
  BY NothingTyped DEF IInv
<1>2. /\ RowsTyped'
      /\ \A f \in Frame :
            /\ row'[f] = row[f] \/ row'[f] = "none"
               \/ (repair.frame = f /\ row[f] \in Waiting /\ row'[f] = repair.outcome)
            /\ repair.frame = f => row'[f] \notin Waiting
            /\ row'[f] # "none" => row[f] # "none"
  BY <1>1, FlushedRows
<1>3. TypeOK'
  BY <1>2, TypeParts
<1>4. \A f \in Frame : repair.frame = f => repair.outcome \in Outcome
  BY <1>1, RepairedRows
<1>5. \A f \in Frame : row'[f] = row[f] \/ row'[f] \notin Waiting
  BY <1>2, <1>4 DEF Waiting, Outcome
<1>6. Owing'
  <2> SUFFICES ASSUME Remembered', NEW f \in Frame, row'[f] \in Waiting
               PROVE  row'[f] = "accepted" /\ f \notin Typed
    BY <1>1 DEF Owing, Waiting
  <2>1. Remembered
    BY DEF Flush, Remembered
  <2>2. row[f] = row'[f] /\ repair.frame # f
    BY <1>2, <1>5
  <2> QED BY <2>1, <2>2 DEF IInv, Owing, Waiting
<1>7. HonestInput'
  <2> SUFFICES ASSUME NEW f \in Frame
               PROVE  /\ row'[f] = "delivered" => f \in Typed
                      /\ row'[f] = "denied" /\ crashes = 0 => f \notin Typed
    BY <1>1 DEF HonestInput
  <2> QED BY <1>2 DEF IInv, HonestInput, HonestRepair
<1>8. HonestRepair'
  BY <1>1 DEF IInv, HonestRepair, NoRepair
<1>9. Restarted' /\ Acknowledged'
  BY DEF Flush, IInv, Restarted, Acknowledged
<1> QED
  BY <1>2, <1>3, <1>5, <1>6, <1>7, <1>8, <1>9, SettledStep DEF Flush

\* The flush of a tick and the flush after an input.
LEMMA FlushSteps == ASSUME IInv, BeginTick \/ FlushInput PROVE IInv'
<1> USE DEF Untouched
<1>1. RowsTyped /\ LoopTyped /\ FlagsTyped /\ CountersTyped /\ NothingOwed /\ Restarted
  BY TypeParts DEF IInv
<1>2. UNCHANGED <<emergency, expired, handle, cur, booting, alive, typed, stops, alarms, crashes>>
  BY DEF BeginTick, FlushInput
<1>3. at \in {"idle", "flush"} /\ ~booting
  BY <1>1 DEF BeginTick, FlushInput, NothingOwed
<1> DEFINE Rest == {"idle", "giveup", "retire", "loop"}
<1>4. \A s : Due(s) \in Rest /\ (handle = "none" => Due(s) # "loop")
  BY DEF Due
<1>5. \/ FlushDone /\ at' \in Rest
      \/ FlushLost /\ at' = "idle"
      \/ UNCHANGED <<database, repair, exit, lost>> /\ at' \in Rest \ {"loop"}
  BY <1>4 DEF BeginTick, FlushInput
<1>6. LoopTyped' <=> LoopTyped /\ at' \in Rest
  <2>1. at' \in Rest
    BY <1>5
  <2>2. repair' \in {NoRepair, repair}
    BY <1>5 DEF FlushDone, FlushLost
  <2> QED BY <1>1, <1>2, <2>1, <2>2 DEF LoopTyped
<1>7. LoopTyped'
  BY <1>1, <1>5, <1>6
<1>8. FlagsTyped'
  <2>1. leased' \in BOOLEAN /\ doubt' \in BOOLEAN
    BY <1>1, <1>5 DEF FlushDone, FlushLost, Flush, FlagsTyped
  <2>2. exit' \in BOOLEAN
    BY <1>1, <1>5 DEF FlushDone, FlushLost, FlagsTyped
  <2> QED BY <1>1, <1>2, <2>1, <2>2 DEF FlagsTyped
<1>9. CountersTyped'
  <2>1. lost' \in Nat
    BY <1>1, <1>5 DEF FlushDone, FlushLost, CountersTyped
  <2> QED BY <1>1, <1>2, <2>1 DEF CountersTyped
<1>10. at' \in Rest /\ (at' = "loop" => repair' = NoRepair)
  BY <1>5 DEF FlushDone
<1>11. NothingOwed'
  BY <1>2, <1>3, <1>10 DEF NothingOwed
<1>12. ASSUME Flush, repair' \in {NoRepair, repair} PROVE IInv'
  BY <1>2, <1>3, <1>7, <1>8, <1>9, <1>11, <1>12, FlushedStep
<1>13. ASSUME UNCHANGED <<database, repair>> PROVE IInv'
  <2>1. RowsTyped'
    BY <1>1, <1>13 DEF RowsTyped
  <2>2. Restarted' /\ (Remembered' => Remembered) /\ (leased' => leased)
    BY <1>1, <1>2, <1>13 DEF Restarted, Remembered
  <2>3. at # "answer" /\ Untouched
    BY <1>2, <1>3, <1>13
  <2> QED BY <1>7, <1>8, <1>9, <1>11, <2>1, <2>2, <2>3, TypeParts, UntouchedStep
<1>14. CASE FlushDone
  BY <1>12, <1>14 DEF FlushDone
<1>15. CASE FlushLost
  BY <1>12, <1>13, <1>15 DEF FlushLost
<1>16. CASE UNCHANGED <<database, repair>>
  BY <1>13, <1>16
<1> QED BY <1>5, <1>14, <1>15, <1>16

\* retire(): the supervisor settles what still waits; a frame is denied only when
\* it knows that its bytes never left.
LEMMA RetireStep == ASSUME IInv, Retire PROVE IInv'
<1> DEFINE left == {f \in Frame : Repaired[f] \in Waiting}
           unsure == {f \in left : Repaired[f] = "dispatching" \/ Orphaned}
           settled == [f \in Frame |-> IF f \in unsure THEN "uncertain"
                                       ELSE IF f \in left THEN "denied" ELSE Repaired[f]]
<1>1. RowsTyped /\ LoopTyped /\ FlagsTyped /\ CountersTyped /\ NothingOwed /\ Restarted /\ TypeOK
  BY TypeParts DEF IInv
<1>2. Repaired \in [Frame -> {"none"} \cup Waiting \cup Outcome]
  BY <1>1, RepairedRows
<1>3. \A f \in Frame : /\ Repaired[f] = IF repair.frame = f /\ row[f] \in Waiting
                                        THEN repair.outcome ELSE row[f]
                       /\ repair.frame = f => repair.outcome \in Outcome
  BY <1>1, RepairedRows
<1>4. row' = Prune(settled)
  BY DEF Retire
<1>5. \A f \in Frame : settled[f] \in {"none"} \cup Outcome
  BY <1>2 DEF Outcome, Waiting
<1>6. settled \in [Frame -> {"none"} \cup Outcome]
  BY <1>5
<1> HIDE DEF settled
<1>7. /\ row' \in [Frame -> ({"none"} \cup Outcome) \cup {"none"}]
      /\ \A f \in Frame : row'[f] \in {settled[f], "none"}
  BY <1>4, <1>6, Pruned
<1>8. \A f \in Frame : row'[f] \in {"none"} \cup Outcome
  BY <1>5, <1>7
<1>9. row' \in [Frame -> {"none"} \cup Waiting \cup Outcome]
  BY <1>7, <1>8
<1>10. RowsTyped'
  BY <1>1, <1>9 DEF Retire, RowsTyped
<1>11. LoopTyped'
  BY <1>1 DEF Retire, LoopTyped
<1>12. FlagsTyped'
  <2>1. doubt' \in BOOLEAN
    BY <1>1 DEF Retire, FlagsTyped
  <2> QED BY <1>1, <2>1 DEF Retire, FlagsTyped
<1>13. CountersTyped'
  BY <1>1 DEF Retire, CountersTyped
<1>14. UNCHANGED <<typed, epoch, high, crashes, failure, booting>> /\ at = "retire" /\ at' = "idle"
       /\ repair' = NoRepair /\ leased' = FALSE
  BY DEF Retire
<1>15. Typed' = Typed
  BY <1>14, NothingTyped
<1>16. NothingOwed' /\ Restarted' /\ Acknowledged'
  BY <1>1, <1>14 DEF NothingOwed, Restarted, Acknowledged
<1>17. \A f \in Frame : row'[f] \notin Waiting
  BY <1>8 DEF Waiting, Outcome
<1>18. Owing'
  BY <1>17 DEF Owing, Waiting
<1>19. \A f \in Frame : settled[f] = IF f \in unsure THEN "uncertain"
                                     ELSE IF f \in left THEN "denied" ELSE Repaired[f]
  BY DEF settled
<1>20. HonestInput'
  <2> SUFFICES ASSUME NEW f \in Frame
               PROVE  /\ row'[f] = "delivered" => f \in Typed
                      /\ row'[f] = "denied" /\ crashes = 0 => f \notin Typed
    BY <1>14, <1>15 DEF HonestInput
  <2>1. row'[f] \in {settled[f], "none"}
    BY <1>7
  <2>2. HonestInput /\ HonestRepair /\ Owing
    BY DEF IInv
  <2>3. row'[f] = "delivered" => f \in Typed
    <3>1. row'[f] = "delivered" => Repaired[f] = "delivered"
      BY <1>19, <2>1
    <3> QED BY <1>3, <2>2, <3>1 DEF HonestInput, HonestRepair
  <2>4. row'[f] = "denied" /\ crashes = 0 => f \notin Typed
    <3> SUFFICES ASSUME row'[f] = "denied", crashes = 0 PROVE f \notin Typed
      OBVIOUS
    <3>1. Repaired[f] = "denied" \/ (Repaired[f] \in Waiting /\ Repaired[f] # "dispatching")
      BY <1>19, <2>1
    <3>2. CASE Repaired[f] = "denied"
      BY <1>3, <2>2, <3>2 DEF HonestInput, HonestRepair
    <3>3. CASE Repaired[f] = "accepted"
      <4>1. row[f] = "accepted" /\ repair.frame # f
        BY <1>3, <3>3 DEF Waiting, Outcome
      <4> QED BY <2>2, <4>1 DEF Owing, Remembered
    <3> QED BY <3>1, <3>2, <3>3 DEF Waiting
  <2> QED BY <2>3, <2>4
<1>21. HonestRepair'
  BY <1>14 DEF HonestRepair, NoRepair
<1>22. \A f \in Frame : row'[f] # "none" => row[f] # "none"
  <2> SUFFICES ASSUME NEW f \in Frame, row[f] = "none" PROVE row'[f] = "none"
    OBVIOUS
  <2>1. Repaired[f] = "none"
    BY <1>3 DEF Waiting
  <2>2. settled[f] = "none"
    BY <1>19, <2>1 DEF Waiting
  <2> QED BY <1>7, <2>2
<1> HIDE DEF left, unsure
<1> QED
  BY <1>10, <1>11, <1>12, <1>13, <1>14, <1>16, <1>17, <1>18, <1>20, <1>21, <1>22,
     TypeParts, SettledStep

-----------------------------------------------------------------------------
(* Bytes leave, and an outcome is owed.                                    *)

\* A step that leaves every row but that of the frame at hand, owes an outcome
\* for it or waits for its answer, and types at most that frame.
LEMMA SendSteps ==
    ASSUME IInv, NEW f \in Frame, SendInput(f) \/ SendLost(f)
    PROVE  IInv'
<1>1. RowsTyped /\ LoopTyped /\ FlagsTyped /\ CountersTyped /\ NothingOwed /\ Restarted
  BY TypeParts DEF IInv
<1>2. Sendable(f) /\ Write(f)
  BY DEF SendInput, SendLost
<1>3. /\ ~doubt /\ repair = NoRepair /\ at = "loop" /\ row[f] = "accepted"
      /\ f \notin Typed
      /\ \A g \in Typed : row[g] \notin Waiting /\ Before(g, f)
      /\ \A g \in Frame : row[g] = "accepted" => ~Before(g, f)
      /\ \A g \in Frame : row[g] # "dispatching"
      /\ typed' \in Seq(Frame) /\ TypedInOrder'
      /\ Typed' = Typed \/ Typed' = Typed \cup {f}
      /\ NotAhead(f)
  BY <1>2, Written
<1>4. Typed \subseteq Frame
  BY TypedFrames DEF IInv
<1>5. UNCHANGED <<state, failure, epoch, leased, high, doubt, emergency, expired, handle, exit,
                  booting, alive, stops, alarms, crashes>>
  BY DEF SendInput, SendLost
<1>6. row' \in {row, [row EXCEPT ![f] = "dispatching"]}
  BY DEF SendInput, SendLost
<1>7. \/ /\ at' = "answer" /\ cur' = f /\ repair' = repair /\ lost' = lost
         /\ row' = [row EXCEPT ![f] = "dispatching"]
      \/ /\ at' = "flush" /\ cur' = cur /\ lost' = lost + 1
         /\ repair' = [frame |-> f, outcome |-> "uncertain"]
  BY DEF SendInput, SendLost, Owe
<1>8. \A g \in Frame : /\ row'[g] = row[g] \/ (g = f /\ row'[g] = "dispatching")
                       /\ row'[g] \in {row[g], "dispatching"}
                       /\ g # f => row'[g] = row[g]
  BY <1>1, <1>6 DEF RowsTyped
<1>9. RowsTyped'
  <2>1. row' \in [Frame -> {"none"} \cup Waiting \cup Outcome]
    BY <1>1, <1>6 DEF RowsTyped, Waiting
  <2> QED BY <1>1, <1>5, <2>1 DEF RowsTyped
<1>10. LoopTyped'
  <2>1. repair' \in [frame : Frame, outcome : Outcome] \cup {NoRepair}
    BY <1>1, <1>7 DEF LoopTyped, Outcome
  <2> QED BY <1>1, <1>3, <1>5, <1>7, <2>1 DEF LoopTyped
<1>11. FlagsTyped'
  BY <1>1, <1>5 DEF FlagsTyped
<1>12. CountersTyped'
  BY <1>1, <1>5, <1>7 DEF CountersTyped
<1>13. Bounded'
  BY <1>3, <1>5, <1>8 DEF IInv, Bounded, NotAhead
<1>14. NoneOvertaken'
  <2> SUFFICES ASSUME NEW g \in Frame, NEW h \in Frame, row'[g] = "accepted", h \in Typed'
               PROVE  ~Before(g, h)
    BY DEF NoneOvertaken, Before
  <2>1. row[g] = "accepted"
    BY <1>8
  <2>2. CASE h \in Typed
    BY <2>1, <2>2 DEF IInv, NoneOvertaken
  <2>3. CASE h = f
    BY <1>3, <2>1, <2>3
  <2> QED BY <1>3, <2>2, <2>3
<1>15. NothingOwed'
  <2>1. ~booting
    BY <1>1, <1>3 DEF NothingOwed
  <2> QED BY <1>3, <1>5, <1>7, <2>1 DEF NothingOwed
<1>16. Owing'
  <2> SUFFICES ASSUME Remembered', NEW g \in Frame
               PROVE  /\ row'[g] = "accepted" /\ g \in Typed' => repair'.frame = g
                      /\ row'[g] = "dispatching" => repair'.frame = g \/ (at' = "answer" /\ cur' = g)
    BY DEF Owing
  <2>1. CASE g = f
    <3>1. \/ row'[f] = "dispatching" /\ at' = "answer" /\ cur' = f
          \/ repair'.frame = f
      <4>1. \/ row' = [row EXCEPT ![f] = "dispatching"] /\ at' = "answer" /\ cur' = f
            \/ repair'.frame = f
        BY <1>7
      <4>2. row' = [row EXCEPT ![f] = "dispatching"] => row'[f] = "dispatching"
        BY <1>1 DEF RowsTyped
      <4> QED BY <4>1, <4>2
    <3> QED BY <2>1, <3>1
  <2>2. CASE g # f
    BY <1>3, <1>8, <2>2 DEF Waiting
  <2> QED BY <2>1, <2>2
<1>17. Restarted' /\ Acknowledged'
  BY <1>1, <1>5 DEF IInv, Restarted, Acknowledged
<1>18. HonestRepair'
  BY <1>3, <1>7 DEF HonestRepair, NoRepair
<1>19. HonestInput'
  <2> SUFFICES ASSUME NEW g \in Frame
               PROVE  /\ row'[g] = "delivered" => g \in Typed'
                      /\ row'[g] = "denied" /\ crashes = 0 => g \notin Typed'
    BY <1>5 DEF HonestInput
  <2>1. row'[g] \in {"delivered", "denied"} => row[g] = row'[g] /\ g # f
    BY <1>3, <1>8
  <2> QED BY <1>3, <2>1 DEF IInv, HonestInput
<1> QED
  BY <1>3, <1>9, <1>10, <1>11, <1>12, <1>13, <1>14, <1>15, <1>16, <1>17, <1>18, <1>19,
     TypeParts DEF IInv

\* The outcome of the frame at hand is owed: denied without a write, or what the
\* native answer says.
LEMMA OweSteps ==
    ASSUME IInv, AnswerInput \/ \E f \in Frame : DenyInput(f)
    PROVE  IInv'
<1>1. RowsTyped /\ LoopTyped /\ FlagsTyped /\ CountersTyped /\ NothingOwed /\ Restarted
  BY TypeParts DEF IInv
<1>2. UNCHANGED <<state, failure, epoch, leased, high, doubt, row, emergency, expired, handle,
                  exit, booting, alive, typed, stops, alarms, crashes>>
  BY DEF AnswerInput, DenyInput
<1>3. Typed' = Typed /\ TypedInOrder'
  BY <1>2, NothingTyped DEF IInv
<1>4. PICK f \in Frame :
        \/ /\ at = "loop" /\ row[f] = "accepted" /\ cur' = cur
           /\ repair' = [frame |-> f, outcome |-> "denied"]
        \/ /\ at = "answer" /\ cur = f /\ cur' = None
           /\ \/ f \in Typed /\ repair' = [frame |-> f, outcome |-> "delivered"]
              \/ repair' = [frame |-> f, outcome |-> "uncertain"]
  <2>1. CASE AnswerInput
    <3>1. cur \in Frame /\ at = "answer" /\ cur' = None
      BY <1>1, <2>1 DEF AnswerInput, NothingOwed
    <3>2. \/ cur \in Typed /\ repair' = [frame |-> cur, outcome |-> "delivered"]
          \/ repair' = [frame |-> cur, outcome |-> "uncertain"]
      BY <2>1 DEF AnswerInput, Owe
    <3> QED BY <3>1, <3>2, Zenon
  <2>2. ASSUME NEW f \in Frame, DenyInput(f)
        PROVE  /\ at = "loop" /\ row[f] = "accepted" /\ cur' = cur
               /\ repair' = [frame |-> f, outcome |-> "denied"]
    BY <2>2 DEF DenyInput, First, Owe
  <2> QED BY <2>1, <2>2
<1>5. at' = "flush" /\ lost' \in {lost, lost + 1}
  BY DEF AnswerInput, DenyInput, Owe
<1>6. repair = NoRepair /\ ~booting
  BY <1>1, <1>4 DEF NothingOwed
<1>7. \A g \in Frame : repair.frame # g
  BY <1>6, Frames DEF NoRepair
<1>8. repair'.frame = f /\ repair'.outcome \in Outcome
  BY <1>4 DEF Outcome
<1>9. RowsTyped'
  BY <1>1, <1>2 DEF RowsTyped
<1>10. LoopTyped'
  <2>1. repair' \in [frame : Frame, outcome : Outcome]
    BY <1>4 DEF Outcome
  <2> QED BY <1>1, <1>2, <1>4, <1>5, <2>1 DEF LoopTyped
<1>11. FlagsTyped'
  BY <1>1, <1>2 DEF FlagsTyped
<1>12. CountersTyped'
  BY <1>1, <1>2, <1>5 DEF CountersTyped
<1>13. Bounded' /\ NoneOvertaken'
  BY <1>2, <1>3 DEF IInv, Bounded, NotAhead, NoneOvertaken, Before
<1>14. NothingOwed' /\ Restarted' /\ Acknowledged'
  BY <1>1, <1>2, <1>5, <1>6 DEF IInv, NothingOwed, Restarted, Acknowledged
<1>15. Owing'
  <2> SUFFICES ASSUME Remembered', NEW g \in Frame
               PROVE  /\ row[g] = "accepted" => g \notin Typed
                      /\ row[g] = "dispatching" => repair'.frame = g
    BY <1>2, <1>3 DEF Owing
  <2>1. Remembered
    BY <1>2 DEF Remembered
  <2> QED BY <1>4, <1>7, <1>8, <2>1 DEF IInv, Owing
<1>16. HonestRepair'
  <2>1. crashes = 0 /\ row[f] = "accepted" => f \notin Typed
    BY <1>7 DEF IInv, Owing, Remembered
  <2> QED BY <1>2, <1>3, <1>4, <2>1 DEF HonestRepair
<1>17. HonestInput'
  BY <1>2, <1>3 DEF IInv, HonestInput
<1> QED
  BY <1>3, <1>9, <1>10, <1>11, <1>12, <1>13, <1>14, <1>15, <1>16, <1>17, TypeParts DEF IInv

\* The supervisor ends, possibly between the bytes and the COMMIT: it owes nothing
\* any more, and a denied row proves nothing any more.
LEMMA CrashSteps ==
    ASSUME IInv, Crash \/ \E f \in Frame : CrashSending(f)
    PROVE  IInv'
<1>1. RowsTyped /\ LoopTyped /\ FlagsTyped /\ CountersTyped /\ Restarted
  BY TypeParts DEF IInv
<1>2. Forget
  BY DEF Crash, CrashSending
<1>3. /\ typed' \in Seq(Frame) /\ TypedInOrder'
      /\ \/ Typed' = Typed
         \/ \E f \in Frame : /\ Typed' = Typed \cup {f} /\ NotAhead(f)
                             /\ \A g \in Frame : row[g] = "accepted" => ~Before(g, f)
  <2>1. CASE Crash
    BY <1>1, <2>1, NothingTyped DEF Crash, IInv, LoopTyped
  <2>2. ASSUME NEW f \in Frame, CrashSending(f)
        PROVE  /\ typed' \in Seq(Frame) /\ TypedInOrder'
               /\ Typed' = Typed \/ Typed' = Typed \cup {f}
               /\ NotAhead(f)
               /\ \A g \in Frame : row[g] = "accepted" => ~Before(g, f)
    <3>1. Sendable(f) /\ Write(f)
      BY <2>2 DEF CrashSending
    <3> QED BY <3>1, Written
  <2> QED BY <2>1, <2>2
<1>4. RowsTyped'
  BY <1>1, <1>2 DEF Forget, RowsTyped
<1>5. LoopTyped'
  BY <1>1, <1>2, <1>3 DEF Forget, LoopTyped
<1>6. FlagsTyped'
  BY <1>1, <1>2 DEF Forget, FlagsTyped
<1>7. CountersTyped'
  BY <1>1, <1>2 DEF Forget, CountersTyped
<1>8. UNCHANGED <<row, epoch, high, leased, doubt>> /\ repair' = NoRepair /\ at' = "idle"
      /\ booting' = TRUE
  BY <1>2 DEF Forget
<1>9. crashes' > 0 /\ crashes' # 0
  BY <1>1, <1>2 DEF Forget, CountersTyped
<1>10. Bounded'
  BY <1>3, <1>8 DEF IInv, Bounded, NotAhead
<1>11. NoneOvertaken'
  <2> SUFFICES ASSUME NEW g \in Frame, NEW h \in Frame, row[g] = "accepted", h \in Typed'
               PROVE  ~Before(g, h)
    BY <1>8 DEF NoneOvertaken, Before
  <2>1. h \in Typed => ~Before(g, h)
    BY DEF IInv, NoneOvertaken
  <2> QED BY <1>3, <2>1
<1>12. NothingOwed' /\ Owing' /\ Restarted' /\ Acknowledged'
  BY <1>8, <1>9 DEF IInv, NothingOwed, Owing, Remembered, Restarted, Acknowledged
<1>13. HonestRepair'
  BY <1>8 DEF HonestRepair, NoRepair
<1>14. HonestInput'
  BY <1>3, <1>8, <1>9 DEF IInv, HonestInput
<1> QED
  BY <1>3, <1>4, <1>5, <1>6, <1>7, <1>10, <1>11, <1>12, <1>13, <1>14, TypeParts DEF IInv

-----------------------------------------------------------------------------
(* The theorems.                                                           *)

LEMMA Initial == Init => IInv
<1> SUFFICES ASSUME Init PROVE IInv
  OBVIOUS
<1>1. Typed = {} /\ typed = <<>>
  BY DEF Init, Typed
<1>2. RowsTyped
  <2>1. 0 \in 0..MaxEpoch /\ 0 \in 0..MaxInput
    BY BoundsTyped
  <2> QED BY <2>1 DEF Init, RowsTyped
<1>3. LoopTyped /\ FlagsTyped /\ CountersTyped
  <2>1. LoopTyped
    BY <1>1 DEF Init, LoopTyped
  <2>2. FlagsTyped
    BY DEF Init, FlagsTyped
  <2>3. CountersTyped
    BY DEF Init, CountersTyped
  <2> QED BY <2>1, <2>2, <2>3
<1>4. Bounded /\ NoneOvertaken /\ NothingOwed /\ Owing
  BY <1>1 DEF Init, Bounded, NoneOvertaken, NothingOwed, Owing
<1>5. TypedInOrder
  <2>1. Len(typed) = 0
    BY <1>1
  <2> QED BY <2>1 DEF TypedInOrder
<1>6. Restarted /\ HonestRepair /\ HonestInput /\ Acknowledged
  BY <1>1 DEF Init, Restarted, HonestRepair, NoRepair, HonestInput, Acknowledged
<1> QED BY <1>2, <1>3, <1>4, <1>5, <1>6, TypeParts DEF IInv

LEMMA Stuttering == IInv /\ UNCHANGED vars => IInv'
<1> SUFFICES ASSUME IInv, UNCHANGED vars PROVE IInv'
  OBVIOUS
<1>1. RowsTyped' /\ LoopTyped' /\ FlagsTyped' /\ CountersTyped'
  <2>1. RowsTyped /\ LoopTyped /\ FlagsTyped /\ CountersTyped
    BY TypeParts DEF IInv
  <2>2. RowsTyped' /\ LoopTyped'
    BY <2>1 DEF vars, RowsTyped, LoopTyped
  <2>3. FlagsTyped' /\ CountersTyped'
    BY <2>1, Zenon DEF vars, FlagsTyped, CountersTyped
  <2> QED BY <2>2, <2>3
<1>2. NothingOwed' /\ Restarted' /\ (Remembered' => Remembered) /\ Untouched
  BY DEF IInv, vars, NothingOwed, Restarted, Remembered, Untouched
<1>3. (at = "answer" => at' = "answer" /\ cur' = cur) /\ (leased' => leased)
  BY DEF vars
<1> QED BY <1>1, <1>2, <1>3, TypeParts, UntouchedStep

\* The facts above hold in every state that can be reached.
THEOREM Invariant == Spec => []IInv
<1>1. IInv /\ [Next]_vars => IInv'
  <2> SUFFICES ASSUME IInv, [Next]_vars PROVE IInv'
    OBVIOUS
  <2>1. CASE TakeControl
    BY <2>1, TakeControlStep
  <2>2. CASE ReleaseControl \/ Terminate \/ Alarm \/ Expire \/ ExitShell \/ BreakHandle
    BY <2>2, FlagSteps
  <2>3. CASE Supervisor
    <3>1. CASE GiveUp \/ RetireFails \/ EndLoop \/ Boot
      BY <3>1, FlagSteps
    <3>2. CASE BeginTick \/ FlushInput
      BY <3>2, FlushSteps
    <3>3. CASE Retire
      BY <3>3, RetireStep
    <3>4. CASE AnswerInput \/ \E f \in Frame : DenyInput(f)
      BY <3>4, OweSteps
    <3>5. CASE \E f \in Frame : SendInput(f) \/ SendLost(f)
      BY <3>5, SendSteps
    <3> QED BY <2>3, <3>1, <3>2, <3>3, <3>4, <3>5 DEF Supervisor
  <2>4. CASE Crash \/ \E f \in Frame : CrashSending(f)
    BY <2>4, CrashSteps
  <2>5. CASE \E f \in Frame : AcceptInput(f)
    BY <2>5, AcceptStep
  <2>6. CASE UNCHANGED vars
    BY <2>6, Stuttering
  <2> QED BY <2>1, <2>2, <2>3, <2>4, <2>5, <2>6 DEF Next
<1> QED BY <1>1, Initial, PTL DEF Spec

\* Every variable keeps its type.
THEOREM TypeCorrect == Spec => []TypeOK
<1>1. IInv => TypeOK
  BY DEF IInv
<1> QED BY <1>1, Invariant, PTL

\* The shell gets every frame at most once, in the order of epoch and sequence.
THEOREM OrderedInput == Spec => []TypedInOrder
<1>1. IInv => TypedInOrder
  BY DEF IInv
<1> QED BY <1>1, Invariant, PTL

\* An outcome the owner reads is true.
THEOREM OutcomesAreTrue == Spec => []HonestInput
<1>1. IInv => HonestInput
  BY DEF IInv
<1> QED BY <1>1, Invariant, PTL

\* Bytes leave only when no doubt is open and every frame typed before has its
\* outcome in the database.
THEOREM NothingPastDoubt == Spec => StopsAtDoubt
<1> DEFINE Settled == typed' # typed => /\ ~doubt
                                        /\ \A f \in Typed : row[f] \notin Waiting
<1>1. IInv /\ [Next]_vars => Settled
  <2> SUFFICES ASSUME IInv, Next, typed' # typed
               PROVE  /\ ~doubt
                      /\ \A f \in Typed : row[f] \notin Waiting
    BY DEF vars
  <2>1. PICK f \in Frame : Sendable(f) /\ Write(f)
    <3>1. CASE Supervisor
      BY <3>1 DEF Supervisor, BeginTick, GiveUp, Retire, RetireFails, EndLoop, AnswerInput,
                  FlushInput, Boot, SendInput, SendLost, DenyInput
    <3> QED BY <3>1 DEF Next, TakeControl, ReleaseControl, Terminate, Alarm, Expire, ExitShell,
                        BreakHandle, Crash, AcceptInput, CrashSending
  <2> QED BY <2>1, Written
<1>2. IInv /\ [Next]_vars => [Settled]_vars
  BY <1>1
<1>3. Spec => [][Settled]_vars
  BY <1>2, Invariant, PTL DEF Spec
<1> QED BY <1>3 DEF StopsAtDoubt
=============================================================================
