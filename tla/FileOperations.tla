--------------------------- MODULE FileOperations ---------------------------
(***************************************************************************)
(* Saves and Git operations: accepted by the API, executed one at a time   *)
(* by a helper process, settled in a transaction of their own.  What the   *)
(* helper did and what the supervisor learns of it are separate: the       *)
(* answer may be lost, and a restart forgets it.                           *)
(***************************************************************************)
EXTENDS Reservations

\* A request queued behind f that must not outlive f's uncertainty.
Dependent(g, f) == /\ state[g] = "queued"
                   /\ Home[g] = Home[f] \/ {f, g} \subseteq Commit

\* POST .../files/save and .../git/*: the transaction takes the project's row,
\* looks for what blocks it, and keeps the row while a helper reads the file.
CheckFile(f) ==
    /\ Unlocked /\ Requested
    /\ state[f] = "idle" /\ Usable(f)
    /\ writer[Home[f]] \notin Terminal
    /\ \A o \in File \cup Conversation :
          Home[o] = Home[f] /\ state[o] = "uncertain" => o \in ack \cap File
    /\ lock' = f
    /\ UNCHANGED <<workspace, writer, readers, state, review, tries, ack,
                   emergency, memory, outside, crashes, lost>>

InsertFile(f) ==
    /\ lock = f /\ lock' = Nobody
    /\ Become(f, "queued")
    /\ UNCHANGED <<workspace, writer, readers, review, tries, ack, emergency,
                   memory, outside, bounds>>

\* A pass writes the outcomes it still owes before anything else.
FilePass == /\ Idle("files")
            /\ \A f \in File : note[f] = "none"

Admissible(f) ==
    /\ state[f] = "queued" /\ Usable(f) /\ Free(f)
    /\ ~StoragePending /\ ~GitPending /\ ~emergency
    /\ f \in Commit => /\ \A w \in Workspace : writer[w] = Nobody
                       /\ readers = {}

AdmitFile(f) ==
    /\ FilePass /\ Unlocked /\ Admissible(f)
    /\ Become(f, "dispatching") /\ Reserve(f)
    /\ Take("files", f) /\ Note(f, "launch")
    /\ UNCHANGED <<workspace, readers, review, tries, ack, emergency, lock,
                   held, booting, outside, bounds>>

\* The admission throws: the fence is closed, the authority or the maintenance
\* check denies, or the transaction fails with or without effect.  The catch
\* clause will record that nothing was sent.
RefuseFile(f) ==
    /\ FilePass
    /\ \/ /\ state[f] = "queued" /\ Free(f) /\ Usable(f)
          /\ UNCHANGED <<state, writer, lost>>
       \/ /\ Unlocked /\ Admissible(f) /\ Faulty
          /\ \/ Become(f, "dispatching") /\ Reserve(f)
             \/ UNCHANGED <<state, writer>>
    /\ Note(f, "failed") /\ Take("files", f)
    /\ UNCHANGED <<workspace, readers, review, tries, ack, emergency, lock,
                   held, booting, outside, requests, crashes>>

\* The command is sent inside a transaction that holds the reservation.
SendFile(f) ==
    /\ hand["files"] = f /\ note[f] = "launch"
    /\ Unlocked /\ ~emergency /\ writer[Home[f]] = f
    /\ Dispatch(f) /\ Note(f, "none")
    /\ UNCHANGED <<database, hand, held, booting, bounds>>

\* The helper does not start or the fence is closed; when its retirement is not
\* confirmed either, the outcome is left open.
DenyFile(f) ==
    /\ hand["files"] = f /\ note[f] = "launch"
    /\ \E n \in {"failed", "uncertain"} : Note(f, n)
    /\ UNCHANGED <<database, hand, held, booting, outside, bounds>>

\* The helper publishes the change, whoever listens.
FileEffect(f) ==
    /\ f \in live \ effect
    /\ effect' = effect \cup {f}
    /\ UNCHANGED <<database, memory, live, sent, bounds>>

\* (seeded fault) a helper that is lost counts as one that failed.
LostHelperFailed(f) ==
    /\ hand["files"] = f /\ note[f] = "none"
    /\ \/ f \in live \cap effect /\ live' = live \ {f} /\ Note(f, "succeeded")
       \/ live' = live \ {f} /\ Note(f, "failed")
    /\ UNCHANGED <<database, hand, held, booting, sent, effect, bounds>>

\* The helper answers, rejects the command as stale, or is lost: killed by the
\* watchdog, broken, or not confirmed dead.
AnswerFile(f) ==
    /\ hand["files"] = f /\ note[f] = "none"
    /\ \/ f \in live \cap effect /\ live' = live \ {f} /\ Note(f, "succeeded")
       \/ f \in live \ effect /\ live' = live \ {f} /\ Note(f, "failed")
       \/ live' \in {live, live \ {f}} /\ Note(f, "uncertain")
    /\ UNCHANGED <<database, hand, held, booting, sent, effect, bounds>>

\* A helper nobody waits for ends by itself.
ExitFile(f) ==
    /\ f \in live /\ hand["files"] # f
    /\ live' = live \ {f}
    /\ UNCHANGED <<database, memory, sent, effect, bounds>>

\* (seeded fault) the reservation is given back whatever the outcome.
SettledAndFreed(f) ==
    IF state[f] \in {"queued", "dispatching"}
    THEN Become(f, note[f]) /\ Unreserve(f)
    ELSE UNCHANGED <<state, writer>>

\* settle(): the outcome, the requests that depended on it, the reservation.
Settled(f) ==
    IF state[f] \in {"queued", "dispatching"}
    THEN /\ state' = [g \in Work |->
               CASE g = f -> note[f]
                 [] note[f] = "uncertain" /\ g \in File \ {f} /\ Dependent(g, f)
                       -> "failed"
                 [] OTHER -> state[g]]
         /\ IF note[f] = "uncertain" THEN UNCHANGED writer ELSE Unreserve(f)
    ELSE UNCHANGED <<state, writer>>

\* (seeded fault) a pass settles an operation that is still being started.
OwedOrLaunching(f) == /\ note[f] # "none" /\ hand["files"] \in {f, Nobody}
                      /\ "files" \notin booting /\ Unlocked
                      /\ Drop("files")

Owed(f) == /\ note[f] \notin {"none", "launch"} /\ hand["files"] \in {f, Nobody}
           /\ "files" \notin booting /\ Unlocked
           /\ Drop("files")

SettleFile(f) ==
    /\ Owed(f) /\ Settled(f) /\ Note(f, "none")
    /\ UNCHANGED <<workspace, readers, review, tries, ack, emergency, lock,
                   held, booting, outside, bounds>>

\* The transaction fails, or only its reply is lost: the repair is kept.
LoseSettlement(f) ==
    /\ Owed(f) /\ Faulty
    /\ Settled(f) \/ UNCHANGED <<state, writer>>
    /\ UNCHANGED <<workspace, readers, review, tries, ack, emergency, lock,
                   held, note, booting, outside, requests, crashes>>

\* (seeded fault) the rows an earlier supervisor left are not looked for.
BootForgetful ==
    /\ "files" \in booting /\ booting' = booting \ {"files"}
    /\ UNCHANGED <<database, hand, held, note, outside, bounds>>

\* recoverFileStartup(): it takes no project row.
BootFiles ==
    /\ "files" \in booting /\ booting' = booting \ {"files"}
    /\ LET cut == {f \in File : state[f] = "dispatching"}
       IN  state' = [g \in Work |->
                       CASE g \in cut -> "uncertain"
                         [] g \in File /\ (\E f \in cut : Dependent(g, f)) -> "failed"
                         [] OTHER -> state[g]]
    /\ UNCHANGED <<workspace, writer, readers, review, tries, ack, emergency,
                   lock, hand, held, note, outside, bounds>>

\* POST .../file-operations/:id/inspect
RequestInspection(f) ==
    /\ Unlocked /\ state[f] = "uncertain" /\ writer[Home[f]] = f
    /\ \/ review[f] = "none"
       \/ review[f] = "failed" /\ tries[f] < 3
    /\ review' = [review EXCEPT ![f] = "queued"]
    /\ tries' = [tries EXCEPT ![f] = @ + 1]
    /\ UNCHANGED <<workspace, writer, readers, state, ack, emergency, lock,
                   memory, outside, bounds>>

\* The inspection first makes sure the helper is gone.
InspectFile(f) ==
    /\ FilePass /\ Unlocked /\ review[f] = "queued"
    /\ \/ /\ writer[Home[f]] = f /\ live' = live \ {f}
          /\ review' = [review EXCEPT ![f] = "ready"]
       \/ /\ live' \in {live, live \ {f}}
          /\ review' = [review EXCEPT ![f] = "failed"]
    /\ UNCHANGED <<workspace, writer, readers, state, tries, ack, emergency,
                   lock, memory, sent, effect, bounds>>

\* POST .../file-operations/:id/release
ReleaseFile(f) ==
    /\ Unlocked /\ review[f] = "ready" /\ writer[Home[f]] = f
    /\ ack' = ack \cup {f} /\ Unreserve(f)
    /\ review' = [review EXCEPT ![f] = "completed"]
    /\ UNCHANGED <<workspace, readers, state, tries, emergency, lock, memory,
                   outside, bounds>>

FileNext ==
    \/ \E f \in File :
          \/ CheckFile(f) \/ InsertFile(f) \/ AdmitFile(f) \/ RefuseFile(f)
          \/ SendFile(f) \/ DenyFile(f) \/ FileEffect(f) \/ AnswerFile(f)
          \/ ExitFile(f) \/ SettleFile(f) \/ LoseSettlement(f)
          \/ RequestInspection(f) \/ InspectFile(f) \/ ReleaseFile(f)
    \/ BootFiles
=============================================================================
