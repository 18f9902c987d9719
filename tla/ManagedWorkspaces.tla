------------------------- MODULE ManagedWorkspaces -------------------------
(***************************************************************************)
(* Everything that works in the workspaces of one project, side by side,   *)
(* with the owner's emergency stop and restarts of the supervisor.         *)
(***************************************************************************)
EXTENDS FileOperations, TerminalProcesses, PreviewProcesses,
        ConversationWriters, StorageOperations

Init ==
    /\ workspace = [w \in Workspace |->
                      IF \E s \in Creation : Home[s] = w THEN "absent" ELSE "ready"]
    /\ writer = [w \in Workspace |-> Nobody]
    /\ readers = {}
    /\ state = [o \in Work |-> "idle"]
    /\ review = [o \in Work |-> "none"]
    /\ tries = [o \in Work |-> 0]
    /\ ack = {}
    /\ emergency = FALSE
    /\ lock = Nobody
    /\ hand = [l \in Loop |-> Nobody]
    /\ held = {}
    /\ note = [o \in Work |-> "none"]
    /\ booting = {}     \* the first start found an empty database
    /\ live = {}
    /\ sent = [o \in Work |-> 0]
    /\ effect = {}
    /\ requests = 0 /\ crashes = 0 /\ lost = 0

\* POST /security/emergency-stop.  No code of a running supervisor lifts it.
EmergencyStop ==
    /\ Emergencies /\ ~emergency /\ Requested
    /\ emergency' = TRUE
    /\ UNCHANGED <<workspace, writer, readers, state, review, tries, ack, lock,
                   memory, outside, crashes, lost>>

\* The supervisor ends and starts again; what it started may go on.
Restart ==
    /\ crashes < MaxCrashes /\ crashes' = crashes + 1
    /\ hand' = [l \in Loop |-> Nobody]
    /\ held' = {}
    /\ note' = [o \in Work |-> "none"]
    /\ booting' = Loop \ {"storage"}
    /\ UNCHANGED <<database, outside, requests, lost>>

Next == \/ FileNext \/ TerminalNext \/ PreviewNext \/ ConversationNext
        \/ StorageNext \/ EmergencyStop \/ Restart

Spec == Init /\ [][Next]_vars

\* What every loop does sooner or later, as each of them runs on a timer and
\* bounds what it waits for: a watchdog ends a file operation, a timeout ends a
\* launch, the storage service is asked until it answers, and a route that
\* holds the project's row is over when its request is.
LaunchEnds(o) ==
    \/ o \in Terminal /\ hand["terminals"] = o
          /\ (StartShell(o) \/ ShellStarted(o) \/ FailTerminal(o))
    \/ o \in Previews /\ hand["previews"] = o
          /\ (StartServer(o) \/ ServerReady(o) \/ FailPreview(o))

Fairness ==
    /\ WF_vars(BootFiles) /\ WF_vars(BootTerminals)
    /\ WF_vars(BootPreviews) /\ WF_vars(BootConversations)
    /\ \A f \in File : /\ WF_vars(InsertFile(f))
                       /\ WF_vars(SendFile(f) \/ DenyFile(f) \/ AnswerFile(f))
                       /\ WF_vars(SettleFile(f))
    /\ \A o \in Terminal \cup Previews : WF_vars(LaunchEnds(o))
    /\ \A t \in Terminal : WF_vars(GiveUpTerminal(t)) /\ WF_vars(RetireTerminal(t))
    /\ \A p \in Previews : WF_vars(GiveUpPreview(p)) /\ WF_vars(RetirePreview(p))
    /\ \A c \in Conversation : WF_vars(ProcessRelease(c))
    /\ \A s \in Storage : WF_vars(CommandStorage(s)) /\ WF_vars(StorageAnswered(s))

LiveSpec == Spec /\ Fairness

-----------------------------------------------------------------------------
States == {"idle", "queued", "dispatching", "running", "exited", "starting",
           "ready", "stopping", "retiring", "retired", "stopped", "uncertain",
           "succeeded", "completed", "failed"}

TypeOK ==
    /\ workspace \in [Workspace -> {"absent", "creating", "ready", "removing", "removed",
                                    "unavailable", "archived", "failed"}]
    /\ writer \in [Workspace -> Writer \cup {Nobody}]
    /\ readers \subseteq Reader
    /\ state \in [Work -> States]
    /\ review \in [Work -> {"none", "queued", "outdated", "ready", "failed", "completed"}]
    /\ tries \in [Work -> Nat]
    /\ ack \subseteq File \cup Conversation
    /\ emergency \in BOOLEAN
    /\ lock \in File \cup {Nobody}
    /\ hand \in [Loop -> Work \cup {Nobody}]
    /\ held \subseteq Terminal \cup Previews \cup Conversation
    /\ note \in [Work -> {"none", "launch", "stop", "release", "succeeded",
                          "failed", "uncertain"}]
    /\ booting \subseteq Loop
    /\ live \subseteq Work
    /\ sent \in [Work -> Nat]
    /\ effect \subseteq File
    /\ {requests, crashes, lost} \subseteq Nat

\* The reservation column, maintained by five loops, two groups of routes and
\* a start without memory, is a lease: what may write in a workspace holds it,
\* and it changes hands only when nothing of the former holder runs.
Reservation == INSTANCE WorkspaceLease WITH
             Worker <- Writer, Place <- Home, NoHolder <- Nobody,
             holder <- writer, running <- live \cap Writer
OneWriter == Reservation!Spec

\* A helper that stages or commits is alone in its project: not even a preview
\* that only reads runs beside it, however the admissions interleave.
GitAlone == \A g \in Commit \cap live : live \cap (Writer \cup Reader) = {g}

\* While the storage service may still create or remove a folder, nothing else
\* runs in the project.
StorageAlone == \A s \in Storage \cap live : live = {s}

\* What the owner is told of a file operation is what happened to the folder:
\* a failure changed nothing, a success changed it, and an outcome that may be
\* either is never shown as one of them, whatever answer is lost.
HonestFile == \A f \in File : /\ state[f] = "failed" => f \notin effect
                              /\ state[f] = "succeeded" => f \in effect

\* A file operation in doubt keeps its workspace until the owner has seen an
\* inspection of it.
DoubtReserved == \A f \in File : state[f] = "uncertain" /\ f \notin ack
                                    => writer[Home[f]] = f

\* A reservation always has an owner something can still be done about: its
\* row is one the loops or the owner's requests will settle.
NoOrphan ==
    \A w \in Workspace : LET o == writer[w] IN
       /\ o \in File => \/ state[o] = "dispatching"
                        \/ state[o] = "uncertain" /\ o \notin ack
       /\ o \in Terminal => state[o] \in Running
       /\ o \in Preview => state[o] \in Unretired

\* The command of an operation reaches a process only while nothing of an
\* earlier start of it runs; that of a file operation or a terminal, once.
StartedOnce == /\ \A o \in File \cup Terminal : sent'[o] <= 1
               /\ \A o \in Writer \cup Reader : sent'[o] > sent[o] => o \notin live
NoSecondStart == [][StartedOnce]_vars

\* What was sent is answered for: a file operation never stays in progress, a
\* restart, a lost helper or a failing transaction notwithstanding.
FileSettles == \A f \in File :
    state[f] = "dispatching" ~> state[f] \in {"succeeded", "failed", "uncertain"}

\* A terminal or preview that is to stop is confirmed gone, or shown as
\* uncertain to the owner, who may ask again.
StopHeard ==
    /\ \A t \in Terminal : state[t] = "retiring" ~> state[t] \in {"retired", "uncertain"}
    /\ \A p \in Previews : state[p] = "stopping" ~> state[p] \in {"stopped", "uncertain"}

\* The emergency stop reaches every terminal and preview, the ones a loop is
\* just launching included.
EmergencyHeard ==
    \A o \in Terminal \cup Previews :
        emergency /\ o \in live
           ~> o \notin live \/ state[o] = "uncertain"

\* A storage operation ends, however often its answer is lost: until then the
\* whole project is closed.
ProjectReopens == StoragePending ~> ~StoragePending
=============================================================================
