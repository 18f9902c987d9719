---------------------------- MODULE Reservations ----------------------------
(***************************************************************************)
(* The state shared by everything that works in the workspaces of one      *)
(* project: terminals, previews, file and Git operations, conversations of *)
(* the managed profile, and the creation and removal of workspaces.        *)
(*                                                                         *)
(* A transaction that decides over a reservation locks the project, then   *)
(* the workspace (selectedWorkspace): it is one action.  The modules that  *)
(* extend this one add the operations; ManagedWorkspaces composes them.    *)
(***************************************************************************)
EXTENDS Naturals, FiniteSets

CONSTANTS
    Workspace,
    Save, Commit,           \* file operations: saves, and stage/unstage/commit
    Terminal,
    Preview, Reader,        \* previews that may write, previews that only read
    Conversation,           \* conversations with their next turn
    Creation, Removal,      \* storage operations
    Home,                   \* the workspace each of them works in
    Nobody,
    TerminalLimit, PreviewLimit,
    MaxRequests,            \* bound: requests accepted by the API
    MaxCrashes,             \* bound: restarts of the supervisor
    MaxLost,                \* bound: transactions whose reply is lost or that fail
    Emergencies             \* whether the emergency stop is used

File == Save \cup Commit
Storage == Creation \cup Removal
Writer == File \cup Terminal \cup Preview \cup Conversation
Work == Writer \cup Reader \cup Storage
Previews == Preview \cup Reader

Kinds == <<Save, Commit, Terminal, Preview, Reader, Conversation, Creation, Removal>>

ASSUME ConstantsAssumption ==
    /\ Home \in [Work -> Workspace]
    /\ Nobody \notin Work
    /\ \A i, j \in DOMAIN Kinds : i # j => Kinds[i] \cap Kinds[j] = {}
    /\ {TerminalLimit, PreviewLimit, MaxRequests, MaxCrashes, MaxLost} \subseteq Nat
    /\ Emergencies \in BOOLEAN

Loop == {"files", "terminals", "previews", "conversations", "storage"}

VARIABLES
    \* the database
    workspace,  \* workspaces.state
    writer,     \* workspaces.writer_owner_id
    readers,    \* preview_readers
    state,      \* the state column of the row of each piece of work
    review,     \* file_inspections and workspace_releases: state
    tries,      \* their attempts, and those of stops and terminations
    ack,        \* file operations with acknowledged_at, and conversations whose
                \*   recovery is ready to be continued
    emergency,  \* harbor_meta.emergency
    lock,       \* the file request that holds the project's row while it reads
    \* the memory of the supervisor
    hand,       \* what each loop is executing: it awaits the answer
    held,       \* the handles of terminals and previews (the maps "owned")
    note,       \* the outcome waiting to be written; the reason to stop
    booting,    \* the loops that have not reconciled the rows after a start
    \* what really happened outside
    live,       \* work whose process may still read or write the folder
    sent,       \* how often its command was given to a process
    effect,     \* file operations whose change is in the folder
    \* bounds
    requests, crashes, lost

database == <<workspace, writer, readers, state, review, tries, ack,
              emergency, lock>>
memory == <<hand, held, note, booting>>
outside == <<live, sent, effect>>
bounds == <<requests, crashes, lost>>
vars == <<database, memory, outside, bounds>>

-----------------------------------------------------------------------------
\* selectedWorkspace and the columns every admission looks at.
Usable(o) == workspace[Home[o]] = "ready"

\* A storage operation of the project is pending.
StoragePending == \E s \in Storage : state[s] \in {"queued", "dispatching"}

\* A Git operation of the project runs, or nobody acknowledged how it ended.
GitPending == \E g \in Commit : /\ state[g] \in {"dispatching", "uncertain"}
                                /\ g \notin ack

\* No other transaction holds the row of the project.
Unlocked == lock = Nobody

Free(o) == writer[Home[o]] = Nobody

\* UPDATE workspaces SET writer_kind=..., writer_owner_id=...
Reserve(o) == writer' = [writer EXCEPT ![Home[o]] = o]

\* UPDATE workspaces SET writer_owner_id=NULL WHERE ... writer_owner_id=o
Unreserve(o) == writer' = [writer EXCEPT ![Home[o]] = IF @ = o THEN Nobody ELSE @]

Become(o, s) == state' = [state EXCEPT ![o] = s]

\* One more accepted request; the bound of the model.
Requested == /\ requests < MaxRequests
             /\ requests' = requests + 1

\* A transaction that fails, or whose COMMIT is applied and its reply lost.
Faulty == /\ lost < MaxLost
          /\ lost' = lost + 1

\* The loop has started and is not in the middle of another piece of work.
Idle(loop) == /\ loop \notin booting
              /\ hand[loop] = Nobody

Take(loop, o) == hand' = [hand EXCEPT ![loop] = o]
Drop(loop) == hand' = [hand EXCEPT ![loop] = Nobody]
Note(o, n) == note' = [note EXCEPT ![o] = n]

\* The command leaves for the process that executes it.
Dispatch(o) == /\ sent' = [sent EXCEPT ![o] = @ + 1]
               /\ live' = live \cup {o}
               /\ UNCHANGED effect
=============================================================================
