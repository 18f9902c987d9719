---------------------- MODULE ManagedWorkspaces_proofs ----------------------
(***************************************************************************)
(* The safety of the shared workspaces, for any number of pieces of work,  *)
(* requests, restarts and failing transactions.                            *)
(*                                                                         *)
(* A component writes only the rows, handles and processes of its own      *)
(* pieces of work (Own).  Therefore each component has an inductive        *)
(* invariant of its own, which the steps of the others keep for one and    *)
(* the same reason; only the last group of invariants, about the project   *)
(* as a whole, depends on what every admission looks at.                   *)
(***************************************************************************)
EXTENDS ManagedWorkspaces, TLAPS

-----------------------------------------------------------------------------
(* The inductive invariant.                                                *)

\* A file operation: what its row and the supervisor's note say of the helper
\* and of the folder.
FileInv(f) ==
    /\ state[f] \in {"idle", "queued"} \/ note[f] = "launch"
          => f \notin live /\ f \notin effect /\ sent[f] = 0
    /\ lock = f => state[f] = "idle"
    /\ note[f] \in {"none", "launch", "failed", "succeeded", "uncertain"}
    /\ note[f] = "launch" => state[f] = "dispatching"
    /\ "failed" \in {note[f], state[f]} => f \notin live /\ f \notin effect
    /\ "succeeded" \in {note[f], state[f]} => f \notin live /\ f \in effect
    /\ note[f] = "uncertain" => state[f] \notin {"idle", "queued"}
    /\ hand["files"] = f /\ note[f] = "none" => state[f] = "dispatching"
    /\ "files" \in booting => note[f] = "none" /\ hand["files"] # f
    /\ review[f] # "none" \/ f \in ack => state[f] = "uncertain"
    /\ review[f] = "ready" => f \notin live
    /\ sent[f] <= 1

\* Its reservation: it has one exactly while it is at work or in doubt.
FileHeld(f) ==
    /\ f \in live => writer[Home[f]] = f
    /\ writer[Home[f]] = f
          <=> state[f] = "dispatching" \/ (state[f] = "uncertain" /\ f \notin ack)

\* A terminal: its command is sent once, and it is reserved while it runs.
TerminalInv(t) ==
    /\ state[t] \in {"idle", "queued"} \/ note[t] = "launch" => sent[t] = 0
    /\ sent[t] = 0 => t \notin live
    /\ sent[t] <= 1

TerminalHeld(t) ==
    /\ t \in live => writer[Home[t]] = t
    /\ writer[Home[t]] = t => state[t] \in Running

\* A preview: at rest, or about to be launched, nothing of it runs.
PreviewInv(p) ==
    state[p] \in {"idle", "queued", "stopped"} \/ note[p] = "launch" => p \notin live

PreviewHeld(p) ==
    /\ p \in live => Leased(p)
    /\ Leased(p) => state[p] \in Unretired

\* A conversation: without a handle nothing of its new turn runs, and what it
\* is going to give back is confirmed gone.
ConversationInv(c) ==
    /\ state[c] = "dispatching" /\ c \notin held /\ "conversations" \notin booting
          => c \notin live
    /\ note[c] = "release" => c \notin live /\ state[c] # "dispatching"

ConversationHeld(c) ==
    c \in live \/ state[c] = "dispatching" => writer[Home[c]] = c

\* The project: a reservation is one of its own workspace, a Git operation that
\* holds one is alone, and so is a storage operation.
HomeHeld == \A w \in Workspace : writer[w] # Nobody => Home[writer[w]] = w

NobodyAtWork == readers = {} /\ \A w \in Workspace : writer[w] = Nobody

GitHeld == \A g \in Commit : writer[Home[g]] = g =>
              readers = {} /\ \A w \in Workspace \ {Home[g]} : writer[w] = Nobody

StorageHeld ==
    /\ StoragePending => NobodyAtWork
    /\ \A r, s \in Storage : {state[r], state[s]} \subseteq {"queued", "dispatching"} => r = s
    /\ \A s \in Storage \cap live : state[s] = "dispatching"

FilesOK == \A f \in File : FileInv(f) /\ FileHeld(f)
TerminalsOK == \A t \in Terminal : TerminalInv(t) /\ TerminalHeld(t)
PreviewsOK == \A p \in Previews : PreviewInv(p) /\ PreviewHeld(p)
ConversationsOK == \A c \in Conversation : ConversationInv(c) /\ ConversationHeld(c)
ProjectOK == HomeHeld /\ GitHeld /\ StorageHeld

IInv == TypeOK /\ FilesOK /\ TerminalsOK /\ PreviewsOK /\ ConversationsOK /\ ProjectOK

-----------------------------------------------------------------------------
(* The kinds of work are disjoint.                                         *)

\* No piece of work is of two kinds, as their rows are in different tables.
LEMMA Disjoint ==
    /\ Nobody \notin Work
    /\ \A o \in File : o \notin Terminal \cup Previews \cup Conversation \cup Storage
    /\ \A o \in Terminal : o \notin File \cup Previews \cup Conversation \cup Storage
    /\ \A o \in Previews : o \notin File \cup Terminal \cup Conversation \cup Storage
    /\ \A o \in Conversation : o \notin File \cup Terminal \cup Previews \cup Storage
    /\ \A o \in Storage : o \notin File \cup Terminal \cup Previews \cup Conversation
    /\ Save \cap Commit = {} /\ Preview \cap Reader = {}
<1>1. DOMAIN Kinds = 1..8
  BY DEF Kinds
<1>2. \A i, j \in 1..8 : i # j => Kinds[i] \cap Kinds[j] = {}
  BY <1>1, ConstantsAssumption
<1>3. /\ Kinds[1] = Save /\ Kinds[2] = Commit /\ Kinds[3] = Terminal /\ Kinds[4] = Preview
      /\ Kinds[5] = Reader /\ Kinds[6] = Conversation /\ Kinds[7] = Creation
      /\ Kinds[8] = Removal
  BY DEF Kinds
<1>4. \A o : /\ o \in Save => o \notin Commit \cup Terminal \cup Preview \cup Reader
                                         \cup Conversation \cup Creation \cup Removal
             /\ o \in Commit => o \notin Terminal \cup Preview \cup Reader
                                         \cup Conversation \cup Creation \cup Removal
             /\ o \in Terminal => o \notin Preview \cup Reader \cup Conversation
                                         \cup Creation \cup Removal
             /\ o \in Preview => o \notin Reader \cup Conversation \cup Creation \cup Removal
             /\ o \in Reader => o \notin Conversation \cup Creation \cup Removal
             /\ o \in Conversation => o \notin Creation \cup Removal
  BY <1>2, <1>3
<1> QED
  BY <1>4, ConstantsAssumption DEF File, Previews, Storage

\* Which kinds make up which, and that each piece of work has a workspace.
LEMMA Subsets ==
    /\ File \subseteq Writer /\ Terminal \subseteq Writer /\ Preview \subseteq Writer
    /\ Conversation \subseteq Writer /\ Writer \subseteq Work
    /\ Preview \subseteq Previews /\ Reader \subseteq Previews /\ Previews \subseteq Work
    /\ Storage \subseteq Work /\ Save \subseteq File /\ Commit \subseteq File
    /\ Home \in [Work -> Workspace]
BY ConstantsAssumption DEF File, Previews, Storage, Writer, Work

USE DEF Requested, Faulty, Become, Note, Take, Drop, Reserve, Unreserve, Dispatch

\* A step of a file operation keeps every type: the outcome that settle() writes
\* is a state of the table because of what FileInv says of the note.
LEMMA FileTypes == TypeOK /\ FilesOK /\ FileNext => TypeOK'
<1> SUFFICES ASSUME TypeOK, FilesOK, FileNext PROVE TypeOK'
  OBVIOUS
<1> USE Subsets DEF TypeOK, database, memory, outside, bounds
<1>1. ASSUME NEW f \in File, CheckFile(f) PROVE TypeOK'
  BY <1>1 DEF CheckFile
<1>2. ASSUME NEW f \in File, InsertFile(f) PROVE TypeOK'
  BY <1>2 DEF InsertFile, States
<1>3. ASSUME NEW f \in File, AdmitFile(f) PROVE TypeOK'
  BY <1>3 DEF AdmitFile, States, Loop
<1>4. ASSUME NEW f \in File, RefuseFile(f) PROVE TypeOK'
  BY <1>4 DEF RefuseFile, States, Loop
<1>5. ASSUME NEW f \in File, SendFile(f) PROVE TypeOK'
  BY <1>5 DEF SendFile
<1>6. ASSUME NEW f \in File, DenyFile(f) PROVE TypeOK'
  BY <1>6 DEF DenyFile
<1>7. ASSUME NEW f \in File, FileEffect(f) PROVE TypeOK'
  BY <1>7 DEF FileEffect
<1>8. ASSUME NEW f \in File, AnswerFile(f) PROVE TypeOK'
  BY <1>8 DEF AnswerFile
<1>9. ASSUME NEW f \in File, ExitFile(f) PROVE TypeOK'
  BY <1>9 DEF ExitFile
<1>10. ASSUME NEW f \in File, Owed(f), Settled(f)
       PROVE  state' \in [Work -> States] /\ writer' \in [Workspace -> Writer \cup {Nobody}]
  <2>1. note[f] \in States
    BY <1>10 DEF FilesOK, FileInv, Owed, States
  <2>2. state' \in [Work -> States]
    BY <1>10, <2>1 DEF Settled, States
  <2>3. writer' \in [Workspace -> Writer \cup {Nobody}]
    BY <1>10 DEF Settled
  <2> QED BY <2>2, <2>3
<1>11. ASSUME NEW f \in File, SettleFile(f) \/ LoseSettlement(f) PROVE TypeOK'
  <2>1. state' \in [Work -> States] /\ writer' \in [Workspace -> Writer \cup {Nobody}]
    BY <1>10, <1>11 DEF SettleFile, LoseSettlement
  <2>2. CASE SettleFile(f)
    BY <2>1, <2>2 DEF SettleFile, Owed
  <2>3. CASE LoseSettlement(f)
    <3>1. /\ lost' = lost + 1 /\ hand' = [hand EXCEPT !["files"] = Nobody]
          /\ UNCHANGED <<workspace, readers, review, tries, ack, emergency, lock,
                         held, note, booting, live, sent, effect, requests, crashes>>
      BY <2>3 DEF LoseSettlement, Owed
    <3>2. {requests, crashes, lost}' \subseteq Nat
      BY <3>1
    <3>3. hand' \in [Loop -> Work \cup {Nobody}]
      BY <3>1
    <3>4. note' \in [Work -> {"none", "launch", "stop", "release", "succeeded", "failed", "uncertain"}]
      BY <3>1
    <3> QED BY <2>1, <3>1, <3>2, <3>3, <3>4
  <2> QED BY <1>11, <2>2, <2>3
<1>12. ASSUME NEW f \in File, RequestInspection(f) PROVE TypeOK'
  BY <1>12 DEF RequestInspection
<1>13. ASSUME NEW f \in File, InspectFile(f) PROVE TypeOK'
  BY <1>13 DEF InspectFile
<1>14. ASSUME NEW f \in File, ReleaseFile(f) PROVE TypeOK'
  BY <1>14 DEF ReleaseFile
<1>15. ASSUME BootFiles PROVE TypeOK'
  BY <1>15 DEF BootFiles, States
<1> QED
  BY <1>1, <1>2, <1>3, <1>4, <1>5, <1>6, <1>7, <1>8, <1>9, <1>11, <1>12,
     <1>13, <1>14, <1>15 DEF FileNext

\* ... of a terminal.
LEMMA TerminalTypes == TypeOK /\ TerminalNext => TypeOK'
<1> SUFFICES ASSUME TypeOK, TerminalNext PROVE TypeOK'
  OBVIOUS
<1> USE Subsets DEF TypeOK, database, memory, outside, bounds
<1>1. ASSUME NEW t \in Terminal, AcceptTerminal(t) PROVE TypeOK'
  BY <1>1 DEF AcceptTerminal, States
<1>2. ASSUME NEW t \in Terminal, AdmitTerminal(t) PROVE TypeOK'
  BY <1>2 DEF AdmitTerminal, States
<1>3. ASSUME NEW t \in Terminal, LoseTerminal(t) PROVE TypeOK'
  BY <1>3 DEF LoseTerminal, States
<1>4. ASSUME NEW t \in Terminal, RefuseTerminal(t) PROVE TypeOK'
  BY <1>4 DEF RefuseTerminal, States
<1>5. ASSUME NEW t \in Terminal, StartShell(t) PROVE TypeOK'
  BY <1>5 DEF StartShell
<1>6. ASSUME NEW t \in Terminal, ShellStarted(t) PROVE TypeOK'
  BY <1>6 DEF ShellStarted, States
<1>7. ASSUME NEW t \in Terminal, FailTerminal(t) PROVE TypeOK'
  BY <1>7 DEF FailTerminal
<1>8. ASSUME NEW t \in Terminal, ShellExited(t) PROVE TypeOK'
  BY <1>8 DEF ShellExited, States
<1>9. ASSUME NEW t \in Terminal, TerminateTerminal(t) PROVE TypeOK'
  BY <1>9 DEF TerminateTerminal, States
<1>10. ASSUME NEW t \in Terminal, GiveUpTerminal(t) PROVE TypeOK'
  BY <1>10 DEF GiveUpTerminal, States
<1>11. ASSUME NEW t \in Terminal, RetireTerminal(t) PROVE TypeOK'
  BY <1>11 DEF RetireTerminal, States
<1>12. ASSUME BootTerminals PROVE TypeOK'
  BY <1>12 DEF BootTerminals, States
<1> QED
  BY <1>1, <1>2, <1>3, <1>4, <1>5, <1>6, <1>7, <1>8, <1>9, <1>10, <1>11,
     <1>12 DEF TerminalNext

\* ... of a preview.
LEMMA PreviewTypes == TypeOK /\ PreviewNext => TypeOK'
<1> SUFFICES ASSUME TypeOK, PreviewNext PROVE TypeOK'
  OBVIOUS
<1> USE Subsets DEF TypeOK, database, memory, outside, bounds
<1>1. ASSUME NEW p \in Previews, StartPreview(p) PROVE TypeOK'
  BY <1>1 DEF StartPreview, States
<1>2. ASSUME NEW p \in Previews, AdmitPreview(p) PROVE TypeOK'
  BY <1>2 DEF AdmitPreview, Lease, States, Previews
<1>3. ASSUME NEW p \in Previews, LosePreview(p) PROVE TypeOK'
  BY <1>3 DEF LosePreview, Lease, States, Previews
<1>4. ASSUME NEW p \in Previews, RefusePreview(p) PROVE TypeOK'
  BY <1>4 DEF RefusePreview, States
<1>5. ASSUME NEW p \in Previews, StartServer(p) PROVE TypeOK'
  BY <1>5 DEF StartServer, States
<1>6. ASSUME NEW p \in Previews, ServerReady(p) PROVE TypeOK'
  BY <1>6 DEF ServerReady, States
<1>7. ASSUME NEW p \in Previews, FailPreview(p) PROVE TypeOK'
  BY <1>7 DEF FailPreview, States
<1>8. ASSUME NEW p \in Previews, StopPreview(p) PROVE TypeOK'
  BY <1>8 DEF StopPreview, States
<1>9. ASSUME NEW p \in Previews, GiveUpPreview(p) PROVE TypeOK'
  BY <1>9 DEF GiveUpPreview, States
<1>10. ASSUME NEW p \in Previews, RetirePreview(p) PROVE TypeOK'
  BY <1>10 DEF RetirePreview, Unlease, States
<1>11. ASSUME BootPreviews PROVE TypeOK'
  BY <1>11 DEF BootPreviews, States
<1> QED
  BY <1>1, <1>2, <1>3, <1>4, <1>5, <1>6, <1>7, <1>8, <1>9, <1>10, <1>11 DEF PreviewNext

\* ... of a conversation.
LEMMA ConversationTypes == TypeOK /\ ConversationNext => TypeOK'
<1> SUFFICES ASSUME TypeOK, ConversationNext PROVE TypeOK'
  OBVIOUS
<1> USE Subsets DEF TypeOK, database, memory, outside, bounds
<1>1. ASSUME NEW c \in Conversation, RequestTurn(c) PROVE TypeOK'
  BY <1>1 DEF RequestTurn, States
<1>2. ASSUME NEW c \in Conversation, ClaimWorkspace(c) PROVE TypeOK'
  BY <1>2 DEF ClaimWorkspace, Outdate, States
<1>3. ASSUME NEW c \in Conversation, LoseClaim(c) PROVE TypeOK'
  BY <1>3 DEF LoseClaim, Outdate, States
<1>4. ASSUME NEW c \in Conversation, StartRuntime(c) PROVE TypeOK'
  BY <1>4 DEF StartRuntime, States
<1>5. ASSUME NEW c \in Conversation, EndTurn(c) PROVE TypeOK'
  BY <1>5 DEF EndTurn, States
<1>6. ASSUME NEW c \in Conversation, RetireRuntime(c) PROVE TypeOK'
  BY <1>6 DEF RetireRuntime, States
<1>7. ASSUME NEW c \in Conversation, ReleaseWorkspace(c) PROVE TypeOK'
  BY <1>7 DEF ReleaseWorkspace, States
<1>8. ASSUME NEW c \in Conversation, LoseRelease(c) PROVE TypeOK'
  BY <1>8 DEF LoseRelease, States
<1>9. ASSUME NEW c \in Conversation, RecoverSession(c) PROVE TypeOK'
  BY <1>9 DEF RecoverSession, States
<1>10. ASSUME NEW c \in Conversation, RequestRelease(c) PROVE TypeOK'
  BY <1>10 DEF RequestRelease, States
<1>11. ASSUME NEW c \in Conversation, ProcessRelease(c) PROVE TypeOK'
  BY <1>11 DEF ProcessRelease, States
<1>12. ASSUME BootConversations PROVE TypeOK'
  BY <1>12 DEF BootConversations, States
<1>13. ASSUME NEW c \in Conversation, ContinueSession(c) PROVE TypeOK'
  BY <1>13 DEF ContinueSession, States
<1> QED
  BY <1>1, <1>2, <1>3, <1>4, <1>5, <1>6, <1>7, <1>8, <1>9, <1>10, <1>11,
     <1>12, <1>13 DEF ConversationNext

\* ... of a creation or removal.
LEMMA StorageTypes == TypeOK /\ StorageNext => TypeOK'
<1> SUFFICES ASSUME TypeOK, StorageNext PROVE TypeOK'
  OBVIOUS
<1> USE Subsets DEF TypeOK, database, memory, outside, bounds
<1>1. ASSUME NEW s \in Storage, RequestStorage(s) PROVE TypeOK'
  BY <1>1 DEF RequestStorage, States
<1>2. ASSUME NEW s \in Storage, CommandStorage(s) PROVE TypeOK'
  <2>1. hand' \in [Loop -> Work \cup {Nobody}] /\ state' \in [Work -> States]
    BY <1>2 DEF CommandStorage, States
  <2>2. live' \subseteq Work /\ sent' \in [Work -> Nat]
    BY <1>2 DEF CommandStorage
  <2> QED
    BY <1>2, <2>1, <2>2 DEF CommandStorage
<1>3. ASSUME NEW s \in Storage, StorageAnswered(s) PROVE TypeOK'
  <2>1. hand' \in [Loop -> Work \cup {Nobody}] /\ state' \in [Work -> States]
    BY <1>3 DEF StorageAnswered, States
  <2>2. workspace' \in [Workspace -> {"absent", "creating", "ready", "removing", "removed",
                                      "unavailable", "archived", "failed"}]
    BY <1>3 DEF StorageAnswered
  <2> QED
    BY <1>3, <2>1, <2>2 DEF StorageAnswered
<1>4. ASSUME NEW s \in Storage, LoseStorage(s) PROVE TypeOK'
  <2>1. hand' \in [Loop -> Work \cup {Nobody}] /\ live' \subseteq Work
    BY <1>4 DEF LoseStorage
  <2>2. {requests, crashes, lost}' \subseteq Nat
    BY <1>4 DEF LoseStorage
  <2> QED
    BY <1>4, <2>1, <2>2 DEF LoseStorage
<1>5. ASSUME NEW w \in Workspace, InspectWorkspace(w) PROVE TypeOK'
  BY <1>5 DEF InspectWorkspace
<1>6. ASSUME NEW w \in Workspace, ArchiveWorkspace(w) PROVE TypeOK'
  BY <1>6 DEF ArchiveWorkspace
<1> QED
  BY <1>1, <1>2, <1>3, <1>4, <1>5, <1>6 DEF StorageNext

-----------------------------------------------------------------------------
(* A component writes only what belongs to its own pieces of work.         *)

OwnRows(K) ==
    \A o \in Work \ K : /\ state'[o] = state[o] /\ note'[o] = note[o]
                        /\ review'[o] = review[o] /\ sent'[o] = sent[o]
                        /\ o \in live' <=> o \in live
                        /\ o \in held' <=> o \in held
                        /\ o \in ack' <=> o \in ack
                        /\ o \in readers' <=> o \in readers
                        /\ o \in effect' <=> o \in effect
                        /\ lock' = o <=> lock = o

OwnLoop(loop) ==
    \A l \in Loop \ {loop} : hand'[l] = hand[l] /\ (l \in booting' <=> l \in booting)

OwnLease(K) ==
    \A w \in Workspace : writer'[w] # writer[w] =>
                            {writer[w], writer'[w]} \subseteq K \cup {Nobody}

Own(K, loop) == OwnRows(K) /\ OwnLoop(loop) /\ OwnLease(K)

\* The file worker and routes write file operations only; settle() and the
\* startup close other requests, but of files too.
LEMMA FileOwn == TypeOK /\ FileNext => Own(File, "files")
<1> SUFFICES ASSUME TypeOK, FileNext PROVE Own(File, "files")
  OBVIOUS
<1> USE Subsets, Disjoint DEF TypeOK, database, memory, outside, bounds
<1>1. ASSUME NEW f \in File, CheckFile(f) PROVE Own(File, "files")
  BY <1>1 DEF CheckFile, Own, OwnRows, OwnLoop, OwnLease
<1>2. ASSUME NEW f \in File, InsertFile(f) PROVE Own(File, "files")
  BY <1>2 DEF InsertFile, Own, OwnRows, OwnLoop, OwnLease
<1>3. ASSUME NEW f \in File, AdmitFile(f) PROVE Own(File, "files")
  <2>1. OwnRows(File)
    BY <1>3 DEF AdmitFile, OwnRows
  <2>2. OwnLoop("files")
    BY <1>3 DEF AdmitFile, OwnLoop, Loop
  <2>3. OwnLease(File)
    BY <1>3 DEF AdmitFile, Admissible, Free, OwnLease
  <2> QED BY <2>1, <2>2, <2>3 DEF Own
<1>4. ASSUME NEW f \in File, RefuseFile(f) PROVE Own(File, "files")
  <2>1. OwnRows(File)
    BY <1>4 DEF RefuseFile, OwnRows
  <2>2. OwnLoop("files")
    BY <1>4 DEF RefuseFile, OwnLoop, Loop
  <2>3. OwnLease(File)
    BY <1>4 DEF RefuseFile, Admissible, Free, OwnLease
  <2> QED BY <2>1, <2>2, <2>3 DEF Own
<1>5. ASSUME NEW f \in File, SendFile(f) PROVE Own(File, "files")
  BY <1>5 DEF SendFile, Own, OwnRows, OwnLoop, OwnLease
<1>6. ASSUME NEW f \in File, DenyFile(f) PROVE Own(File, "files")
  BY <1>6 DEF DenyFile, Own, OwnRows, OwnLoop, OwnLease
<1>7. ASSUME NEW f \in File, FileEffect(f) PROVE Own(File, "files")
  BY <1>7 DEF FileEffect, Own, OwnRows, OwnLoop, OwnLease
<1>8. ASSUME NEW f \in File, AnswerFile(f) PROVE Own(File, "files")
  BY <1>8 DEF AnswerFile, Own, OwnRows, OwnLoop, OwnLease
<1>9. ASSUME NEW f \in File, ExitFile(f) PROVE Own(File, "files")
  BY <1>9 DEF ExitFile, Own, OwnRows, OwnLoop, OwnLease
<1>10. ASSUME NEW f \in File, SettleFile(f) PROVE Own(File, "files")
  BY <1>10 DEF SettleFile, Settled, Owed, Own, OwnRows, OwnLoop, OwnLease
<1>11. ASSUME NEW f \in File, LoseSettlement(f) PROVE Own(File, "files")
  BY <1>11 DEF LoseSettlement, Settled, Owed, Own, OwnRows, OwnLoop, OwnLease
<1>12. ASSUME NEW f \in File, RequestInspection(f) PROVE Own(File, "files")
  BY <1>12 DEF RequestInspection, Own, OwnRows, OwnLoop, OwnLease
<1>13. ASSUME NEW f \in File, InspectFile(f) PROVE Own(File, "files")
  BY <1>13 DEF InspectFile, Own, OwnRows, OwnLoop, OwnLease
<1>14. ASSUME NEW f \in File, ReleaseFile(f) PROVE Own(File, "files")
  BY <1>14 DEF ReleaseFile, Own, OwnRows, OwnLoop, OwnLease
<1>15. ASSUME BootFiles PROVE Own(File, "files")
  BY <1>15 DEF BootFiles, Own, OwnRows, OwnLoop, OwnLease
<1> QED
  BY <1>1, <1>2, <1>3, <1>4, <1>5, <1>6, <1>7, <1>8, <1>9, <1>10, <1>11,
     <1>12, <1>13, <1>14, <1>15 DEF FileNext

\* TerminalSupervisor and the terminal routes write terminals only.
LEMMA TerminalOwn == TypeOK /\ TerminalNext => Own(Terminal, "terminals")
<1> SUFFICES ASSUME TypeOK, TerminalNext PROVE Own(Terminal, "terminals")
  OBVIOUS
<1> USE Subsets, Disjoint DEF TypeOK, database, memory, outside, bounds
<1>1. ASSUME NEW t \in Terminal, AcceptTerminal(t) PROVE Own(Terminal, "terminals")
  BY <1>1 DEF AcceptTerminal, Own, OwnRows, OwnLoop, OwnLease
<1>2. ASSUME NEW t \in Terminal, AdmitTerminal(t) PROVE Own(Terminal, "terminals")
  <2>1. OwnRows(Terminal)
    BY <1>2 DEF AdmitTerminal, OwnRows
  <2>2. OwnLoop("terminals")
    BY <1>2 DEF AdmitTerminal, OwnLoop, Loop
  <2>3. OwnLease(Terminal)
    BY <1>2 DEF AdmitTerminal, AdmissibleTerminal, Free, OwnLease
  <2> QED BY <2>1, <2>2, <2>3 DEF Own
<1>3. ASSUME NEW t \in Terminal, LoseTerminal(t) PROVE Own(Terminal, "terminals")
  <2>1. OwnRows(Terminal)
    BY <1>3 DEF LoseTerminal, OwnRows
  <2>2. OwnLoop("terminals")
    BY <1>3 DEF LoseTerminal, OwnLoop, Loop
  <2>3. OwnLease(Terminal)
    BY <1>3 DEF LoseTerminal, AdmissibleTerminal, Free, OwnLease
  <2> QED BY <2>1, <2>2, <2>3 DEF Own
<1>4. ASSUME NEW t \in Terminal, RefuseTerminal(t) PROVE Own(Terminal, "terminals")
  BY <1>4 DEF RefuseTerminal, Own, OwnRows, OwnLoop, OwnLease
<1>5. ASSUME NEW t \in Terminal, StartShell(t) PROVE Own(Terminal, "terminals")
  BY <1>5 DEF StartShell, Own, OwnRows, OwnLoop, OwnLease
<1>6. ASSUME NEW t \in Terminal, ShellStarted(t) PROVE Own(Terminal, "terminals")
  BY <1>6 DEF ShellStarted, Own, OwnRows, OwnLoop, OwnLease
<1>7. ASSUME NEW t \in Terminal, FailTerminal(t) PROVE Own(Terminal, "terminals")
  BY <1>7 DEF FailTerminal, Own, OwnRows, OwnLoop, OwnLease
<1>8. ASSUME NEW t \in Terminal, ShellExited(t) PROVE Own(Terminal, "terminals")
  BY <1>8 DEF ShellExited, Own, OwnRows, OwnLoop, OwnLease
<1>9. ASSUME NEW t \in Terminal, TerminateTerminal(t) PROVE Own(Terminal, "terminals")
  BY <1>9 DEF TerminateTerminal, Own, OwnRows, OwnLoop, OwnLease
<1>10. ASSUME NEW t \in Terminal, GiveUpTerminal(t) PROVE Own(Terminal, "terminals")
  BY <1>10 DEF GiveUpTerminal, Own, OwnRows, OwnLoop, OwnLease
<1>11. ASSUME NEW t \in Terminal, RetireTerminal(t) PROVE Own(Terminal, "terminals")
  BY <1>11 DEF RetireTerminal, Own, OwnRows, OwnLoop, OwnLease
<1>12. ASSUME BootTerminals PROVE Own(Terminal, "terminals")
  BY <1>12 DEF BootTerminals, Own, OwnRows, OwnLoop, OwnLease
<1> QED
  BY <1>1, <1>2, <1>3, <1>4, <1>5, <1>6, <1>7, <1>8, <1>9, <1>10, <1>11,
     <1>12 DEF TerminalNext

\* PreviewSupervisor and the preview routes write previews only.
LEMMA PreviewOwn == TypeOK /\ PreviewNext => Own(Previews, "previews")
<1> SUFFICES ASSUME TypeOK, PreviewNext PROVE Own(Previews, "previews")
  OBVIOUS
<1> USE Subsets, Disjoint DEF TypeOK, database, memory, outside, bounds
<1>1. ASSUME NEW p \in Previews, StartPreview(p) PROVE Own(Previews, "previews")
  BY <1>1 DEF StartPreview, Own, OwnRows, OwnLoop, OwnLease
<1>2. ASSUME NEW p \in Previews, AdmitPreview(p) PROVE Own(Previews, "previews")
  <2>1. OwnRows(Previews)
    BY <1>2 DEF AdmitPreview, Lease, OwnRows
  <2>2. OwnLoop("previews")
    BY <1>2 DEF AdmitPreview, Lease, OwnLoop, Loop
  <2>3. OwnLease(Previews)
    BY <1>2 DEF AdmitPreview, AdmissiblePreview, Free, Lease, OwnLease
  <2> QED BY <2>1, <2>2, <2>3 DEF Own
<1>3. ASSUME NEW p \in Previews, LosePreview(p) PROVE Own(Previews, "previews")
  <2>1. OwnRows(Previews)
    BY <1>3 DEF LosePreview, Lease, OwnRows
  <2>2. OwnLoop("previews")
    BY <1>3 DEF LosePreview, Lease, OwnLoop, Loop
  <2>3. OwnLease(Previews)
    BY <1>3 DEF LosePreview, AdmissiblePreview, Free, Lease, OwnLease
  <2> QED BY <2>1, <2>2, <2>3 DEF Own
<1>4. ASSUME NEW p \in Previews, RefusePreview(p) PROVE Own(Previews, "previews")
  BY <1>4 DEF RefusePreview, Own, OwnRows, OwnLoop, OwnLease
<1>5. ASSUME NEW p \in Previews, StartServer(p) PROVE Own(Previews, "previews")
  BY <1>5 DEF StartServer, Own, OwnRows, OwnLoop, OwnLease
<1>6. ASSUME NEW p \in Previews, ServerReady(p) PROVE Own(Previews, "previews")
  BY <1>6 DEF ServerReady, Own, OwnRows, OwnLoop, OwnLease
<1>7. ASSUME NEW p \in Previews, FailPreview(p) PROVE Own(Previews, "previews")
  BY <1>7 DEF FailPreview, Own, OwnRows, OwnLoop, OwnLease
<1>8. ASSUME NEW p \in Previews, StopPreview(p) PROVE Own(Previews, "previews")
  BY <1>8 DEF StopPreview, Own, OwnRows, OwnLoop, OwnLease
<1>9. ASSUME NEW p \in Previews, GiveUpPreview(p) PROVE Own(Previews, "previews")
  BY <1>9 DEF GiveUpPreview, Own, OwnRows, OwnLoop, OwnLease
<1>10. ASSUME NEW p \in Previews, RetirePreview(p) PROVE Own(Previews, "previews")
  <2>1. OwnRows(Previews)
    BY <1>10 DEF RetirePreview, Unlease, OwnRows
  <2>2. OwnLoop("previews")
    BY <1>10 DEF RetirePreview, Unlease, OwnLoop, Loop
  <2>3. OwnLease(Previews)
    BY <1>10 DEF RetirePreview, Unlease, OwnLease
  <2> QED BY <2>1, <2>2, <2>3 DEF Own
<1>11. ASSUME BootPreviews PROVE Own(Previews, "previews")
  BY <1>11 DEF BootPreviews, Own, OwnRows, OwnLoop, OwnLease
<1> QED
  BY <1>1, <1>2, <1>3, <1>4, <1>5, <1>6, <1>7, <1>8, <1>9, <1>10, <1>11 DEF PreviewNext

\* The dispatcher and the session routes write conversations only.
LEMMA ConversationOwn == TypeOK /\ ConversationNext => Own(Conversation, "conversations")
<1> SUFFICES ASSUME TypeOK, ConversationNext PROVE Own(Conversation, "conversations")
  OBVIOUS
<1> USE Subsets, Disjoint DEF TypeOK, database, memory, outside, bounds
<1>1. ASSUME NEW c \in Conversation, RequestTurn(c) PROVE Own(Conversation, "conversations")
  BY <1>1 DEF RequestTurn, Own, OwnRows, OwnLoop, OwnLease
<1>2. ASSUME NEW c \in Conversation, ClaimWorkspace(c) PROVE Own(Conversation, "conversations")
  <2>1. OwnRows(Conversation)
    BY <1>2 DEF ClaimWorkspace, Outdate, OwnRows
  <2>2. OwnLoop("conversations")
    BY <1>2 DEF ClaimWorkspace, Outdate, OwnLoop, Loop
  <2>3. OwnLease(Conversation)
    BY <1>2 DEF ClaimWorkspace, Claimable, Free, OwnLease
  <2> QED BY <2>1, <2>2, <2>3 DEF Own
<1>3. ASSUME NEW c \in Conversation, LoseClaim(c) PROVE Own(Conversation, "conversations")
  <2>1. OwnRows(Conversation)
    BY <1>3 DEF LoseClaim, Outdate, OwnRows
  <2>2. OwnLoop("conversations")
    BY <1>3 DEF LoseClaim, Outdate, OwnLoop, Loop
  <2>3. OwnLease(Conversation)
    BY <1>3 DEF LoseClaim, Claimable, Free, OwnLease
  <2> QED BY <2>1, <2>2, <2>3 DEF Own
<1>4. ASSUME NEW c \in Conversation, StartRuntime(c) PROVE Own(Conversation, "conversations")
  BY <1>4 DEF StartRuntime, Own, OwnRows, OwnLoop, OwnLease
<1>5. ASSUME NEW c \in Conversation, EndTurn(c) PROVE Own(Conversation, "conversations")
  BY <1>5 DEF EndTurn, Own, OwnRows, OwnLoop, OwnLease
<1>6. ASSUME NEW c \in Conversation, RetireRuntime(c) PROVE Own(Conversation, "conversations")
  BY <1>6 DEF RetireRuntime, Own, OwnRows, OwnLoop, OwnLease
<1>7. ASSUME NEW c \in Conversation, ReleaseWorkspace(c) PROVE Own(Conversation, "conversations")
  BY <1>7 DEF ReleaseWorkspace, Own, OwnRows, OwnLoop, OwnLease
<1>8. ASSUME NEW c \in Conversation, LoseRelease(c) PROVE Own(Conversation, "conversations")
  BY <1>8 DEF LoseRelease, Own, OwnRows, OwnLoop, OwnLease
<1>9. ASSUME NEW c \in Conversation, RecoverSession(c) PROVE Own(Conversation, "conversations")
  BY <1>9 DEF RecoverSession, Own, OwnRows, OwnLoop, OwnLease
<1>10. ASSUME NEW c \in Conversation, RequestRelease(c) PROVE Own(Conversation, "conversations")
  BY <1>10 DEF RequestRelease, Own, OwnRows, OwnLoop, OwnLease
<1>11. ASSUME NEW c \in Conversation, ProcessRelease(c) PROVE Own(Conversation, "conversations")
  <2>1. OwnRows(Conversation)
    BY <1>11 DEF ProcessRelease, OwnRows
  <2>2. OwnLoop("conversations")
    BY <1>11 DEF ProcessRelease, OwnLoop, Loop
  <2>3. OwnLease(Conversation)
    BY <1>11 DEF ProcessRelease, OwnLease
  <2> QED BY <2>1, <2>2, <2>3 DEF Own
<1>12. ASSUME BootConversations PROVE Own(Conversation, "conversations")
  BY <1>12 DEF BootConversations, Own, OwnRows, OwnLoop, OwnLease
<1>13. ASSUME NEW c \in Conversation, ContinueSession(c) PROVE Own(Conversation, "conversations")
  BY <1>13 DEF ContinueSession, Own, OwnRows, OwnLoop, OwnLease
<1> QED
  BY <1>1, <1>2, <1>3, <1>4, <1>5, <1>6, <1>7, <1>8, <1>9, <1>10, <1>11,
     <1>12, <1>13 DEF ConversationNext

\* The storage loop and routes write storage operations only.
LEMMA StorageOwn == TypeOK /\ StorageNext => Own(Storage, "storage")
<1> SUFFICES ASSUME TypeOK, StorageNext PROVE Own(Storage, "storage")
  OBVIOUS
<1> USE Subsets, Disjoint DEF TypeOK, database, memory, outside, bounds
<1>1. ASSUME NEW s \in Storage, RequestStorage(s) PROVE Own(Storage, "storage")
  BY <1>1 DEF RequestStorage, Own, OwnRows, OwnLoop, OwnLease
<1>2. ASSUME NEW s \in Storage, CommandStorage(s) PROVE Own(Storage, "storage")
  <2>1. OwnRows(Storage)
    BY <1>2 DEF CommandStorage, OwnRows
  <2>2. OwnLoop("storage")
    BY <1>2 DEF CommandStorage, OwnLoop, Loop
  <2>3. OwnLease(Storage)
    BY <1>2 DEF CommandStorage, OwnLease
  <2> QED BY <2>1, <2>2, <2>3 DEF Own
<1>3. ASSUME NEW s \in Storage, StorageAnswered(s) PROVE Own(Storage, "storage")
  <2>1. OwnRows(Storage)
    BY <1>3 DEF StorageAnswered, OwnRows
  <2>2. OwnLoop("storage")
    BY <1>3 DEF StorageAnswered, OwnLoop, Loop
  <2>3. OwnLease(Storage)
    BY <1>3 DEF StorageAnswered, OwnLease
  <2> QED BY <2>1, <2>2, <2>3 DEF Own
<1>4. ASSUME NEW s \in Storage, LoseStorage(s) PROVE Own(Storage, "storage")
  BY <1>4 DEF LoseStorage, Own, OwnRows, OwnLoop, OwnLease
<1>5. ASSUME NEW w \in Workspace, InspectWorkspace(w) \/ ArchiveWorkspace(w)
      PROVE  Own(Storage, "storage")
  BY <1>5 DEF InspectWorkspace, ArchiveWorkspace, Own, OwnRows, OwnLoop, OwnLease
<1> QED
  BY <1>1, <1>2, <1>3, <1>4, <1>5 DEF StorageNext

-----------------------------------------------------------------------------
(* ... and therefore the others' invariants survive its steps.             *)

\* What another component does leaves the file operations as they are.
LEMMA FilesKept ==
    ASSUME TypeOK, FilesOK, NEW K, NEW loop, Own(K, loop), K \cap File = {}, loop # "files"
    PROVE  FilesOK'
<1> SUFFICES ASSUME NEW f \in File PROVE FileInv(f)' /\ FileHeld(f)'
  BY DEF FilesOK
<1>1. f \in Work \ K /\ Home[f] \in Workspace /\ "files" \in Loop /\ f # Nobody
  BY Subsets, Disjoint DEF Loop
<1>2. FileInv(f) /\ FileHeld(f)
  BY DEF FilesOK
<1>3. FileInv(f)'
  BY <1>1, <1>2 DEF FileInv, Own, OwnRows, OwnLoop
<1>4. writer'[Home[f]] = f <=> writer[Home[f]] = f
  BY <1>1 DEF Own, OwnLease
<1>5. FileHeld(f)'
  BY <1>1, <1>2, <1>4 DEF FileHeld, Own, OwnRows
<1> QED BY <1>3, <1>5

\* ... the terminals.
LEMMA TerminalsKept ==
    ASSUME TypeOK, TerminalsOK, NEW K, NEW loop, Own(K, loop), K \cap Terminal = {}
    PROVE  TerminalsOK'
<1> SUFFICES ASSUME NEW t \in Terminal PROVE TerminalInv(t)' /\ TerminalHeld(t)'
  BY DEF TerminalsOK
<1>1. t \in Work \ K /\ Home[t] \in Workspace /\ t # Nobody
  BY Subsets, Disjoint
<1>2. writer'[Home[t]] = t <=> writer[Home[t]] = t
  BY <1>1 DEF Own, OwnLease
<1> QED
  BY <1>1, <1>2 DEF TerminalsOK, TerminalInv, TerminalHeld, Own, OwnRows

\* ... the previews.
LEMMA PreviewsKept ==
    ASSUME TypeOK, PreviewsOK, NEW K, NEW loop, Own(K, loop), K \cap Previews = {}
    PROVE  PreviewsOK'
<1> SUFFICES ASSUME NEW p \in Previews PROVE PreviewInv(p)' /\ PreviewHeld(p)'
  BY DEF PreviewsOK
<1>1. p \in Work \ K /\ Home[p] \in Workspace /\ p # Nobody
  BY Subsets, Disjoint
<1>2. writer'[Home[p]] = p <=> writer[Home[p]] = p
  BY <1>1 DEF Own, OwnLease
<1>3. Leased(p)' <=> Leased(p)
  BY <1>1, <1>2 DEF Leased, Own, OwnRows
<1> QED
  BY <1>1, <1>3 DEF PreviewsOK, PreviewInv, PreviewHeld, Own, OwnRows

\* ... the conversations.
LEMMA ConversationsKept ==
    ASSUME TypeOK, ConversationsOK, NEW K, NEW loop, Own(K, loop),
           K \cap Conversation = {}, loop # "conversations"
    PROVE  ConversationsOK'
<1> SUFFICES ASSUME NEW c \in Conversation PROVE ConversationInv(c)' /\ ConversationHeld(c)'
  BY DEF ConversationsOK
<1>1. c \in Work \ K /\ Home[c] \in Workspace /\ c # Nobody /\ "conversations" \in Loop
  BY Subsets, Disjoint DEF Loop
<1>2. writer'[Home[c]] = c <=> writer[Home[c]] = c
  BY <1>1 DEF Own, OwnLease
<1> QED
  BY <1>1, <1>2 DEF ConversationsOK, ConversationInv, ConversationHeld, Own, OwnRows, OwnLoop

-----------------------------------------------------------------------------
(* Each component keeps its own invariant.                                 *)

\* settle() writes the outcome of its own operation only, and closes requests
\* that were waiting.
LEMMA SettledEffect ==
    ASSUME TypeOK, FilesOK, NEW f \in File, Owed(f), Settled(f)
    PROVE  /\ IF state[f] \in {"queued", "dispatching"}
              THEN /\ state'[f] = note[f]
                   /\ writer'[Home[f]] = f <=> writer[Home[f]] = f /\ note[f] = "uncertain"
              ELSE state'[f] = state[f] /\ writer' = writer
           /\ \A g \in File \ {f} :
                 /\ state'[g] = state[g] \/ (state[g] = "queued" /\ state'[g] = "failed")
                 /\ writer'[Home[g]] = g <=> writer[Home[g]] = g
<1> USE Subsets, Disjoint DEF TypeOK
<1>1. CASE state[f] \notin {"queued", "dispatching"}
  BY <1>1 DEF Settled
<1>2. CASE state[f] \in {"queued", "dispatching"}
  <2>1. state' = [g \in Work |->
               CASE g = f -> note[f]
                 [] note[f] = "uncertain" /\ g \in File \ {f} /\ Dependent(g, f) -> "failed"
                 [] OTHER -> state[g]]
    BY <1>2 DEF Settled
  <2>2. state'[f] = note[f]
    BY <2>1
  <2>3. \A g \in File \ {f} : state'[g] = state[g] \/ (state[g] = "queued" /\ state'[g] = "failed")
    BY <2>1 DEF Dependent
  <2>4. note[f] = "uncertain" => writer' = writer
    BY <1>2 DEF Settled
  <2>5. note[f] # "uncertain" =>
           writer' = [writer EXCEPT ![Home[f]] = IF @ = f THEN Nobody ELSE @]
    BY <1>2 DEF Settled
  <2> QED BY <1>2, <2>2, <2>3, <2>4, <2>5
<1> QED BY <1>1, <1>2

\* recoverFileStartup() too leaves the other requests where they are.
LEMMA BootFilesEffect ==
    ASSUME TypeOK, BootFiles, NEW g \in File
    PROVE  \/ state[g] = "dispatching" /\ state'[g] = "uncertain"
           \/ state[g] = "queued" /\ state'[g] = "failed"
           \/ state[g] # "dispatching" /\ state'[g] = state[g]
BY Subsets DEF TypeOK, BootFiles, Dependent

\* Rows, notes and processes of file operations agree after every step of one.
LEMMA FilesStep == TypeOK /\ FilesOK /\ FileNext => FilesOK'
<1> SUFFICES ASSUME TypeOK, FilesOK, FileNext, NEW g \in File
             PROVE  FileInv(g)' /\ FileHeld(g)'
  BY DEF FilesOK
<1>a. \A f \in File : FileInv(f) /\ FileHeld(f)
  BY DEF FilesOK
<1> USE <1>a, Subsets, Disjoint DEF TypeOK, database, memory, outside, bounds
<1>1. ASSUME NEW f \in File, CheckFile(f) PROVE FileInv(g)' /\ FileHeld(g)'
  <2>1. FileInv(g)'
    BY <1>1 DEF CheckFile, Unlocked, FileInv
  <2>2. FileHeld(g)'
    BY <1>1 DEF CheckFile, Unlocked, FileInv, FileHeld
  <2> QED BY <2>1, <2>2
<1>2. ASSUME NEW f \in File, InsertFile(f) PROVE FileInv(g)' /\ FileHeld(g)'
  <2>1. FileInv(g)'
    BY <1>2 DEF InsertFile, FileInv
  <2>2. FileHeld(g)'
    BY <1>2 DEF InsertFile, FileInv, FileHeld
  <2> QED BY <2>1, <2>2
<1>3. ASSUME NEW f \in File, AdmitFile(f) PROVE FileInv(g)' /\ FileHeld(g)'
  <2>1. FileInv(g)'
    BY <1>3 DEF AdmitFile, FilePass, Idle, Admissible, Free, Unlocked, FileInv
  <2>2. FileHeld(g)'
    BY <1>3 DEF AdmitFile, FilePass, Idle, Admissible, Free, Unlocked, FileInv, FileHeld
  <2> QED BY <2>1, <2>2
<1>4. ASSUME NEW f \in File, RefuseFile(f) PROVE FileInv(g)' /\ FileHeld(g)'
  <2>1. FileInv(g)'
    BY <1>4 DEF RefuseFile, FilePass, Idle, Admissible, Free, Unlocked, FileInv
  <2>2. FileHeld(g)'
    BY <1>4 DEF RefuseFile, FilePass, Idle, Admissible, Free, Unlocked, FileInv, FileHeld
  <2> QED BY <2>1, <2>2
<1>5. ASSUME NEW f \in File, SendFile(f) PROVE FileInv(g)' /\ FileHeld(g)'
  <2>1. FileInv(g)'
    BY <1>5 DEF SendFile, FileInv
  <2>2. FileHeld(g)'
    BY <1>5 DEF SendFile, FileInv, FileHeld
  <2> QED BY <2>1, <2>2
<1>6. ASSUME NEW f \in File, DenyFile(f) PROVE FileInv(g)' /\ FileHeld(g)'
  <2>1. FileInv(g)'
    BY <1>6 DEF DenyFile, FileInv
  <2>2. FileHeld(g)'
    BY <1>6 DEF DenyFile, FileInv, FileHeld
  <2> QED BY <2>1, <2>2
<1>7. ASSUME NEW f \in File, FileEffect(f) PROVE FileInv(g)' /\ FileHeld(g)'
  <2>1. FileInv(g)'
    BY <1>7 DEF FileEffect, FileInv
  <2>2. FileHeld(g)'
    BY <1>7 DEF FileEffect, FileInv, FileHeld
  <2> QED BY <2>1, <2>2
<1>8. ASSUME NEW f \in File, AnswerFile(f) PROVE FileInv(g)' /\ FileHeld(g)'
  <2>1. FileInv(g)'
    BY <1>8 DEF AnswerFile, FileInv
  <2>2. FileHeld(g)'
    BY <1>8 DEF AnswerFile, FileInv, FileHeld
  <2> QED BY <2>1, <2>2
<1>9. ASSUME NEW f \in File, ExitFile(f) PROVE FileInv(g)' /\ FileHeld(g)'
  <2>1. FileInv(g)'
    BY <1>9 DEF ExitFile, FileInv
  <2>2. FileHeld(g)'
    BY <1>9 DEF ExitFile, FileInv, FileHeld
  <2> QED BY <2>1, <2>2
<1>10. ASSUME NEW f \in File, SettleFile(f) PROVE FileInv(g)' /\ FileHeld(g)'
  <2>a. Owed(f) /\ Settled(f) /\ note' = [note EXCEPT ![f] = "none"]
    BY <1>10 DEF SettleFile
  <2>b. hand' = [hand EXCEPT !["files"] = Nobody]
    BY <1>10 DEF SettleFile, Owed
  <2>c. note[f] \notin {"none", "launch"} /\ "files" \notin booting /\ lock = Nobody
    BY <2>a DEF Owed, Unlocked
  <2>1. FileInv(g)'
    BY <1>10, <2>a, <2>b, <2>c, SettledEffect DEF SettleFile, FileInv, Loop
  <2>2. FileHeld(g)'
    BY <1>10, <2>a, <2>c, SettledEffect DEF SettleFile, FileInv, FileHeld
  <2> QED BY <2>1, <2>2
<1>11. ASSUME NEW f \in File, LoseSettlement(f) PROVE FileInv(g)' /\ FileHeld(g)'
  <2>a. Owed(f) /\ (Settled(f) \/ UNCHANGED <<state, writer>>)
    BY <1>11 DEF LoseSettlement
  <2>b. hand' = [hand EXCEPT !["files"] = Nobody]
    BY <2>a DEF Owed
  <2>c. note[f] \notin {"none", "launch"} /\ "files" \notin booting /\ lock = Nobody
    BY <2>a DEF Owed, Unlocked
  <2>1. FileInv(g)'
    BY <1>11, <2>a, <2>b, <2>c, SettledEffect DEF LoseSettlement, FileInv, Loop
  <2>2. FileHeld(g)'
    BY <1>11, <2>a, <2>c, SettledEffect DEF LoseSettlement, FileInv, FileHeld
  <2> QED BY <2>1, <2>2
<1>12. ASSUME NEW f \in File, RequestInspection(f) PROVE FileInv(g)' /\ FileHeld(g)'
  <2>1. FileInv(g)'
    BY <1>12 DEF RequestInspection, FileInv
  <2>2. FileHeld(g)'
    BY <1>12 DEF RequestInspection, FileInv, FileHeld
  <2> QED BY <2>1, <2>2
<1>13. ASSUME NEW f \in File, InspectFile(f) PROVE FileInv(g)' /\ FileHeld(g)'
  <2>1. FileInv(g)'
    BY <1>13 DEF InspectFile, FilePass, Idle, FileInv
  <2>2. FileHeld(g)'
    BY <1>13 DEF InspectFile, FilePass, Idle, FileInv, FileHeld
  <2> QED BY <2>1, <2>2
<1>14. ASSUME NEW f \in File, ReleaseFile(f) PROVE FileInv(g)' /\ FileHeld(g)'
  <2>1. FileInv(g)'
    BY <1>14 DEF ReleaseFile, FileInv
  <2>2. FileHeld(g)'
    BY <1>14 DEF ReleaseFile, FileInv, FileHeld
  <2> QED BY <2>1, <2>2
<1>15. ASSUME BootFiles PROVE FileInv(g)' /\ FileHeld(g)'
  <2>1. FileInv(g)'
    BY <1>15, BootFilesEffect DEF BootFiles, FileInv
  <2>2. FileHeld(g)'
    BY <1>15, BootFilesEffect DEF BootFiles, FileInv, FileHeld
  <2> QED BY <2>1, <2>2
<1> QED
  BY <1>1, <1>2, <1>3, <1>4, <1>5, <1>6, <1>7, <1>8, <1>9, <1>10, <1>11,
     <1>12, <1>13, <1>14, <1>15 DEF FileNext

\* ... of terminals.
LEMMA TerminalsStep == TypeOK /\ TerminalsOK /\ TerminalNext => TerminalsOK'
<1> SUFFICES ASSUME TypeOK, TerminalsOK, TerminalNext, NEW u \in Terminal
             PROVE  TerminalInv(u)' /\ TerminalHeld(u)'
  BY DEF TerminalsOK
<1>a. \A t \in Terminal : TerminalInv(t) /\ TerminalHeld(t)
  BY DEF TerminalsOK
<1> USE <1>a, Subsets, Disjoint DEF TypeOK, database, memory, outside, bounds
<1>1. ASSUME NEW t \in Terminal, AcceptTerminal(t) PROVE TerminalInv(u)' /\ TerminalHeld(u)'
  BY <1>1 DEF AcceptTerminal, Running, TerminalInv, TerminalHeld
<1>2. ASSUME NEW t \in Terminal, AdmitTerminal(t) PROVE TerminalInv(u)' /\ TerminalHeld(u)'
  BY <1>2 DEF AdmitTerminal, AdmissibleTerminal, Free, Running, TerminalInv, TerminalHeld
<1>3. ASSUME NEW t \in Terminal, LoseTerminal(t) PROVE TerminalInv(u)' /\ TerminalHeld(u)'
  BY <1>3 DEF LoseTerminal, AdmissibleTerminal, Free, Running, TerminalInv, TerminalHeld
<1>4. ASSUME NEW t \in Terminal, RefuseTerminal(t) PROVE TerminalInv(u)' /\ TerminalHeld(u)'
  BY <1>4 DEF RefuseTerminal, Running, TerminalInv, TerminalHeld
<1>5. ASSUME NEW t \in Terminal, StartShell(t) PROVE TerminalInv(u)' /\ TerminalHeld(u)'
  BY <1>5 DEF StartShell, Running, TerminalInv, TerminalHeld
<1>6. ASSUME NEW t \in Terminal, ShellStarted(t) PROVE TerminalInv(u)' /\ TerminalHeld(u)'
  BY <1>6 DEF ShellStarted, Running, TerminalInv, TerminalHeld
<1>7. ASSUME NEW t \in Terminal, FailTerminal(t) PROVE TerminalInv(u)' /\ TerminalHeld(u)'
  BY <1>7 DEF FailTerminal, Running, TerminalInv, TerminalHeld
<1>8. ASSUME NEW t \in Terminal, ShellExited(t) PROVE TerminalInv(u)' /\ TerminalHeld(u)'
  BY <1>8 DEF ShellExited, Running, TerminalInv, TerminalHeld
<1>9. ASSUME NEW t \in Terminal, TerminateTerminal(t) PROVE TerminalInv(u)' /\ TerminalHeld(u)'
  BY <1>9 DEF TerminateTerminal, Dead, Running, TerminalInv, TerminalHeld
<1>10. ASSUME NEW t \in Terminal, GiveUpTerminal(t) PROVE TerminalInv(u)' /\ TerminalHeld(u)'
  BY <1>10 DEF GiveUpTerminal, Running, TerminalInv, TerminalHeld
<1>11. ASSUME NEW t \in Terminal, RetireTerminal(t) PROVE TerminalInv(u)' /\ TerminalHeld(u)'
  BY <1>11 DEF RetireTerminal, Running, TerminalInv, TerminalHeld
<1>12. ASSUME BootTerminals PROVE TerminalInv(u)' /\ TerminalHeld(u)'
  BY <1>12 DEF BootTerminals, Running, TerminalInv, TerminalHeld
<1> QED
  BY <1>1, <1>2, <1>3, <1>4, <1>5, <1>6, <1>7, <1>8, <1>9, <1>10, <1>11,
     <1>12 DEF TerminalNext

\* ... of previews.
LEMMA PreviewsStep == TypeOK /\ PreviewsOK /\ PreviewNext => PreviewsOK'
<1> SUFFICES ASSUME TypeOK, PreviewsOK, PreviewNext, NEW q \in Previews
             PROVE  PreviewInv(q)' /\ PreviewHeld(q)'
  BY DEF PreviewsOK
<1>a. \A p \in Previews : PreviewInv(p) /\ PreviewHeld(p)
  BY DEF PreviewsOK
<1> USE <1>a, Subsets, Disjoint DEF TypeOK, database, memory, outside, bounds
<1>1. ASSUME NEW p \in Previews, StartPreview(p) PROVE PreviewInv(q)' /\ PreviewHeld(q)'
  BY <1>1 DEF StartPreview, AtRest, Leased, Unretired, PreviewInv, PreviewHeld, Previews
<1>2. ASSUME NEW p \in Previews, AdmitPreview(p) PROVE PreviewInv(q)' /\ PreviewHeld(q)'
  BY <1>2 DEF AdmitPreview, AdmissiblePreview, Free, Lease, Leased, Unretired, PreviewInv, PreviewHeld, Previews
<1>3. ASSUME NEW p \in Previews, LosePreview(p) PROVE PreviewInv(q)' /\ PreviewHeld(q)'
  BY <1>3 DEF LosePreview, AdmissiblePreview, Free, Lease, Leased, Unretired, PreviewInv, PreviewHeld, Previews
<1>4. ASSUME NEW p \in Previews, RefusePreview(p) PROVE PreviewInv(q)' /\ PreviewHeld(q)'
  BY <1>4 DEF RefusePreview, Unretired, Leased, PreviewInv, PreviewHeld, Previews
<1>5. ASSUME NEW p \in Previews, StartServer(p) PROVE PreviewInv(q)' /\ PreviewHeld(q)'
  BY <1>5 DEF StartServer, Unretired, Leased, PreviewInv, PreviewHeld, Previews
<1>6. ASSUME NEW p \in Previews, ServerReady(p) PROVE PreviewInv(q)' /\ PreviewHeld(q)'
  BY <1>6 DEF ServerReady, Unretired, Leased, PreviewInv, PreviewHeld, Previews
<1>7. ASSUME NEW p \in Previews, FailPreview(p) PROVE PreviewInv(q)' /\ PreviewHeld(q)'
  BY <1>7 DEF FailPreview, Unretired, Leased, PreviewInv, PreviewHeld, Previews
<1>8. ASSUME NEW p \in Previews, StopPreview(p) PROVE PreviewInv(q)' /\ PreviewHeld(q)'
  BY <1>8 DEF StopPreview, Unretired, Leased, PreviewInv, PreviewHeld, Previews
<1>9. ASSUME NEW p \in Previews, GiveUpPreview(p) PROVE PreviewInv(q)' /\ PreviewHeld(q)'
  BY <1>9 DEF GiveUpPreview, Unretired, Leased, PreviewInv, PreviewHeld, Previews
<1>10. ASSUME NEW p \in Previews, RetirePreview(p) PROVE PreviewInv(q)' /\ PreviewHeld(q)'
  BY <1>10 DEF RetirePreview, Unlease, Leased, Unretired, PreviewInv, PreviewHeld, Previews
<1>11. ASSUME BootPreviews PROVE PreviewInv(q)' /\ PreviewHeld(q)'
  BY <1>11 DEF BootPreviews, Unretired, Leased, PreviewInv, PreviewHeld, Previews
<1> QED
  BY <1>1, <1>2, <1>3, <1>4, <1>5, <1>6, <1>7, <1>8, <1>9, <1>10, <1>11 DEF PreviewNext

\* ... of conversations.
LEMMA ConversationsStep == TypeOK /\ ConversationsOK /\ ConversationNext => ConversationsOK'
<1> SUFFICES ASSUME TypeOK, ConversationsOK, ConversationNext, NEW d \in Conversation
             PROVE  ConversationInv(d)' /\ ConversationHeld(d)'
  BY DEF ConversationsOK
<1>a. \A c \in Conversation : ConversationInv(c) /\ ConversationHeld(c)
  BY DEF ConversationsOK
<1> USE <1>a, Subsets, Disjoint DEF TypeOK, database, memory, outside, bounds
<1>1. ASSUME NEW c \in Conversation, RequestTurn(c) PROVE ConversationInv(d)' /\ ConversationHeld(d)'
  BY <1>1 DEF RequestTurn, ConversationInv, ConversationHeld
<1>2. ASSUME NEW c \in Conversation, ClaimWorkspace(c) PROVE ConversationInv(d)' /\ ConversationHeld(d)'
  BY <1>2 DEF ClaimWorkspace, Claimable, Free, Idle, ConversationInv, ConversationHeld
<1>3. ASSUME NEW c \in Conversation, LoseClaim(c) PROVE ConversationInv(d)' /\ ConversationHeld(d)'
  BY <1>3 DEF LoseClaim, Claimable, Free, Idle, ConversationInv, ConversationHeld
<1>4. ASSUME NEW c \in Conversation, StartRuntime(c) PROVE ConversationInv(d)' /\ ConversationHeld(d)'
  BY <1>4 DEF StartRuntime, ConversationInv, ConversationHeld
<1>5. ASSUME NEW c \in Conversation, EndTurn(c) PROVE ConversationInv(d)' /\ ConversationHeld(d)'
  BY <1>5 DEF EndTurn, ConversationInv, ConversationHeld
<1>6. ASSUME NEW c \in Conversation, RetireRuntime(c) PROVE ConversationInv(d)' /\ ConversationHeld(d)'
  BY <1>6 DEF RetireRuntime, ConversationInv, ConversationHeld
<1>7. ASSUME NEW c \in Conversation, ReleaseWorkspace(c) PROVE ConversationInv(d)' /\ ConversationHeld(d)'
  BY <1>7 DEF ReleaseWorkspace, ConversationInv, ConversationHeld
<1>8. ASSUME NEW c \in Conversation, LoseRelease(c) PROVE ConversationInv(d)' /\ ConversationHeld(d)'
  BY <1>8 DEF LoseRelease, ConversationInv, ConversationHeld
<1>9. ASSUME NEW c \in Conversation, RecoverSession(c) PROVE ConversationInv(d)' /\ ConversationHeld(d)'
  BY <1>9 DEF RecoverSession, ConversationInv, ConversationHeld
<1>10. ASSUME NEW c \in Conversation, RequestRelease(c) PROVE ConversationInv(d)' /\ ConversationHeld(d)'
  BY <1>10 DEF RequestRelease, ConversationInv, ConversationHeld
<1>11. ASSUME NEW c \in Conversation, ProcessRelease(c) PROVE ConversationInv(d)' /\ ConversationHeld(d)'
  BY <1>11 DEF ProcessRelease, Releasable, ConversationInv, ConversationHeld
<1>12. ASSUME BootConversations PROVE ConversationInv(d)' /\ ConversationHeld(d)'
  BY <1>12 DEF BootConversations, ConversationInv, ConversationHeld
<1>13. ASSUME NEW c \in Conversation, ContinueSession(c) PROVE ConversationInv(d)' /\ ConversationHeld(d)'
  BY <1>13 DEF ContinueSession, ConversationInv, ConversationHeld
<1> QED
  BY <1>1, <1>2, <1>3, <1>4, <1>5, <1>6, <1>7, <1>8, <1>9, <1>10, <1>11,
     <1>12, <1>13 DEF ConversationNext

-----------------------------------------------------------------------------
(* How the reservations move in a step.                                    *)

Holding == live \cap Writer

\* A reservation is taken only while nothing forbids it in the whole project.
Taken(o) == /\ Free(o) /\ Reserve(o)
            /\ ~GitPending /\ ~StoragePending
            /\ o \in Commit => NobodyAtWork
            /\ UNCHANGED readers

LeaseMove ==
    \/ writer' = writer /\ Holding' = Holding
    \/ \E o \in Writer : writer' = writer /\ Holding' = Holding \ {o}
    \/ \E o \in Writer : writer' = writer /\ writer[Home[o]] = o /\ Holding' = Holding \cup {o}
    \/ \E o \in Writer : Taken(o) /\ Holding' = Holding
    \/ \E o \in Writer : Unreserve(o) /\ Holding' = Holding \ {o}

ReadersMove == readers' \subseteq readers \/ (~GitPending /\ ~StoragePending)

\* A step of a file operation takes a workspace only when the project permits it,
\* starts a helper only under its reservation, and gives it back without one.
LEMMA FilesLease == TypeOK /\ FilesOK /\ FileNext => LeaseMove /\ ReadersMove
<1> SUFFICES ASSUME TypeOK, FilesOK, FileNext PROVE LeaseMove /\ ReadersMove
  OBVIOUS
<1> USE Subsets, Disjoint DEF TypeOK, FilesOK, database, memory, outside, bounds
<1>1. ASSUME NEW f \in File, CheckFile(f) PROVE LeaseMove /\ ReadersMove
  BY <1>1 DEF CheckFile, LeaseMove, ReadersMove, Holding
<1>2. ASSUME NEW f \in File, InsertFile(f) PROVE LeaseMove /\ ReadersMove
  BY <1>2 DEF InsertFile, LeaseMove, ReadersMove, Holding
<1>3. ASSUME NEW f \in File, AdmitFile(f) PROVE LeaseMove /\ ReadersMove
  BY <1>3 DEF AdmitFile, Admissible, NobodyAtWork, LeaseMove, ReadersMove, Holding, Taken
<1>4. ASSUME NEW f \in File, RefuseFile(f) PROVE LeaseMove /\ ReadersMove
  BY <1>4 DEF RefuseFile, Admissible, NobodyAtWork, LeaseMove, ReadersMove, Holding, Taken
<1>5. ASSUME NEW f \in File, SendFile(f) PROVE LeaseMove /\ ReadersMove
  BY <1>5 DEF SendFile, LeaseMove, ReadersMove, Holding
<1>6. ASSUME NEW f \in File, DenyFile(f) PROVE LeaseMove /\ ReadersMove
  BY <1>6 DEF DenyFile, LeaseMove, ReadersMove, Holding
<1>7. ASSUME NEW f \in File, FileEffect(f) PROVE LeaseMove /\ ReadersMove
  BY <1>7 DEF FileEffect, LeaseMove, ReadersMove, Holding
<1>8. ASSUME NEW f \in File, AnswerFile(f) PROVE LeaseMove /\ ReadersMove
  BY <1>8 DEF AnswerFile, LeaseMove, ReadersMove, Holding
<1>9. ASSUME NEW f \in File, ExitFile(f) PROVE LeaseMove /\ ReadersMove
  BY <1>9 DEF ExitFile, LeaseMove, ReadersMove, Holding
<1>10. ASSUME NEW f \in File, SettleFile(f) PROVE LeaseMove /\ ReadersMove
  BY <1>10 DEF SettleFile, Settled, Owed, FileInv, LeaseMove, ReadersMove, Holding
<1>11. ASSUME NEW f \in File, LoseSettlement(f) PROVE LeaseMove /\ ReadersMove
  BY <1>11 DEF LoseSettlement, Settled, Owed, FileInv, LeaseMove, ReadersMove, Holding
<1>12. ASSUME NEW f \in File, RequestInspection(f) PROVE LeaseMove /\ ReadersMove
  BY <1>12 DEF RequestInspection, LeaseMove, ReadersMove, Holding
<1>13. ASSUME NEW f \in File, InspectFile(f) PROVE LeaseMove /\ ReadersMove
  BY <1>13 DEF InspectFile, LeaseMove, ReadersMove, Holding
<1>14. ASSUME NEW f \in File, ReleaseFile(f) PROVE LeaseMove /\ ReadersMove
  <2>1. f \notin live
    BY <1>14 DEF ReleaseFile, FileInv
  <2>2. Unreserve(f) /\ live' = live /\ readers' = readers
    BY <1>14 DEF ReleaseFile
  <2>3. Holding' = Holding \ {f}
    BY <2>1, <2>2 DEF Holding
  <2> QED BY <2>2, <2>3 DEF LeaseMove, ReadersMove
<1>15. ASSUME BootFiles PROVE LeaseMove /\ ReadersMove
  BY <1>15 DEF BootFiles, LeaseMove, ReadersMove, Holding
<1> QED
  BY <1>1, <1>2, <1>3, <1>4, <1>5, <1>6, <1>7, <1>8, <1>9, <1>10, <1>11,
     <1>12, <1>13, <1>14, <1>15 DEF FileNext

\* ... of a terminal.
LEMMA TerminalsLease == TypeOK /\ TerminalsOK /\ TerminalNext => LeaseMove /\ ReadersMove
<1> SUFFICES ASSUME TypeOK, TerminalsOK, TerminalNext PROVE LeaseMove /\ ReadersMove
  OBVIOUS
<1> USE Subsets, Disjoint DEF TypeOK, TerminalsOK, database, memory, outside, bounds
<1>1. ASSUME NEW t \in Terminal, AcceptTerminal(t) PROVE LeaseMove /\ ReadersMove
  BY <1>1 DEF AcceptTerminal, LeaseMove, ReadersMove, Holding
<1>2. ASSUME NEW t \in Terminal, AdmitTerminal(t) PROVE LeaseMove /\ ReadersMove
  BY <1>2 DEF AdmitTerminal, AdmissibleTerminal, LeaseMove, ReadersMove, Holding, Taken
<1>3. ASSUME NEW t \in Terminal, LoseTerminal(t) PROVE LeaseMove /\ ReadersMove
  BY <1>3 DEF LoseTerminal, AdmissibleTerminal, LeaseMove, ReadersMove, Holding, Taken
<1>4. ASSUME NEW t \in Terminal, RefuseTerminal(t) PROVE LeaseMove /\ ReadersMove
  BY <1>4 DEF RefuseTerminal, LeaseMove, ReadersMove, Holding
<1>5. ASSUME NEW t \in Terminal, StartShell(t) PROVE LeaseMove /\ ReadersMove
  BY <1>5 DEF StartShell, LeaseMove, ReadersMove, Holding
<1>6. ASSUME NEW t \in Terminal, ShellStarted(t) PROVE LeaseMove /\ ReadersMove
  BY <1>6 DEF ShellStarted, LeaseMove, ReadersMove, Holding
<1>7. ASSUME NEW t \in Terminal, FailTerminal(t) PROVE LeaseMove /\ ReadersMove
  BY <1>7 DEF FailTerminal, LeaseMove, ReadersMove, Holding
<1>8. ASSUME NEW t \in Terminal, ShellExited(t) PROVE LeaseMove /\ ReadersMove
  BY <1>8 DEF ShellExited, LeaseMove, ReadersMove, Holding
<1>9. ASSUME NEW t \in Terminal, TerminateTerminal(t) PROVE LeaseMove /\ ReadersMove
  BY <1>9 DEF TerminateTerminal, LeaseMove, ReadersMove, Holding
<1>10. ASSUME NEW t \in Terminal, GiveUpTerminal(t) PROVE LeaseMove /\ ReadersMove
  BY <1>10 DEF GiveUpTerminal, LeaseMove, ReadersMove, Holding
<1>11. ASSUME NEW t \in Terminal, RetireTerminal(t) PROVE LeaseMove /\ ReadersMove
  BY <1>11 DEF RetireTerminal, LeaseMove, ReadersMove, Holding
<1>12. ASSUME BootTerminals PROVE LeaseMove /\ ReadersMove
  BY <1>12 DEF BootTerminals, LeaseMove, ReadersMove, Holding
<1> QED
  BY <1>1, <1>2, <1>3, <1>4, <1>5, <1>6, <1>7, <1>8, <1>9, <1>10, <1>11,
     <1>12 DEF TerminalNext

\* ... of a preview; one that reads enters preview_readers on the same terms.
LEMMA PreviewsLease == TypeOK /\ PreviewsOK /\ PreviewNext => LeaseMove /\ ReadersMove
<1> SUFFICES ASSUME TypeOK, PreviewsOK, PreviewNext PROVE LeaseMove /\ ReadersMove
  OBVIOUS
<1> USE Subsets, Disjoint DEF TypeOK, PreviewsOK, database, memory, outside, bounds
<1>1. ASSUME NEW p \in Previews, StartPreview(p) PROVE LeaseMove /\ ReadersMove
  BY <1>1 DEF StartPreview, LeaseMove, ReadersMove, Holding
<1>2. ASSUME NEW p \in Previews, AdmitPreview(p) PROVE LeaseMove /\ ReadersMove
  BY <1>2 DEF AdmitPreview, AdmissiblePreview, Lease, Previews, LeaseMove, ReadersMove, Holding, Taken
<1>3. ASSUME NEW p \in Previews, LosePreview(p) PROVE LeaseMove /\ ReadersMove
  BY <1>3 DEF LosePreview, AdmissiblePreview, Lease, Previews, LeaseMove, ReadersMove, Holding, Taken
<1>4. ASSUME NEW p \in Previews, RefusePreview(p) PROVE LeaseMove /\ ReadersMove
  BY <1>4 DEF RefusePreview, LeaseMove, ReadersMove, Holding
<1>5. ASSUME NEW p \in Previews, StartServer(p) PROVE LeaseMove /\ ReadersMove
  BY <1>5 DEF StartServer, Leased, Previews, Writer, LeaseMove, ReadersMove, Holding
<1>6. ASSUME NEW p \in Previews, ServerReady(p) PROVE LeaseMove /\ ReadersMove
  BY <1>6 DEF ServerReady, LeaseMove, ReadersMove, Holding
<1>7. ASSUME NEW p \in Previews, FailPreview(p) PROVE LeaseMove /\ ReadersMove
  BY <1>7 DEF FailPreview, LeaseMove, ReadersMove, Holding
<1>8. ASSUME NEW p \in Previews, StopPreview(p) PROVE LeaseMove /\ ReadersMove
  BY <1>8 DEF StopPreview, LeaseMove, ReadersMove, Holding
<1>9. ASSUME NEW p \in Previews, GiveUpPreview(p) PROVE LeaseMove /\ ReadersMove
  BY <1>9 DEF GiveUpPreview, LeaseMove, ReadersMove, Holding
<1>10. ASSUME NEW p \in Previews, RetirePreview(p) PROVE LeaseMove /\ ReadersMove
  BY <1>10 DEF RetirePreview, Unlease, Previews, Writer, LeaseMove, ReadersMove, Holding
<1>11. ASSUME BootPreviews PROVE LeaseMove /\ ReadersMove
  BY <1>11 DEF BootPreviews, LeaseMove, ReadersMove, Holding
<1> QED
  BY <1>1, <1>2, <1>3, <1>4, <1>5, <1>6, <1>7, <1>8, <1>9, <1>10, <1>11 DEF PreviewNext

\* ... of a conversation.
LEMMA ConversationsLease == TypeOK /\ ConversationsOK /\ ConversationNext => LeaseMove /\ ReadersMove
<1> SUFFICES ASSUME TypeOK, ConversationsOK, ConversationNext PROVE LeaseMove /\ ReadersMove
  OBVIOUS
<1> USE Subsets, Disjoint DEF TypeOK, ConversationsOK, database, memory, outside, bounds
<1>1. ASSUME NEW c \in Conversation, RequestTurn(c) PROVE LeaseMove /\ ReadersMove
  BY <1>1 DEF RequestTurn, LeaseMove, ReadersMove, Holding
<1>2. ASSUME NEW c \in Conversation, ClaimWorkspace(c) PROVE LeaseMove /\ ReadersMove
  BY <1>2 DEF ClaimWorkspace, Claimable, LeaseMove, ReadersMove, Holding, Taken
<1>3. ASSUME NEW c \in Conversation, LoseClaim(c) PROVE LeaseMove /\ ReadersMove
  BY <1>3 DEF LoseClaim, Claimable, LeaseMove, ReadersMove, Holding, Taken
<1>4. ASSUME NEW c \in Conversation, StartRuntime(c) PROVE LeaseMove /\ ReadersMove
  BY <1>4 DEF StartRuntime, ConversationHeld, LeaseMove, ReadersMove, Holding
<1>5. ASSUME NEW c \in Conversation, EndTurn(c) PROVE LeaseMove /\ ReadersMove
  BY <1>5 DEF EndTurn, LeaseMove, ReadersMove, Holding
<1>6. ASSUME NEW c \in Conversation, RetireRuntime(c) PROVE LeaseMove /\ ReadersMove
  BY <1>6 DEF RetireRuntime, LeaseMove, ReadersMove, Holding
<1>7. ASSUME NEW c \in Conversation, ReleaseWorkspace(c) PROVE LeaseMove /\ ReadersMove
  BY <1>7 DEF ReleaseWorkspace, ConversationInv, LeaseMove, ReadersMove, Holding
<1>8. ASSUME NEW c \in Conversation, LoseRelease(c) PROVE LeaseMove /\ ReadersMove
  BY <1>8 DEF LoseRelease, LeaseMove, ReadersMove, Holding
<1>9. ASSUME NEW c \in Conversation, RecoverSession(c) PROVE LeaseMove /\ ReadersMove
  BY <1>9 DEF RecoverSession, LeaseMove, ReadersMove, Holding
<1>10. ASSUME NEW c \in Conversation, RequestRelease(c) PROVE LeaseMove /\ ReadersMove
  BY <1>10 DEF RequestRelease, LeaseMove, ReadersMove, Holding
<1>11. ASSUME NEW c \in Conversation, ProcessRelease(c) PROVE LeaseMove /\ ReadersMove
  BY <1>11 DEF ProcessRelease, Releasable, LeaseMove, ReadersMove, Holding
<1>12. ASSUME BootConversations PROVE LeaseMove /\ ReadersMove
  BY <1>12 DEF BootConversations, LeaseMove, ReadersMove, Holding
<1>13. ASSUME NEW c \in Conversation, ContinueSession(c) PROVE LeaseMove /\ ReadersMove
  BY <1>13 DEF ContinueSession, LeaseMove, ReadersMove, Holding
<1> QED
  BY <1>1, <1>2, <1>3, <1>4, <1>5, <1>6, <1>7, <1>8, <1>9, <1>10, <1>11,
     <1>12, <1>13 DEF ConversationNext

\* A storage operation is no writer: it moves no reservation.
LEMMA StorageLease ==
    TypeOK /\ StorageNext => writer' = writer /\ readers' = readers /\ Holding' = Holding
<1> SUFFICES ASSUME TypeOK, StorageNext
             PROVE  writer' = writer /\ readers' = readers /\ Holding' = Holding
  OBVIOUS
<1> USE DEF database, memory, outside, bounds
<1>a. \A s \in Storage : s \notin Writer
  BY Disjoint, Subsets DEF Writer, Previews
<1>1. ASSUME NEW s \in Storage, RequestStorage(s)
      PROVE  writer' = writer /\ readers' = readers /\ Holding' = Holding
  BY <1>1 DEF RequestStorage, Holding
<1>2. ASSUME NEW s \in Storage, CommandStorage(s)
      PROVE  writer' = writer /\ readers' = readers /\ Holding' = Holding
  BY <1>a, <1>2 DEF CommandStorage, Holding
<1>3. ASSUME NEW s \in Storage, StorageAnswered(s)
      PROVE  writer' = writer /\ readers' = readers /\ Holding' = Holding
  BY <1>a, <1>3 DEF StorageAnswered, Holding
<1>4. ASSUME NEW s \in Storage, LoseStorage(s)
      PROVE  writer' = writer /\ readers' = readers /\ Holding' = Holding
  BY <1>a, <1>4 DEF LoseStorage, Holding
<1>5. ASSUME NEW w \in Workspace, InspectWorkspace(w) \/ ArchiveWorkspace(w)
      PROVE  writer' = writer /\ readers' = readers /\ Holding' = Holding
  BY <1>5 DEF InspectWorkspace, ArchiveWorkspace, Holding
<1> QED
  BY <1>1, <1>2, <1>3, <1>4, <1>5 DEF StorageNext

-----------------------------------------------------------------------------
(* The project as a whole.                                                 *)

\* A reservation is always one of the workspace of its holder.
LEMMA HomeStep == ASSUME TypeOK, HomeHeld, LeaseMove PROVE HomeHeld'
<1> SUFFICES ASSUME NEW w \in Workspace, writer'[w] # Nobody PROVE Home[writer'[w]] = w
  BY DEF HomeHeld
<1>1. writer'[w] = writer[w] \/ \E o \in Writer : Home[o] = w /\ writer'[w] = o
  BY Subsets, Disjoint DEF TypeOK, LeaseMove, Taken
<1> QED
  BY <1>1 DEF HomeHeld

\* While a Git operation holds a workspace nothing is reserved anew; it takes
\* one only when nothing else is reserved.
LEMMA GitStep ==
    ASSUME TypeOK, FilesOK, GitHeld, LeaseMove, ReadersMove PROVE GitHeld'
<1> SUFFICES ASSUME NEW g \in Commit, writer'[Home[g]] = g
             PROVE  readers' = {} /\ \A w \in Workspace \ {Home[g]} : writer'[w] = Nobody
  BY DEF GitHeld
<1>a. g \in File /\ g \in Work /\ Home[g] \in Workspace /\ g # Nobody
  BY Subsets, Disjoint
<1>1. CASE writer[Home[g]] = g
  <2>1. GitPending
    BY <1>a, <1>1 DEF FilesOK, FileInv, FileHeld, GitPending
  <2>2. readers = {} /\ \A w \in Workspace \ {Home[g]} : writer[w] = Nobody
    BY <1>1 DEF GitHeld
  <2>3. readers' = {}
    BY <2>1, <2>2 DEF ReadersMove
  <2>4. ASSUME NEW w \in Workspace PROVE writer'[w] \in {writer[w], Nobody}
    BY <2>1, <2>4 DEF LeaseMove, Taken, TypeOK
  <2> QED BY <2>2, <2>3, <2>4
<1>2. CASE writer[Home[g]] # g
  <2>1. PICK o \in Writer : Taken(o) \/ Unreserve(o)
    BY <1>2 DEF LeaseMove
  <2>2. ~Unreserve(o)
    BY <1>a, <1>2 DEF TypeOK
  <2>3. o = g
    BY <1>a, <1>2, <2>1, <2>2, Subsets DEF TypeOK, Taken
  <2> QED BY <1>a, <2>1, <2>2, <2>3 DEF Taken, NobodyAtWork, TypeOK
<1> QED BY <1>1, <1>2

\* A pending storage operation keeps the others from reserving anything.
LEMMA StorageKept ==
    ASSUME TypeOK, StorageHeld, NEW K, NEW loop, Own(K, loop), K \cap Storage = {},
           LeaseMove, ReadersMove
    PROVE  StorageHeld'
<1>1. \A s \in Storage : state'[s] = state[s] /\ (s \in live' <=> s \in live)
  BY Subsets DEF Own, OwnRows
<1>2. StoragePending' <=> StoragePending
  BY <1>1 DEF StoragePending
<1>3. ASSUME StoragePending PROVE NobodyAtWork'
  <2>1. readers = {} /\ \A w \in Workspace : writer[w] = Nobody
    BY <1>3 DEF StorageHeld, NobodyAtWork
  <2>2. readers' = {}
    BY <1>3, <2>1 DEF ReadersMove
  <2>3. ASSUME NEW w \in Workspace PROVE writer'[w] \in {writer[w], Nobody}
    BY <1>3, <2>3 DEF LeaseMove, Taken, TypeOK
  <2> QED BY <2>1, <2>2, <2>3 DEF NobodyAtWork
<1> QED
  BY <1>1, <1>2, <1>3 DEF StorageHeld

\* A storage operation is requested only while nothing works in the project,
\* and its row leaves "dispatching" with the answer only.
LEMMA StorageStep == IInv /\ StorageNext => StorageHeld'
<1> SUFFICES ASSUME IInv, StorageNext PROVE StorageHeld'
  OBVIOUS
<1> USE Subsets DEF IInv, TypeOK, ProjectOK, database, memory, outside, bounds
<1>a. writer' = writer /\ readers' = readers
  BY StorageLease
<1>1. ASSUME NEW s \in Storage, RequestStorage(s) PROVE StorageHeld'
  <2>1. ProjectIdle /\ state' = [state EXCEPT ![s] = "queued"] /\ live' = live
    BY <1>1 DEF RequestStorage
  <2>2. ~StoragePending /\ \A w \in Workspace : writer[w] = Nobody
    BY <2>1 DEF ProjectIdle
  <2>3. \A p \in Previews : state[p] \in {"idle", "stopped"}
    BY <2>1 DEF ProjectIdle
  <2>4. readers = {}
    <3> SUFFICES ASSUME NEW r \in readers PROVE FALSE
      OBVIOUS
    <3>1. r \in Previews /\ Leased(r)
      BY Disjoint DEF Leased, Previews
    <3> QED BY <2>3, <3>1 DEF PreviewsOK, PreviewHeld, Unretired
  <2>5. NobodyAtWork'
    BY <1>a, <2>2, <2>4 DEF NobodyAtWork
  <2>6. \A r \in Storage : r \notin live /\ state[r] \notin {"queued", "dispatching"}
    BY <2>2 DEF StorageHeld, StoragePending
  <2> QED BY <2>1, <2>5, <2>6 DEF StorageHeld
<1>2. ASSUME NEW s \in Storage, CommandStorage(s) PROVE StorageHeld'
  <2>1. /\ state[s] \in {"queued", "dispatching"} /\ live' = live \cup {s}
        /\ state' = [state EXCEPT ![s] = "dispatching"]
    BY <1>2 DEF CommandStorage
  <2>2. NobodyAtWork'
    BY <1>a, <2>1 DEF StorageHeld, StoragePending, NobodyAtWork
  <2> QED BY <2>1, <2>2 DEF StorageHeld
<1>3. ASSUME NEW s \in Storage, StorageAnswered(s) PROVE StorageHeld'
  <2>1. /\ live' = live \ {s}
        /\ \E n \in {"completed", "failed"} : state' = [state EXCEPT ![s] = n]
    BY <1>3 DEF StorageAnswered
  <2>2. StoragePending' => StoragePending
    BY <2>1 DEF StoragePending
  <2> QED BY <1>a, <2>1, <2>2 DEF StorageHeld, NobodyAtWork
<1>4. ASSUME NEW s \in Storage, LoseStorage(s) PROVE StorageHeld'
  BY <1>4 DEF LoseStorage, StorageHeld, StoragePending, NobodyAtWork
<1>5. ASSUME NEW w \in Workspace, InspectWorkspace(w) \/ ArchiveWorkspace(w)
      PROVE  StorageHeld'
  BY <1>5 DEF InspectWorkspace, ArchiveWorkspace, StorageHeld, StoragePending, NobodyAtWork
<1> QED
  BY <1>1, <1>2, <1>3, <1>4, <1>5 DEF StorageNext

-----------------------------------------------------------------------------
(* The inductive invariant holds.                                          *)

\* Initially nothing was requested.
LEMMA Initially == Init => IInv
<1> SUFFICES ASSUME Init PROVE IInv
  OBVIOUS
<1> USE Subsets, Disjoint DEF Init
<1>1. TypeOK
  <2>1. workspace \in [Workspace -> {"absent", "ready"}]
    OBVIOUS
  <2>2. state \in [Work -> States] /\ sent \in [Work -> Nat] /\ tries \in [Work -> Nat]
    BY DEF States
  <2>3. /\ review \in [Work -> {"none"}] /\ note \in [Work -> {"none"}]
        /\ writer \in [Workspace -> {Nobody}] /\ hand \in [Loop -> {Nobody}]
    OBVIOUS
  <2>4. requests = 0 /\ crashes = 0 /\ lost = 0 /\ emergency = FALSE
    OBVIOUS
  <2>5. /\ readers = {} /\ ack = {} /\ lock = Nobody /\ held = {} /\ booting = {}
        /\ live = {} /\ effect = {}
    OBVIOUS
  <2> HIDE DEF Init
  <2>6. /\ workspace \in [Workspace -> {"absent", "creating", "ready", "removing", "removed",
                                        "unavailable", "archived", "failed"}]
        /\ review \in [Work -> {"none", "queued", "outdated", "ready", "failed", "completed"}]
        /\ note \in [Work -> {"none", "launch", "stop", "release", "succeeded",
                              "failed", "uncertain"}]
    BY <2>1, <2>3
  <2>7. writer \in [Workspace -> Writer \cup {Nobody}] /\ hand \in [Loop -> Work \cup {Nobody}]
    BY <2>3
  <2>8. {requests, crashes, lost} \subseteq Nat
    BY <2>4
  <2>9. emergency \in BOOLEAN
    BY <2>4
  <2> QED
    BY <2>2, <2>5, <2>6, <2>7, <2>8, <2>9 DEF TypeOK
<1>a. \A o \in Work : /\ state[o] = "idle" /\ note[o] = "none" /\ review[o] = "none"
                      /\ sent[o] = 0 /\ o \notin live /\ writer[Home[o]] # o
                      /\ lock # o /\ o \notin ack
  OBVIOUS
<1>b. hand["files"] = Nobody /\ "files" \notin booting
  BY DEF Loop
<1>2. FilesOK
  <2>1. ASSUME NEW f \in File PROVE FileInv(f)
    BY <1>a, <1>b DEF FileInv
  <2>2. ASSUME NEW f \in File PROVE FileHeld(f)
    BY <1>a DEF FileHeld
  <2> QED BY <2>1, <2>2 DEF FilesOK
<1>3. TerminalsOK
  BY <1>a DEF TerminalsOK, TerminalInv, TerminalHeld
<1>4. PreviewsOK
  BY DEF PreviewsOK, PreviewInv, PreviewHeld, Leased
<1>5. ConversationsOK
  BY DEF ConversationsOK, ConversationInv, ConversationHeld
<1>6. ProjectOK
  BY DEF ProjectOK, HomeHeld, GitHeld, StorageHeld, StoragePending
<1> QED
  BY <1>1, <1>2, <1>3, <1>4, <1>5, <1>6 DEF IInv

\* A restart forgets the supervisor's memory and changes no row.
LEMMA RestartStep == IInv /\ Restart => IInv'
<1> SUFFICES ASSUME IInv, Restart PROVE IInv'
  OBVIOUS
<1> USE Subsets, Disjoint DEF IInv, Restart, database, outside
<1>1. TypeOK'
  BY DEF TypeOK
<1>2. FilesOK'
  BY DEF TypeOK, FilesOK, FileInv, FileHeld, Loop
<1>3. TerminalsOK'
  BY DEF TypeOK, TerminalsOK, TerminalInv, TerminalHeld
<1>4. PreviewsOK'
  BY DEF TypeOK, PreviewsOK, PreviewInv, PreviewHeld, Leased
<1>5. ConversationsOK'
  BY DEF TypeOK, ConversationsOK, ConversationInv, ConversationHeld, Loop
<1>6. ProjectOK'
  BY DEF ProjectOK, HomeHeld, GitHeld, StorageHeld, StoragePending, NobodyAtWork
<1> QED
  BY <1>1, <1>2, <1>3, <1>4, <1>5, <1>6

\* The emergency flag alone changes nothing that the invariant is about.
LEMMA EmergencyStep == IInv /\ (EmergencyStop) => IInv'
<1> SUFFICES ASSUME IInv, EmergencyStop PROVE IInv'
  OBVIOUS
<1> USE DEF IInv
<1>1. /\ UNCHANGED <<workspace, writer, readers, state, review, tries, ack, lock,
                     memory, outside, crashes, lost>>
      /\ emergency' \in BOOLEAN
      /\ requests' = requests \/ requests' = requests + 1
  BY DEF EmergencyStop, bounds
<1> USE DEF memory, outside
<1>2. TypeOK'
  BY <1>1 DEF TypeOK
<1>3. FilesOK'
  BY <1>1 DEF FilesOK, FileInv, FileHeld
<1>4. TerminalsOK'
  BY <1>1 DEF TerminalsOK, TerminalInv, TerminalHeld
<1>5. PreviewsOK'
  BY <1>1 DEF PreviewsOK, PreviewInv, PreviewHeld, Leased
<1>6. ConversationsOK'
  BY <1>1 DEF ConversationsOK, ConversationInv, ConversationHeld
<1>7. ProjectOK'
  BY <1>1 DEF ProjectOK, HomeHeld, GitHeld, StorageHeld, StoragePending, NobodyAtWork
<1> QED
  BY <1>2, <1>3, <1>4, <1>5, <1>6, <1>7

\* Nothing changes in a stuttering step.
LEMMA StutterStep == IInv /\ UNCHANGED vars => IInv'
<1> SUFFICES ASSUME IInv, UNCHANGED vars PROVE IInv'
  OBVIOUS
<1> USE DEF IInv, vars, database, memory, outside, bounds
<1>1. TypeOK'
  BY DEF TypeOK
<1>2. FilesOK'
  BY DEF FilesOK, FileInv, FileHeld
<1>3. TerminalsOK' /\ PreviewsOK'
  BY DEF TerminalsOK, TerminalInv, TerminalHeld, PreviewsOK, PreviewInv, PreviewHeld, Leased
<1>4. ConversationsOK'
  BY DEF ConversationsOK, ConversationInv, ConversationHeld
<1>5. ProjectOK'
  BY DEF ProjectOK, HomeHeld, GitHeld, StorageHeld, StoragePending, NobodyAtWork
<1> QED
  BY <1>1, <1>2, <1>3, <1>4, <1>5

\* One step of one component: it keeps its own invariant, the others' for want
\* of touching them, and the project's for what every admission looks at.
LEMMA ComponentStep ==
    IInv /\ (FileNext \/ TerminalNext \/ PreviewNext \/ ConversationNext \/ StorageNext)
       => IInv'
<1> SUFFICES ASSUME IInv, FileNext \/ TerminalNext \/ PreviewNext \/ ConversationNext \/ StorageNext
             PROVE  IInv'
  OBVIOUS
<1> USE DEF IInv
<1>a. /\ File \cap Terminal = {} /\ File \cap Previews = {} /\ File \cap Conversation = {}
      /\ Terminal \cap Previews = {} /\ Terminal \cap Conversation = {}
      /\ Previews \cap Conversation = {}
      /\ Storage \cap File = {} /\ Storage \cap Terminal = {} /\ Storage \cap Previews = {}
      /\ Storage \cap Conversation = {}
  BY Disjoint
<1>b. ASSUME NEW K, NEW loop, Own(K, loop), K \cap Storage = {}, LeaseMove, ReadersMove
      PROVE  ProjectOK'
  BY <1>b, HomeStep, GitStep, StorageKept DEF ProjectOK
<1>1. CASE FileNext
  <2>1. Own(File, "files") /\ TypeOK' /\ FilesOK' /\ LeaseMove /\ ReadersMove
    BY <1>1, FileOwn, FileTypes, FilesStep, FilesLease
  <2>2. TerminalsOK' /\ PreviewsOK' /\ ConversationsOK'
    BY <1>a, <2>1, TerminalsKept, PreviewsKept, ConversationsKept
  <2> QED BY <1>a, <1>b, <2>1, <2>2
<1>2. CASE TerminalNext
  <2>1. Own(Terminal, "terminals") /\ TypeOK' /\ TerminalsOK' /\ LeaseMove /\ ReadersMove
    BY <1>2, TerminalOwn, TerminalTypes, TerminalsStep, TerminalsLease
  <2>2. FilesOK' /\ PreviewsOK' /\ ConversationsOK'
    BY <1>a, <2>1, FilesKept, PreviewsKept, ConversationsKept
  <2> QED BY <1>a, <1>b, <2>1, <2>2
<1>3. CASE PreviewNext
  <2>1. Own(Previews, "previews") /\ TypeOK' /\ PreviewsOK' /\ LeaseMove /\ ReadersMove
    BY <1>3, PreviewOwn, PreviewTypes, PreviewsStep, PreviewsLease
  <2>2. FilesOK' /\ TerminalsOK' /\ ConversationsOK'
    BY <1>a, <2>1, FilesKept, TerminalsKept, ConversationsKept
  <2> QED BY <1>a, <1>b, <2>1, <2>2
<1>4. CASE ConversationNext
  <2>1. /\ Own(Conversation, "conversations") /\ TypeOK' /\ ConversationsOK'
        /\ LeaseMove /\ ReadersMove
    BY <1>4, ConversationOwn, ConversationTypes, ConversationsStep, ConversationsLease
  <2>2. FilesOK' /\ TerminalsOK' /\ PreviewsOK'
    BY <1>a, <2>1, FilesKept, TerminalsKept, PreviewsKept
  <2> QED BY <1>a, <1>b, <2>1, <2>2
<1>5. CASE StorageNext
  <2>1. Own(Storage, "storage") /\ TypeOK' /\ StorageHeld'
    BY <1>5, StorageOwn, StorageTypes, StorageStep
  <2>2. FilesOK' /\ TerminalsOK' /\ PreviewsOK' /\ ConversationsOK'
    BY <1>a, <2>1, FilesKept, TerminalsKept, PreviewsKept, ConversationsKept
  <2>3. HomeHeld' /\ GitHeld'
    BY <1>5, StorageLease DEF ProjectOK, HomeHeld, GitHeld
  <2> QED BY <2>1, <2>2, <2>3 DEF ProjectOK
<1> QED
  BY <1>1, <1>2, <1>3, <1>4, <1>5

\* Every step of the system keeps the invariant.
LEMMA Inductive == IInv /\ [Next]_vars => IInv'
BY ComponentStep, EmergencyStep, RestartStep, StutterStep DEF Next

\* The strengthening of everything below holds in every reachable state.
THEOREM Invariant == Spec => []IInv
BY Initially, Inductive, PTL DEF Spec

-----------------------------------------------------------------------------
(* What follows from it.                                                   *)

\* Every variable keeps its type, in particular whatever settle() writes is a
\* state of the table and every reservation names a piece of work.
THEOREM TypeCorrect == Spec => []TypeOK
<1>1. IInv => TypeOK
  BY DEF IInv
<1> QED BY Invariant, <1>1, PTL

\* What runs is entered where the admissions look: a writer in its workspace, a
\* preview that reads in preview_readers.
LEMMA LiveHolds ==
    ASSUME IInv
    PROVE  /\ \A o \in live \cap Writer : writer[Home[o]] = o
           /\ \A r \in live \cap Reader : r \in readers
<1>1. ASSUME NEW o \in live \cap Writer PROVE writer[Home[o]] = o
  <2>1. CASE o \in File
    BY <1>1, <2>1 DEF IInv, FilesOK, FileHeld
  <2>2. CASE o \in Terminal
    BY <1>1, <2>2 DEF IInv, TerminalsOK, TerminalHeld
  <2>3. CASE o \in Preview
    BY <1>1, <2>3, Subsets DEF IInv, PreviewsOK, PreviewHeld, Leased
  <2>4. CASE o \in Conversation
    BY <1>1, <2>4 DEF IInv, ConversationsOK, ConversationHeld
  <2> QED BY <1>1, <2>1, <2>2, <2>3, <2>4 DEF Writer
<1>2. ASSUME NEW r \in live \cap Reader PROVE r \in readers
  BY <1>2, Subsets, Disjoint DEF IInv, PreviewsOK, PreviewHeld, Leased
<1> QED BY <1>1, <1>2

\* A stage, unstage or commit helper shares the project with no other writer and
\* no reader, however the admissions of five loops interleave.
THEOREM GitIsAlone == Spec => []GitAlone
<1>1. IInv => GitAlone
  <2> SUFFICES ASSUME IInv, NEW g \in Commit \cap live, NEW o \in live \cap (Writer \cup Reader)
               PROVE  o = g
    BY Subsets DEF GitAlone
  <2>1. writer[Home[g]] = g
    BY LiveHolds, Subsets
  <2>2. readers = {} /\ \A w \in Workspace \ {Home[g]} : writer[w] = Nobody
    BY <2>1 DEF IInv, ProjectOK, GitHeld
  <2>3. o \in Writer /\ writer[Home[o]] = o
    BY <2>2, LiveHolds
  <2> QED BY <2>1, <2>2, <2>3, Subsets, Disjoint
<1> QED BY Invariant, <1>1, PTL

\* While the storage service may still work in a folder nothing else runs in the
\* project, though its command is repeated after every lost answer.
THEOREM StorageIsAlone == Spec => []StorageAlone
<1>1. IInv => StorageAlone
  <2> SUFFICES ASSUME IInv, NEW s \in Storage \cap live, NEW o \in live PROVE o = s
    BY DEF StorageAlone
  <2>1. state[s] = "dispatching"
    BY DEF IInv, ProjectOK, StorageHeld
  <2>2. readers = {} /\ \A w \in Workspace : writer[w] = Nobody
    BY <2>1 DEF IInv, ProjectOK, StorageHeld, StoragePending, NobodyAtWork
  <2>3. o \notin Writer \cup Reader
    BY <2>2, LiveHolds, Subsets, Disjoint
  <2>4. o \in Storage
    BY <2>3 DEF IInv, TypeOK, Work
  <2>5. state[o] = "dispatching"
    BY <2>4 DEF IInv, ProjectOK, StorageHeld
  <2> QED BY <2>1, <2>4, <2>5 DEF IInv, ProjectOK, StorageHeld
<1> QED BY Invariant, <1>1, PTL

\* The state shown of a file operation agrees with the folder.
THEOREM FileIsHonest == Spec => []HonestFile
<1>1. IInv => HonestFile
  BY DEF IInv, FilesOK, FileInv, HonestFile
<1> QED BY Invariant, <1>1, PTL

\* A file operation in doubt keeps its workspace until it is acknowledged.
THEOREM DoubtIsReserved == Spec => []DoubtReserved
<1>1. IInv => DoubtReserved
  BY DEF IInv, FilesOK, FileHeld, DoubtReserved
<1> QED BY Invariant, <1>1, PTL

\* No reservation is left behind without a row that will give it back.
THEOREM NoOrphanLeft == Spec => []NoOrphan
<1>1. IInv => NoOrphan
  <2> SUFFICES ASSUME IInv, NEW w \in Workspace, NEW o, o = writer[w]
               PROVE  /\ o \in File => \/ state[o] = "dispatching"
                                       \/ state[o] = "uncertain" /\ o \notin ack
                      /\ o \in Terminal => state[o] \in Running
                      /\ o \in Preview => state[o] \in Unretired
    BY DEF NoOrphan
  <2>1. o \in Work => writer[Home[o]] = o
    BY Disjoint DEF IInv, ProjectOK, HomeHeld
  <2>2. o \in File => \/ state[o] = "dispatching"
                      \/ state[o] = "uncertain" /\ o \notin ack
    BY <2>1, Subsets DEF IInv, FilesOK, FileHeld
  <2>3. o \in Terminal => state[o] \in Running
    BY <2>1, Subsets DEF IInv, TerminalsOK, TerminalHeld
  <2>4. o \in Preview => state[o] \in Unretired
    BY <2>1, Subsets DEF IInv, PreviewsOK, PreviewHeld, Leased
  <2> QED BY <2>2, <2>3, <2>4
<1> QED BY Invariant, <1>1, PTL

\* Each command leaves for a process only when nothing of an earlier start runs.
LEMMA Launches ==
    IInv /\ [Next]_vars => \A o \in Writer \cup Reader : sent'[o] > sent[o] => o \notin live
<1> SUFFICES ASSUME IInv, [Next]_vars, NEW o \in Writer \cup Reader, sent'[o] > sent[o]
             PROVE  o \notin live
  OBVIOUS
<1> USE Subsets, Disjoint DEF database, memory, outside, bounds
<1>a. o \in Work /\ ~(sent[o] > sent[o])
  BY DEF IInv, TypeOK
<1>b. ASSUME NEW u \in Work, Dispatch(u), u \notin live \/ u \in Storage PROVE o \notin live
  BY <1>a, <1>b DEF IInv, TypeOK, Writer, Previews
<1>1. ASSUME FileNext PROVE o \notin live
  <2>1. sent' = sent \/ \E f \in File : SendFile(f)
    BY <1>1 DEF FileNext, CheckFile, InsertFile, AdmitFile, RefuseFile, DenyFile,
                FileEffect, AnswerFile, ExitFile, SettleFile, LoseSettlement,
                RequestInspection, InspectFile, ReleaseFile, BootFiles
  <2>2. ASSUME NEW f \in File, SendFile(f) PROVE f \notin live /\ Dispatch(f)
    BY <2>2 DEF SendFile, IInv, FilesOK, FileInv
  <2> QED BY <1>a, <1>b, <2>1, <2>2
<1>2. ASSUME TerminalNext PROVE o \notin live
  <2>1. sent' = sent \/ \E t \in Terminal : StartShell(t)
    BY <1>2 DEF TerminalNext, AcceptTerminal, AdmitTerminal, LoseTerminal, RefuseTerminal,
                ShellStarted, FailTerminal, ShellExited, TerminateTerminal,
                GiveUpTerminal, RetireTerminal, BootTerminals
  <2>2. ASSUME NEW t \in Terminal, StartShell(t) PROVE t \notin live /\ Dispatch(t)
    BY <2>2 DEF StartShell, IInv, TerminalsOK, TerminalInv
  <2> QED BY <1>a, <1>b, <2>1, <2>2
<1>3. ASSUME PreviewNext PROVE o \notin live
  <2>1. sent' = sent \/ \E p \in Previews : StartServer(p)
    BY <1>3 DEF PreviewNext, StartPreview, AdmitPreview, LosePreview, RefusePreview,
                ServerReady, FailPreview, StopPreview, GiveUpPreview, RetirePreview,
                BootPreviews
  <2>2. ASSUME NEW p \in Previews, StartServer(p) PROVE p \notin live /\ Dispatch(p)
    BY <2>2 DEF StartServer, IInv, PreviewsOK, PreviewInv
  <2> QED BY <1>a, <1>b, <2>1, <2>2
<1>4. ASSUME ConversationNext PROVE o \notin live
  <2>1. sent' = sent \/ \E c \in Conversation : StartRuntime(c)
    BY <1>4 DEF ConversationNext, RequestTurn, ClaimWorkspace, LoseClaim, EndTurn,
                RetireRuntime, ReleaseWorkspace, LoseRelease, RecoverSession,
                ContinueSession, RequestRelease, ProcessRelease, BootConversations
  <2>2. ASSUME NEW c \in Conversation, StartRuntime(c) PROVE c \notin live /\ Dispatch(c)
    BY <2>2 DEF StartRuntime, IInv, ConversationsOK, ConversationInv
  <2> QED BY <1>a, <1>b, <2>1, <2>2
<1>5. ASSUME StorageNext PROVE o \notin live
  <2>1. sent' = sent \/ \E s \in Storage : CommandStorage(s)
    BY <1>5 DEF StorageNext, RequestStorage, StorageAnswered, LoseStorage,
                InspectWorkspace, ArchiveWorkspace
  <2>2. ASSUME NEW s \in Storage, CommandStorage(s) PROVE Dispatch(s)
    BY <2>2 DEF CommandStorage
  <2> QED BY <1>a, <1>b, <2>1, <2>2
<1>6. ASSUME EmergencyStop \/ Restart \/ UNCHANGED vars PROVE sent' = sent
  BY <1>6 DEF EmergencyStop, Restart, vars
<1> QED
  BY <1>a, <1>1, <1>2, <1>3, <1>4, <1>5, <1>6 DEF Next

\* A file operation and a terminal are started once, a preview or a conversation
\* only when nothing of its former start is left, whatever is lost or restarted.
THEOREM NotStartedTwice == Spec => NoSecondStart
<1>1. IInv /\ IInv' /\ [Next]_vars => [StartedOnce]_vars
  <2> SUFFICES ASSUME IInv, IInv', [Next]_vars PROVE StartedOnce
    OBVIOUS
  <2>1. \A f \in File : sent'[f] <= 1
    BY DEF IInv, FilesOK, FileInv
  <2>2. \A t \in Terminal : sent'[t] <= 1
    BY DEF IInv, TerminalsOK, TerminalInv
  <2> QED BY <2>1, <2>2, Launches DEF StartedOnce
<1> QED BY Invariant, <1>1, PTL DEF Spec, NoSecondStart

-----------------------------------------------------------------------------
(* The reservation column implements the lease.                            *)

\* A move of the reservations is a step of the lease, or none.
LEMMA LeaseStep ==
    TypeOK /\ LeaseMove => [Reservation!Next]_<<writer, live \cap Writer>>
<1> SUFFICES ASSUME TypeOK, LeaseMove
             PROVE  [Reservation!Next]_<<writer, live \cap Writer>>
  OBVIOUS
<1> USE DEF Holding, TypeOK
<1>1. ASSUME NEW o \in Writer, writer' = writer, Holding' = Holding \ {o}
      PROVE  Reservation!Stop(o)
  BY <1>1 DEF Reservation!Stop
<1>2. ASSUME NEW o \in Writer, writer' = writer, writer[Home[o]] = o,
             Holding' = Holding \cup {o}
      PROVE  Reservation!Start(o)
  BY <1>2 DEF Reservation!Start
<1>3. ASSUME NEW o \in Writer, Taken(o), Holding' = Holding
      PROVE  Reservation!Take(o)
  BY <1>3 DEF Reservation!Take, Taken, Free
<1>4. ASSUME NEW o \in Writer, Unreserve(o), Holding' = Holding \ {o}
      PROVE  Reservation!Give(o) \/ Reservation!Stop(o)
  <2>1. CASE writer[Home[o]] = o
    BY <1>4, <2>1 DEF Reservation!Give
  <2>2. CASE writer[Home[o]] # o
    <3>1. writer' = writer
      BY <1>4, <2>2
    <3> QED BY <1>4, <3>1 DEF Reservation!Stop
  <2> QED BY <2>1, <2>2
<1> QED
  BY <1>1, <1>2, <1>3, <1>4 DEF LeaseMove, Reservation!Next

\* The writer column of the workspaces is a lease: what may write in a folder
\* holds it, and it passes to another only when nothing of the holder runs.
THEOREM ImplementsLease == Spec => OneWriter
<1>1. Init => Reservation!Init
  BY DEF Init, Reservation!Init
<1>2. IInv /\ [Next]_vars => [Reservation!Next]_<<writer, live \cap Writer>>
  <2> SUFFICES ASSUME IInv, [Next]_vars
               PROVE  [Reservation!Next]_<<writer, live \cap Writer>>
    OBVIOUS
  <2> USE DEF IInv
  <2>1. CASE FileNext \/ TerminalNext \/ PreviewNext \/ ConversationNext
    BY <2>1, FilesLease, TerminalsLease, PreviewsLease, ConversationsLease, LeaseStep
  <2>2. CASE StorageNext
    BY <2>2, StorageLease DEF Holding
  <2>3. CASE EmergencyStop \/ Restart \/ UNCHANGED vars
    BY <2>3 DEF EmergencyStop, Restart, vars, database, outside
  <2> QED BY <2>1, <2>2, <2>3 DEF Next
<1> QED
  BY Invariant, <1>1, <1>2, PTL DEF Spec, OneWriter, Reservation!Spec
=============================================================================
