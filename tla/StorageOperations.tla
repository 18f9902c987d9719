------------------------- MODULE StorageOperations -------------------------
(***************************************************************************)
(* Creation and removal of managed workspaces.  A request is accepted only *)
(* while nothing works in the project; from then on nothing starts until   *)
(* the storage service has answered, however often it has to be asked.     *)
(* Only the folder's own availability may change beside it.                *)
(***************************************************************************)
EXTENDS Reservations

\* inspectWorkspace(), reached by a mere GET and without any lock: the folder
\* is missing or changed, or is there again.
InspectWorkspace(w) ==
    /\ Requested
    /\ \/ workspace[w] = "ready" /\ workspace' = [workspace EXCEPT ![w] = "unavailable"]
       \/ workspace[w] = "unavailable" /\ workspace' = [workspace EXCEPT ![w] = "ready"]
    /\ UNCHANGED <<writer, readers, state, review, tries, ack, emergency, lock,
                   memory, outside, crashes, lost>>

\* POST /workspaces/:id/archive: nothing works in this workspace.
ArchiveWorkspace(w) ==
    /\ Unlocked /\ Requested /\ ~StoragePending
    /\ workspace[w] \notin {"absent", "removed", "archived"}
    /\ writer[w] = Nobody
    /\ \A o \in Work : Home[o] = w =>
          /\ state[o] # "queued"
          /\ o \in File \cup Conversation => state[o] # "dispatching"
          /\ o \in Previews => state[o] \in {"idle", "stopped"}
    /\ workspace' = [workspace EXCEPT ![w] = "archived"]
    /\ UNCHANGED <<writer, readers, state, review, tries, ack, emergency, lock,
                   memory, outside, crashes, lost>>

\* (seeded fault) previews are looked for as writers only.
NoWriterInProject ==
    /\ ~StoragePending
    /\ \A w \in Workspace : writer[w] = Nobody
    /\ \A o \in Work : state[o] # "queued"
    /\ \A o \in File \cup Conversation : state[o] # "dispatching"

\* requireWorkspaceIdle(db, w, true)
ProjectIdle ==
    /\ ~StoragePending
    /\ \A w \in Workspace : writer[w] = Nobody
    /\ \A o \in Work : state[o] # "queued"
    /\ \A o \in File \cup Conversation : state[o] # "dispatching"
    /\ \A p \in Previews : state[p] \in {"idle", "stopped"}

\* POST /projects/:id/workspaces and DELETE /workspaces/:id
RequestStorage(s) ==
    /\ Unlocked /\ Requested /\ ProjectIdle
    /\ \/ s \in Creation /\ state[s] = "idle"
          /\ workspace[Home[s]] = "absent"
          /\ \E v \in Workspace : workspace[v] = "ready"
       \/ s \in Removal /\ state[s] \in {"idle", "failed"}
          /\ workspace[Home[s]] \in {"ready", "unavailable", "archived"}
    /\ Become(s, "queued")
    /\ workspace' = [workspace EXCEPT ![Home[s]] =
                       IF s \in Creation THEN "creating" ELSE "removing"]
    /\ UNCHANGED <<writer, readers, review, tries, ack, emergency, lock,
                   memory, outside, crashes, lost>>

\* (seeded fault) a command is not repeated.
CommandOnce(s) ==
    /\ Idle("storage") /\ Unlocked
    /\ state[s] = "queued"
    /\ Become(s, "dispatching") /\ Take("storage", s)
    /\ Dispatch(s)
    /\ UNCHANGED <<workspace, writer, readers, review, tries, ack, emergency,
                   lock, held, note, booting, bounds>>

\* processWorkspaceStorage(): the command, with the identity it always has.
CommandStorage(s) ==
    /\ Idle("storage") /\ Unlocked
    /\ state[s] \in {"queued", "dispatching"}
    /\ Become(s, "dispatching") /\ Take("storage", s)
    /\ Dispatch(s)
    /\ UNCHANGED <<workspace, writer, readers, review, tries, ack, emergency,
                   lock, held, note, booting, bounds>>

\* The service has done it, or could not; both are final.
StorageAnswered(s) ==
    /\ hand["storage"] = s /\ Unlocked /\ Drop("storage")
    /\ live' = live \ {s}
    /\ \/ /\ Become(s, "completed")
          /\ \E w \in IF s \in Creation THEN {"ready", "unavailable"} ELSE {"removed"} :
                workspace' = [workspace EXCEPT ![Home[s]] = w]
       \/ /\ Become(s, "failed")
          /\ workspace' = [workspace EXCEPT ![Home[s]] =
                             IF s \in Creation THEN "failed" ELSE "ready"]
    /\ UNCHANGED <<writer, readers, review, tries, ack, emergency, lock, held,
                   note, booting, sent, effect, bounds>>

\* The reply or the COMMIT is lost: the operation stays pending and is asked
\* for again.
LoseStorage(s) ==
    /\ hand["storage"] = s /\ Faulty /\ Drop("storage")
    /\ live' \in {live, live \ {s}}
    /\ UNCHANGED <<database, held, note, booting, sent, effect, requests, crashes>>

StorageNext ==
    \/ \E s \in Storage : \/ RequestStorage(s) \/ CommandStorage(s)
                          \/ StorageAnswered(s) \/ LoseStorage(s)
    \/ \E w \in Workspace : InspectWorkspace(w) \/ ArchiveWorkspace(w)
=============================================================================
