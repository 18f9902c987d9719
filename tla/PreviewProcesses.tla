-------------------------- MODULE PreviewProcesses --------------------------
(***************************************************************************)
(* The life of a preview: a configured development server that may be      *)
(* started again and again.  One that may write reserves its workspace,    *)
(* one that only reads is entered in preview_readers.                      *)
(***************************************************************************)
EXTENDS Reservations

\* (seeded fault) a preview in doubt may be started again.
AtRestOrInDoubt == {"idle", "stopped", "uncertain"}

\* The states of a preview whose former process is confirmed gone.
AtRest == {"idle", "stopped"}
Unretired == {"starting", "ready", "stopping", "uncertain"}

Leased(p) == IF p \in Preview THEN writer[Home[p]] = p ELSE p \in readers

\* POST /previews/:id/start
StartPreview(p) ==
    /\ Unlocked /\ Requested
    /\ state[p] \in AtRest /\ Usable(p) /\ ~emergency
    /\ \A q \in Previews : Home[q] = Home[p] => state[q] # "queued"
    /\ Become(p, "queued")
    /\ tries' = [tries EXCEPT ![p] = 0]
    /\ UNCHANGED <<workspace, writer, readers, review, ack, emergency, lock,
                   memory, outside, crashes, lost>>

AdmissiblePreview(p) ==
    /\ Idle("previews") /\ Unlocked
    /\ state[p] = "queued" /\ note[p] # "stop" /\ ~emergency /\ Usable(p)
    /\ \A q \in Previews : Home[q] = Home[p] => state[q] \notin Unretired
    /\ p \in Preview => Free(p)
    /\ ~StoragePending /\ ~GitPending
    /\ Cardinality({q \in Previews : state[q] \in Unretired}) < PreviewLimit

Lease(p) == IF p \in Preview
            THEN Reserve(p) /\ UNCHANGED readers
            ELSE readers' = readers \cup {p} /\ UNCHANGED writer

Unlease(p) == IF p \in Preview
              THEN Unreserve(p) /\ UNCHANGED readers
              ELSE readers' = readers \ {p} /\ UNCHANGED writer

AdmitPreview(p) ==
    /\ AdmissiblePreview(p)
    /\ Become(p, "starting") /\ Lease(p)
    /\ Take("previews", p) /\ held' = held \cup {p} /\ Note(p, "launch")
    /\ UNCHANGED <<workspace, review, tries, ack, emergency, lock, booting,
                   outside, bounds>>

\* The claim is committed, its reply is lost.
LosePreview(p) ==
    /\ AdmissiblePreview(p) /\ Faulty
    /\ Become(p, "starting") /\ Lease(p)
    /\ UNCHANGED <<workspace, review, tries, ack, emergency, lock, memory,
                   outside, requests, crashes>>

RefusePreview(p) ==
    /\ Idle("previews") /\ Unlocked
    /\ state[p] = "queued" /\ ~Usable(p) /\ ~emergency
    /\ Become(p, "stopped")
    /\ UNCHANGED <<workspace, writer, readers, review, tries, ack, emergency,
                   lock, memory, outside, bounds>>

\* wire(): the command is sent inside a transaction that checks everything.
StartServer(p) ==
    /\ hand["previews"] = p /\ note[p] = "launch"
    /\ Unlocked /\ ~emergency /\ Usable(p)
    /\ state[p] = "starting" /\ Leased(p)
    /\ Dispatch(p) /\ Note(p, "none")
    /\ UNCHANGED <<database, hand, held, booting, bounds>>

\* The probes succeed: the launch is over.
ServerReady(p) ==
    /\ hand["previews"] = p /\ note[p] = "none"
    /\ Unlocked /\ ~emergency /\ Usable(p)
    /\ state[p] = "starting" /\ Leased(p)
    /\ Become(p, "ready") /\ Drop("previews")
    /\ UNCHANGED <<workspace, writer, readers, review, tries, ack, emergency,
                   lock, held, note, booting, outside, bounds>>

\* fail(): the launch failed, the server ended, the relay closed, a limit or
\* the lifetime was reached.
FailPreview(p) ==
    /\ p \in held /\ note[p] # "stop"
    /\ Note(p, "stop")
    /\ IF hand["previews"] = p THEN Drop("previews") ELSE UNCHANGED hand
    /\ UNCHANGED <<database, held, booting, outside, bounds>>

\* POST /previews/:id/stop; an uncertain one needs an acknowledgement.
StopPreview(p) ==
    /\ Unlocked
    /\ \/ state[p] = "queued" /\ Become(p, "stopped") /\ UNCHANGED tries
       \/ /\ state[p] \in Unretired \ {"stopping"} /\ tries[p] < 3
          /\ Become(p, "stopping")
          /\ tries' = [tries EXCEPT ![p] = @ + 1]
    /\ UNCHANGED <<workspace, writer, readers, review, ack, emergency, lock,
                   memory, outside, bounds>>

\* The tick gives up a preview: nobody owns it, or the emergency stop, its
\* deadline or a failure asks for it.
GiveUpPreview(p) ==
    /\ Idle("previews") /\ Unlocked
    /\ \/ state[p] \in {"starting", "ready"} /\ p \notin held
       \/ state[p] \in {"queued", "starting", "ready"} /\ emergency
       \/ state[p] \in {"queued", "starting", "ready"} /\ note[p] = "stop"
    /\ Become(p, IF state[p] = "queued" THEN "stopped" ELSE "stopping")
    /\ UNCHANGED <<workspace, writer, readers, review, tries, ack, emergency,
                   lock, memory, outside, bounds>>

\* retire(): relay and runtime are confirmed gone, then the row and the lease
\* are settled together (when only the reply of the COMMIT is lost, the handle
\* stays); or that fails.
RetirePreview(p) ==
    /\ Idle("previews") /\ Unlocked /\ state[p] = "stopping"
    /\ \/ /\ live' = live \ {p}
          /\ Become(p, "stopped") /\ Unlease(p)
          /\ \/ held' = held \ {p} /\ Note(p, "none") /\ UNCHANGED lost
             \/ Faulty /\ UNCHANGED <<held, note>>
       \/ /\ live' \in {live, live \ {p}}
          /\ Become(p, "uncertain")
          /\ UNCHANGED <<writer, readers, held, note, lost>>
    /\ UNCHANGED <<workspace, review, tries, ack, emergency, lock, hand,
                   booting, sent, effect, requests, crashes>>

\* The first tick after a start; an uncertain one keeps waiting for the owner.
BootPreviews ==
    /\ "previews" \in booting /\ "files" \notin booting
    /\ booting' = booting \ {"previews"}
    /\ state' = [o \in Work |->
                   IF o \in Previews /\ state[o] \in Unretired \ {"uncertain"}
                   THEN "stopping" ELSE state[o]]
    /\ UNCHANGED <<workspace, writer, readers, review, tries, ack, emergency,
                   lock, hand, held, note, outside, bounds>>

PreviewNext ==
    \/ \E p \in Previews :
          \/ StartPreview(p) \/ AdmitPreview(p) \/ LosePreview(p)
          \/ RefusePreview(p) \/ StartServer(p) \/ ServerReady(p)
          \/ FailPreview(p) \/ StopPreview(p) \/ GiveUpPreview(p)
          \/ RetirePreview(p)
    \/ BootPreviews
=============================================================================
