------------------------- MODULE TerminalProcesses -------------------------
(***************************************************************************)
(* The life of a terminal as a writer of its workspace: queued, admitted,  *)
(* launched, retired.  The loop of TerminalSupervisor handles one row at a *)
(* time and awaits the launch of a terminal, so that no other row moves    *)
(* meanwhile; the API may.  What is typed is in module TerminalInput.      *)
(***************************************************************************)
EXTENDS Reservations

Dead == {"retired", "failed"}
Running == {"dispatching", "running", "exited", "retiring", "uncertain"}

\* POST /workspaces/:id/terminals
AcceptTerminal(t) ==
    /\ Unlocked /\ Requested
    /\ state[t] = "idle" /\ Usable(t) /\ ~emergency
    /\ Become(t, "queued")
    /\ UNCHANGED <<workspace, writer, readers, review, tries, ack, emergency,
                   lock, memory, outside, crashes, lost>>

\* (seeded fault) a Git operation in another workspace of the project is
\* overlooked.
AdmissibleBesideGit(t) ==
    /\ Idle("terminals") /\ Unlocked
    /\ state[t] = "queued" /\ ~emergency /\ Usable(t)
    /\ Free(t) /\ ~StoragePending
    /\ Cardinality({u \in Terminal : state[u] \in Running}) < TerminalLimit

AdmissibleTerminal(t) ==
    /\ Idle("terminals") /\ Unlocked
    /\ state[t] = "queued" /\ ~emergency /\ Usable(t)
    /\ Free(t) /\ ~GitPending /\ ~StoragePending
    /\ Cardinality({u \in Terminal : state[u] \in Running}) < TerminalLimit

AdmitTerminal(t) ==
    /\ AdmissibleTerminal(t)
    /\ Become(t, "dispatching") /\ Reserve(t)
    /\ Take("terminals", t) /\ held' = held \cup {t} /\ Note(t, "launch")
    /\ UNCHANGED <<workspace, readers, review, tries, ack, emergency, lock,
                   booting, outside, bounds>>

\* The claim is committed, its reply is lost: nobody owns the terminal.
LoseTerminal(t) ==
    /\ AdmissibleTerminal(t) /\ Faulty
    /\ Become(t, "dispatching") /\ Reserve(t)
    /\ UNCHANGED <<workspace, readers, review, tries, ack, emergency, lock,
                   memory, outside, requests, crashes>>

\* The admission throws: the emergency stop, the grant, the authority or the
\* workspace forbids it.
RefuseTerminal(t) ==
    /\ Idle("terminals") /\ Unlocked
    /\ state[t] = "queued"
    /\ Become(t, "failed")
    /\ UNCHANGED <<workspace, writer, readers, review, tries, ack, emergency,
                   lock, memory, outside, bounds>>

\* wire(): the shell is started inside a transaction that checks everything.
StartShell(t) ==
    /\ hand["terminals"] = t /\ note[t] = "launch"
    /\ Unlocked /\ ~emergency
    /\ state[t] = "dispatching" /\ writer[Home[t]] = t
    /\ Dispatch(t) /\ Note(t, "none")
    /\ UNCHANGED <<database, hand, held, booting, bounds>>

\* The answer of the launch; a termination requested meanwhile wins.
ShellStarted(t) ==
    /\ hand["terminals"] = t /\ note[t] = "none"
    /\ Become(t, IF state[t] = "dispatching" THEN "running" ELSE state[t])
    /\ Drop("terminals")
    /\ UNCHANGED <<workspace, writer, readers, review, tries, ack, emergency,
                   lock, held, note, booting, outside, bounds>>

\* fail(): the launch failed, the connection broke, a limit or the lifetime
\* was reached.
FailTerminal(t) ==
    /\ t \in held /\ note[t] # "stop"
    /\ Note(t, "stop")
    /\ IF hand["terminals"] = t THEN Drop("terminals") ELSE UNCHANGED hand
    /\ UNCHANGED <<database, held, booting, outside, bounds>>

\* flush(): the shell has ended, its runtime has not.
ShellExited(t) ==
    /\ Idle("terminals")
    /\ t \in held \cap live /\ state[t] \in {"dispatching", "running"}
    /\ Become(t, "exited")
    /\ UNCHANGED <<workspace, writer, readers, review, tries, ack, emergency,
                   lock, memory, outside, bounds>>

\* POST /terminals/:id/terminate
TerminateTerminal(t) ==
    /\ Unlocked
    /\ state[t] \notin {"idle"} \cup Dead /\ tries[t] < 3
    /\ Become(t, IF state[t] = "queued" THEN "retired" ELSE "retiring")
    /\ tries' = [tries EXCEPT ![t] = @ + 1]
    /\ UNCHANGED <<workspace, writer, readers, review, ack, emergency, lock,
                   memory, outside, bounds>>

\* (seeded fault) the emergency stop passes over a terminal whose shell has
\* exited.
GiveUpUnlessExited(t) ==
    /\ Idle("terminals")
    /\ \/ state[t] = "dispatching" /\ t \notin held
       \/ state[t] \in {"queued", "dispatching", "running"} /\ (emergency \/ note[t] = "stop")
    /\ Become(t, "retiring")
    /\ UNCHANGED <<workspace, writer, readers, review, tries, ack, emergency,
                   lock, memory, outside, bounds>>

\* The tick gives up a terminal: nobody owns it, or the emergency stop, its
\* deadline or a failure asks for it.  An uncertain one waits for the owner.
GiveUpTerminal(t) ==
    /\ Idle("terminals")
    /\ \/ state[t] = "dispatching" /\ t \notin held
       \/ /\ state[t] \in {"queued", "dispatching", "running", "exited"}
          /\ emergency \/ note[t] = "stop"
    /\ Become(t, "retiring")
    /\ UNCHANGED <<workspace, writer, readers, review, tries, ack, emergency,
                   lock, memory, outside, bounds>>

\* (seeded fault) an absence that was not confirmed settles the row; only
\* terminals with a handle are retired.
RetireUnconfirmed(t) ==
    /\ Idle("terminals") /\ state[t] = "retiring" /\ Unlocked
    /\ live' \in {live, live \ {t}}
    /\ Become(t, "retired") /\ Unreserve(t)
    /\ held' = held \ {t} /\ Note(t, "none")
    /\ UNCHANGED <<workspace, readers, review, tries, ack, emergency, lock,
                   hand, booting, sent, effect, bounds>>
RetireHeld(t) ==
    /\ Idle("terminals") /\ state[t] = "retiring" /\ Unlocked /\ t \in held
    /\ live' = live \ {t}
    /\ Become(t, "retired") /\ Unreserve(t)
    /\ held' = held \ {t} /\ Note(t, "none")
    /\ UNCHANGED <<workspace, readers, review, tries, ack, emergency, lock,
                   hand, booting, sent, effect, bounds>>

\* retire(): the runtime is confirmed gone, then the row and the reservation
\* are settled together, and when only the reply of that is lost the handle is
\* kept; or it fails, and the owner has to ask again.
RetireTerminal(t) ==
    /\ Idle("terminals") /\ state[t] = "retiring"
    /\ \/ /\ Unlocked
          /\ live' = live \ {t}
          /\ Become(t, "retired") /\ Unreserve(t)
          /\ \/ held' = held \ {t} /\ Note(t, "none") /\ UNCHANGED lost
             \/ Faulty /\ UNCHANGED <<held, note>>
       \/ /\ live' \in {live, live \ {t}}
          /\ Become(t, "uncertain")
          /\ UNCHANGED <<writer, held, note, lost>>
    /\ UNCHANGED <<workspace, readers, review, tries, ack, emergency, lock,
                   hand, booting, sent, effect, requests, crashes>>

\* (seeded fault) a terminal that was being started is closed at once.
BootClosing ==
    /\ "terminals" \in booting /\ "files" \notin booting
    /\ booting' = booting \ {"terminals"}
    /\ state' = [o \in Work |-> CASE o \notin Terminal -> state[o]
                                 [] state[o] = "dispatching" -> "failed"
                                 [] state[o] \in Running -> "retiring"
                                 [] OTHER -> state[o]]
    /\ UNCHANGED <<workspace, writer, readers, review, tries, ack, emergency,
                   lock, hand, held, note, outside, bounds>>

\* The first tick after a start: no live handle survived.
BootTerminals ==
    /\ "terminals" \in booting /\ "files" \notin booting
    /\ booting' = booting \ {"terminals"}
    /\ state' = [o \in Work |-> IF o \in Terminal /\ state[o] \in Running
                                THEN "retiring" ELSE state[o]]
    /\ UNCHANGED <<workspace, writer, readers, review, tries, ack, emergency,
                   lock, hand, held, note, outside, bounds>>

TerminalNext ==
    \/ \E t \in Terminal :
          \/ AcceptTerminal(t) \/ AdmitTerminal(t) \/ LoseTerminal(t)
          \/ RefuseTerminal(t) \/ StartShell(t) \/ ShellStarted(t)
          \/ FailTerminal(t) \/ ShellExited(t) \/ TerminateTerminal(t)
          \/ GiveUpTerminal(t) \/ RetireTerminal(t)
    \/ BootTerminals
=============================================================================
