------------------------ MODULE ConversationWriters ------------------------
(***************************************************************************)
(* A conversation of the managed profile as a writer of its workspace: its *)
(* turn claims the workspace, the retirement of its runtime gives it back, *)
(* unless the turn ended in doubt; then the owner releases it, or recovers *)
(* the conversation and continues it.  The turn itself is the subject of   *)
(* ConversationRuntimes.                                                   *)
(***************************************************************************)
EXTENDS Reservations

\* POST /sessions/:id/turns
RequestTurn(c) ==
    /\ Unlocked /\ Requested
    /\ state[c] \in {"idle", "succeeded", "failed"} /\ Usable(c) /\ ~emergency
    /\ Become(c, "queued")
    /\ UNCHANGED <<workspace, writer, readers, review, tries, ack, emergency,
                   lock, memory, outside, crashes, lost>>

\* claimWorkspace(): FALSE leaves the turn queued.  In this profile a runtime is
\* not continued: what it holds is in the way even of its own conversation.
Claimable(c) ==
    /\ Idle("conversations") /\ Unlocked
    /\ state[c] = "queued" /\ c \notin held /\ ~emergency
    /\ Usable(c) /\ Free(c) /\ ~GitPending /\ ~StoragePending

\* A new claim carries a new generation: a release asked for the former one is
\* outdated.
Outdate(c) == review' = [review EXCEPT ![c] = IF @ = "queued" THEN "outdated" ELSE @]

ClaimWorkspace(c) ==
    /\ Claimable(c)
    /\ Become(c, "dispatching") /\ Reserve(c) /\ Note(c, "none")
    /\ Outdate(c)
    /\ UNCHANGED <<workspace, readers, tries, ack, emergency, lock,
                   hand, held, booting, outside, bounds>>

\* The transaction fails, or its reply is lost; the catch clause reads the row.
\* An unusable workspace makes it throw too.
LoseClaim(c) ==
    /\ Idle("conversations") /\ state[c] = "queued" /\ c \notin held /\ ~emergency
    /\ \/ Claimable(c) /\ Faulty /\ Become(c, "uncertain") /\ Reserve(c) /\ Outdate(c)
       \/ Claimable(c) /\ Faulty /\ Become(c, "failed") /\ UNCHANGED <<writer, review>>
       \/ ~Usable(c) /\ Become(c, "failed") /\ UNCHANGED <<writer, review, lost>>
    /\ UNCHANGED <<workspace, readers, tries, ack, emergency, lock,
                   memory, outside, requests, crashes>>

\* createRuntime(): from here on a process may write in the folder.
StartRuntime(c) ==
    /\ "conversations" \notin booting
    /\ state[c] = "dispatching" /\ c \notin held /\ ~emergency
    /\ Dispatch(c) /\ held' = held \cup {c}
    /\ UNCHANGED <<database, hand, note, booting, bounds>>

\* The turn succeeds, or its outcome is left open.
EndTurn(c) ==
    /\ "conversations" \notin booting /\ state[c] = "dispatching"
    /\ \/ c \in held \cap live /\ Become(c, "succeeded")
       \/ Become(c, "uncertain")
    /\ UNCHANGED <<workspace, writer, readers, review, tries, ack, emergency,
                   lock, memory, outside, bounds>>

\* retireSessionRuntime(): confirmed, or the conversation stays reserved.
RetireRuntime(c) ==
    /\ c \in held /\ state[c] # "dispatching"
    /\ held' = held \ {c}
    /\ \/ live' = live \ {c} /\ Note(c, "release")
       \/ live' \in {live, live \ {c}} /\ UNCHANGED note
    /\ UNCHANGED <<database, hand, booting, sent, effect, bounds>>

\* releaseWorkspace(), a transaction after the retirement.
ReleaseWorkspace(c) ==
    /\ note[c] = "release" /\ Unlocked
    /\ IF state[c] \in {"dispatching", "uncertain"} THEN UNCHANGED writer ELSE Unreserve(c)
    /\ Note(c, "none")
    /\ UNCHANGED <<workspace, readers, state, review, tries, ack, emergency,
                   lock, hand, held, booting, outside, bounds>>

\* That transaction fails: the workspace stays reserved.
LoseRelease(c) ==
    /\ note[c] = "release" /\ Faulty
    /\ Note(c, "none")
    /\ UNCHANGED <<database, hand, held, booting, outside, requests, crashes>>

\* processRecovery() of a conversation in doubt: the project's row is held until
\* the runtime is gone and the reservation given back.  Then it is ready.
RecoverSession(c) ==
    /\ Idle("conversations") /\ Unlocked
    /\ Usable(c) /\ ~StoragePending /\ writer[Home[c]] \in {c, Nobody}
    /\ state[c] = "uncertain" /\ c \notin ack
    /\ held' = held \ {c}
    /\ \/ live' = live \ {c} /\ Unreserve(c) /\ ack' = ack \cup {c}
       \/ live' \in {live, live \ {c}} /\ UNCHANGED <<writer, ack>>
    /\ UNCHANGED <<workspace, readers, state, review, tries, emergency, lock,
                   hand, note, booting, sent, effect, bounds>>

\* POST /sessions/:id/recovery/continue: the uncertain turn is acknowledged and
\* another one accepted, in one transaction.
ContinueSession(c) ==
    /\ Unlocked /\ Requested /\ Usable(c) /\ ~emergency
    /\ state[c] = "uncertain" /\ c \in ack
    /\ Become(c, "queued") /\ ack' = ack \ {c}
    /\ UNCHANGED <<workspace, writer, readers, review, tries, emergency, lock,
                   memory, outside, crashes, lost>>

\* POST /workspaces/:id/release
RequestRelease(c) ==
    /\ Unlocked
    /\ writer[Home[c]] = c /\ state[c] # "dispatching"
    /\ \A d \in Conversation :
          Home[d] = Home[c] => review[d] \notin {"queued", "outdated"}
    /\ review' = [review EXCEPT ![c] = "queued"]
    /\ UNCHANGED <<workspace, writer, readers, state, tries, ack, emergency,
                   lock, memory, outside, bounds>>

\* processWorkspaceReleases(): the project's row is held through the retirement.
Releasable(c) == /\ review[c] = "queued"
                 /\ writer[Home[c]] = c /\ state[c] # "dispatching"

ProcessRelease(c) ==
    /\ Idle("conversations") /\ Unlocked /\ review[c] \in {"queued", "outdated"}
    /\ \/ /\ Releasable(c)
          /\ live' = live \ {c} /\ held' = held \ {c}
          /\ Become(c, IF state[c] = "queued" THEN "failed" ELSE state[c])
          /\ Unreserve(c)
          /\ review' = [review EXCEPT ![c] = "completed"]
       \/ /\ \/ Releasable(c) /\ held' = held \ {c} /\ live' \in {live, live \ {c}}
             \/ UNCHANGED <<held, live>>
          /\ review' = [review EXCEPT ![c] = "failed"]
          /\ UNCHANGED <<state, writer>>
    /\ UNCHANGED <<workspace, readers, tries, ack, emergency, lock, hand, note,
                   booting, sent, effect, bounds>>

\* The start transaction: what was dispatched is never repeated.
BootConversations ==
    /\ "conversations" \in booting /\ "files" \in booting
    /\ booting' = booting \ {"conversations"}
    /\ state' = [o \in Work |->
                   IF o \in Conversation /\ state[o] = "dispatching"
                   THEN "uncertain" ELSE state[o]]
    /\ UNCHANGED <<workspace, writer, readers, review, tries, ack, emergency,
                   lock, hand, held, note, outside, bounds>>

ConversationNext ==
    \/ \E c \in Conversation :
          \/ RequestTurn(c) \/ ClaimWorkspace(c) \/ LoseClaim(c)
          \/ StartRuntime(c) \/ EndTurn(c) \/ RetireRuntime(c)
          \/ ReleaseWorkspace(c) \/ LoseRelease(c) \/ RecoverSession(c)
          \/ ContinueSession(c) \/ RequestRelease(c) \/ ProcessRelease(c)
    \/ BootConversations
=============================================================================
