--------------------------- MODULE WorkspaceLease ---------------------------
(***************************************************************************)
(* What the reservation of a workspace promises, whoever asks for it: a    *)
(* piece of work runs in a workspace only while it holds the workspace,    *)
(* and the workspace changes hands only when nothing of the former holder  *)
(* still runs.                                                             *)
(***************************************************************************)
CONSTANTS
    Worker,     \* the work that may write in a workspace
    Workspace,
    Place,      \* the workspace of a worker
    NoHolder

VARIABLES
    holder,     \* [Workspace -> Worker \cup {NoHolder}]
    running     \* the workers whose process may still write

Init == /\ holder = [w \in Workspace |-> NoHolder]
        /\ running = {}

Take(o) == /\ holder[Place[o]] = NoHolder
           /\ holder' = [holder EXCEPT ![Place[o]] = o]
           /\ UNCHANGED running

Start(o) == /\ holder[Place[o]] = o
            /\ running' = running \cup {o}
            /\ UNCHANGED holder

Stop(o) == /\ running' = running \ {o}
           /\ UNCHANGED holder

\* The holder gives the workspace back with, or after, the end of its process.
Give(o) == /\ holder[Place[o]] = o
           /\ holder' = [holder EXCEPT ![Place[o]] = NoHolder]
           /\ running' = running \ {o}

Next == \E o \in Worker : Take(o) \/ Start(o) \/ Stop(o) \/ Give(o)

Spec == Init /\ [][Next]_<<holder, running>>
=============================================================================
