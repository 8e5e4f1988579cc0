----------------------------- MODULE ServedOnce -----------------------------
(***************************************************************************)
(* What a ready pool promises its clients, with no listings, rows, calls   *)
(* or threads: a sandbox serves one claim. It is filled in or created by   *)
(* one client, is idle once at most, and is then taken by one client, for  *)
(* a turn or because it has expired; nobody else moves what a client       *)
(* holds, and what has been used never becomes idle again.                 *)
(***************************************************************************)
CONSTANTS Clients, Sandboxes

VARIABLES
    stage,      \* how far each sandbox is in its life
    holders     \* the clients that hold it

Held   == {"filling", "claimed", "pruned"}
Stages == Held \cup {"absent", "idle", "over"}

\* From one stage to another.
Moves ==
    {"absent"} \X {"filling", "claimed"}
        \cup {"filling"} \X {"idle", "over"}
        \cup {"idle"} \X {"claimed", "pruned", "over"}
        \cup {"claimed", "pruned"} \X {"over"}

Init ==
    /\ stage \in [Sandboxes -> {"absent", "idle"}]
    /\ holders = [s \in Sandboxes |-> {}]

\* Client c moves a sandbox that it holds or that nobody does.
Move(c, s) ==
    /\ <<stage[s], stage'[s]>> \in Moves
    /\ holders[s] \subseteq {c}
    /\ holders'[s] = IF stage'[s] \in Held THEN {c} ELSE {}

\* A client may move several at once: it claims one and gives up those it
\* pruned, or a crash takes all from its hands.
Step(c) ==
    \A s \in Sandboxes :
        \/ stage'[s] = stage[s] /\ holders'[s] = holders[s]
        \/ Move(c, s)

Next ==
    /\ stage' \in [Sandboxes -> Stages]
    /\ holders' \in [Sandboxes -> SUBSET Clients]
    /\ \E c \in Clients : Step(c)

Spec == Init /\ [][Next]_<<stage, holders>>
=============================================================================
