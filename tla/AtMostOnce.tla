------------------------------ MODULE AtMostOnce ------------------------------
(***************************************************************************)
(* What a hand-over promises its caller, with no threads, calls or         *)
(* answers: a turn is started at most once, by one worker; a verdict is    *)
(* given once; a verdict that says the turn was not started is true, and   *)
(* stays true.                                                             *)
(***************************************************************************)
CONSTANTS Turns, Sandboxes, None

VARIABLES
    startedIn,  \* the sandbox whose worker started the turn
    verdict     \* what the hand-over told the run, "none" before it did

NotStarted == {"failed", "abandoned"}
Verdicts   == NotStarted \cup {"took", "uncertain"}

Init ==
    /\ startedIn = [t \in Turns |-> None]
    /\ verdict = [t \in Turns |-> "none"]

\* A worker starts the turn: at once, or after its caller has given up
\* asking, but never once the turn was reported as not started.
Start(t, s) ==
    /\ startedIn[t] = None
    /\ verdict[t] \notin NotStarted
    /\ startedIn' = [startedIn EXCEPT ![t] = s]
    /\ UNCHANGED verdict

\* The hand-over is settled. Only "uncertain" leaves open whether the turn
\* was started.
Settle(t, v) ==
    /\ verdict[t] = "none"
    /\ v = "took" => startedIn[t] # None
    /\ v \in NotStarted => startedIn[t] = None
    /\ verdict' = [verdict EXCEPT ![t] = v]
    /\ UNCHANGED startedIn

Next ==
    \/ \E t \in Turns, s \in Sandboxes : Start(t, s)
    \/ \E t \in Turns, v \in Verdicts : Settle(t, v)

Spec == Init /\ [][Next]_<<startedIn, verdict>>
=============================================================================
