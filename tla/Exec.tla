-------------------------------- MODULE Exec --------------------------------
(***************************************************************************)
(* exec(): a shell command in the workspace of the running turn (backend.py *)
(* exec, _exec_now; worker.py exec, _exec; control.py run_shell).  One call *)
(* crosses the session's turns as they start, end and give their sandboxes  *)
(* up; on the worker a shell, and a process it may leave behind, against    *)
(* the timeout.  The platform's proxy may cut a call.                       *)
(***************************************************************************)
EXTENDS Integers

CONSTANTS MaxTurns,    \* bound
          Children     \* what a command may leave behind: "none"; in its process "group", or in
                       \* a "session" of its own, with its output still on the pipes; or "quiet"

\* What the constants have to satisfy.
ExecAssumption == MaxTurns \in Nat /\ Children \subseteq {"none", "group", "session", "quiet"}

VARIABLES
  cur, done,   \* the session's turns: the last one started, and those whose run is over
  sandbox,     \* _sandbox: whose it is, 0 for None
  worker,      \* of each turn: "none", "running", "done" or "gone", with its sandbox
  pc,          \* of the call: "idle", "waiting", "thread", "half", "posted", "answered" or "raised"
  asked,       \* the turn that ran when exec() was called
  target, id,  \* _exec_now's reads: the sandbox, then the turn
  phase,       \* run_shell: "off", "reading", "draining" or "ended"
  within,      \* the turn in whose workspace it runs
  shell,       \* "off", "up", "exited" or "killed"
  child,       \* what the command left: the kind while it lives, "none", or "killed"
  due,         \* the timeout has passed
  rc           \* -1 before there is an answer

session == <<cur, done, sandbox, worker>>
client == <<pc, asked, target, id>>
command == <<phase, within, shell, child, due, rc>>
vars == <<session, client, command>>

Turns == 1..MaxTurns

Init ==
  /\ cur = 0 /\ done = {} /\ sandbox = 0 /\ worker = [t \in Turns |-> "none"]
  /\ pc = "idle" /\ asked = 0 /\ target = 0 /\ id = 0
  /\ phase = "off" /\ within = 0 /\ shell = "off" /\ child = "none" /\ due = FALSE /\ rc = -1

\* --- the session ---

Run ==
  /\ cur < MaxTurns /\ (cur # 0 => cur \in done)
  /\ cur' = cur + 1 /\ sandbox' = 0
  /\ UNCHANGED <<done, worker, client, command>>

Dispatched ==
  /\ cur # 0 /\ cur \notin done /\ worker[cur] = "none"
  /\ worker' = [worker EXCEPT ![cur] = "running"]
  /\ sandbox' = cur
  /\ UNCHANGED <<cur, done, client, command>>

WorkerEnds(t) ==
  /\ worker[t] = "running" /\ worker' = [worker EXCEPT ![t] = "done"]
  /\ UNCHANGED <<cur, done, sandbox, client, command>>

\* _on_complete: the result, a cancelled or failed dispatch, a run given up.
RunEnds ==
  /\ cur # 0 /\ cur \notin done
  /\ done' = done \cup {cur} /\ sandbox' = 0
  /\ UNCHANGED <<cur, worker, client, command>>

\* The background release, and everything that runs in the sandbox with it.
SandboxGoes(t) ==
  /\ t \in done /\ worker[t] \in {"running", "done"}
  /\ worker' = [worker EXCEPT ![t] = "gone"]
  /\ IF within = t /\ phase \in {"reading", "draining"}
     THEN phase' = "off" /\ shell' = "off" /\ child' = "none"
     ELSE UNCHANGED <<phase, shell, child>>
  /\ UNCHANGED <<cur, done, sandbox, client, within, due, rc>>

\* --- exec() in the client ---

Call ==
  /\ pc = "idle" /\ cur # 0
  /\ pc' = "waiting" /\ asked' = cur
  /\ UNCHANGED <<session, target, id, command>>

\* The loop that waits for the dispatch, then asyncio.to_thread.
StopsWaiting ==
  /\ pc = "waiting" /\ (sandbox # 0 \/ asked \in done)
  /\ pc' = "thread"
  /\ UNCHANGED <<session, asked, target, id, command>>

ReadsSandbox ==
  /\ pc = "thread" /\ target' = sandbox /\ pc' = "half"
  /\ UNCHANGED <<session, asked, id, command>>

ReadsTurn ==
  /\ pc = "half" /\ id' = cur
  /\ pc' = IF target = 0 THEN "raised" ELSE "posted"
  /\ UNCHANGED <<session, asked, target, command>>

\* --- /exec in the worker ---

NamesAny(t) == TRUE

\* turn_id is the turn this worker runs.
Names(t) == id = t

WorkerTakes ==
  /\ pc = "posted" /\ phase = "off" /\ within = 0
  /\ worker[target] = "running" /\ Names(target)
  /\ phase' = "reading" /\ within' = target /\ shell' = "up"
  /\ \E c \in Children : child' = c
  /\ UNCHANGED <<session, client, due, rc>>

\* Gone, over, or running another turn; or the command went with the sandbox.
WorkerRefuses ==
  /\ pc = "posted" /\ phase = "off"
  /\ worker[target] # "running" \/ ~Names(target) \/ within # 0
  /\ pc' = "raised"
  /\ UNCHANGED <<session, asked, target, id, command>>

ShellExits ==
  /\ phase = "reading" /\ shell = "up" /\ shell' = "exited"
  /\ UNCHANGED <<session, client, phase, within, child, due, rc>>

ChildExits ==
  /\ phase \in {"reading", "draining"} /\ shell # "up" /\ child \in {"group", "session", "quiet"}
  /\ child' = "none"
  /\ UNCHANGED <<session, client, phase, within, shell, due, rc>>

TimePasses ==
  /\ phase = "reading" /\ ~due /\ due' = TRUE
  /\ UNCHANGED <<session, client, phase, within, shell, child, rc>>

PipesClosed == shell # "up" /\ child \notin {"group", "session"}

\* communicate(timeout): the end of both pipes, and the shell's.
Communicated ==
  /\ phase = "reading" /\ PipesClosed
  /\ phase' = "ended" /\ rc' = 0
  /\ UNCHANGED <<session, client, within, shell, child, due>>

KillGroupOfShell ==
  /\ phase = "reading" /\ due /\ shell = "up"
  /\ shell' = "killed"
  /\ child' = IF child \in {"group", "quiet"} THEN "killed" ELSE child
  /\ phase' = "draining"
  /\ UNCHANGED <<session, client, within, due, rc>>

\* killpg at the timeout ...
KillGroup ==
  /\ phase = "reading" /\ due /\ ~PipesClosed
  /\ shell' = IF shell = "up" THEN "killed" ELSE shell
  /\ child' = IF child \in {"group", "quiet"} THEN "killed" ELSE child
  /\ phase' = "draining"
  /\ UNCHANGED <<session, client, within, due, rc>>

\* ... and a communicate() without one.
Drained ==
  /\ phase = "draining" /\ PipesClosed
  /\ phase' = "ended" /\ rc' = 124
  /\ UNCHANGED <<session, client, within, shell, child, due>>

Answered ==
  /\ pc = "posted" /\ phase = "ended" /\ pc' = "answered"
  /\ UNCHANGED <<session, asked, target, id, command>>

\* The proxy fails, or cuts the call EXEC_CALL_MARGIN_S after the timeout.
CallCut ==
  /\ pc = "posted" /\ pc' = "raised"
  /\ UNCHANGED <<session, asked, target, id, command>>

Next ==
  \/ Run \/ Dispatched \/ RunEnds
  \/ \E t \in Turns : WorkerEnds(t) \/ SandboxGoes(t)
  \/ Call \/ StopsWaiting \/ ReadsSandbox \/ ReadsTurn \/ Answered \/ CallCut
  \/ WorkerTakes \/ WorkerRefuses \/ ShellExits \/ ChildExits \/ TimePasses
  \/ Communicated \/ KillGroup \/ Drained

Spec == Init /\ [][Next]_vars

\* The event loop, its threads, the worker's and the clock go on, and a dispatch ends one way
\* or the other.  A command owes nothing: neither the shell nor what it leaves need ever exit.
Fairness ==
  /\ WF_vars(Dispatched \/ (sandbox = 0 /\ RunEnds))
  /\ WF_vars(StopsWaiting) /\ WF_vars(ReadsSandbox) /\ WF_vars(ReadsTurn)
  /\ WF_vars(WorkerTakes) /\ WF_vars(WorkerRefuses) /\ WF_vars(Answered)
  /\ WF_vars(TimePasses) /\ WF_vars(Communicated) /\ WF_vars(KillGroup) /\ WF_vars(Drained)

LiveSpec == Spec /\ Fairness

(***************************************************************************)
(* Properties                                                              *)
(***************************************************************************)

TypeOK ==
  /\ cur \in 0..MaxTurns /\ done \subseteq 1..cur /\ sandbox \in {0, cur}
  /\ asked \in 0..cur /\ target \in 0..cur /\ id \in 0..cur /\ within \in {0, target}
  /\ (rc # -1) = (phase = "ended") /\ (phase = "draining" => due)

\* A command runs in the workspace of the turn the client named, though the client reads the
\* sandbox and the turn's id one after the other while its session moves on.
RunsWhereNamed == within # 0 => within = id

\* A command that never leaves its process group is over at its timeout, with all it started.
NothingLeftAtTheTimeout == rc = 124 => shell # "up" /\ child \in {"none", "killed"}

\* The worker's thread is free again once the timeout has passed.
TimeoutFreesTheWorker == (phase = "reading" /\ due) ~> (phase \in {"ended", "off"})

\* exec() returns or raises, whatever the command and the session do.
ExecReturns == (pc = "waiting") ~> (pc \in {"answered", "raised"})

\* exec() answers from the turn that ran when it was called; once that turn is over it raises.
AnswersFromItsTurn == pc = "answered" => within = asked
=============================================================================
