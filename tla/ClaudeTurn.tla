----------------------------- MODULE ClaudeTurn ------------------------------
(***************************************************************************)
(* One turn of the Claude Code harness (harness/claude_code.py, _run): the *)
(* loop over the CLI's message stream and the operator's control channel.  *)
(* A `result` message of the CLI is the end of the turn only when no       *)
(* background task is unfinished or unreported, no operator message may    *)
(* still be queued in the CLI, and it does not belong to the housekeeping  *)
(* of a resumed conversation; otherwise it is demoted and the stream stays *)
(* open under a deadline of its own.                                       *)
(*                                                                         *)
(* The CLI is external.  It assembles a model call at `init` and after     *)
(* each tool result, and puts in it whatever is queued then: the prompt    *)
(* (message 0), operator messages, and the ends of background tasks.  Each *)
(* call gives some output.  A window of the harness (3 to 20 s) runs out   *)
(* only when the CLI, which reacts in milliseconds, has nothing to do that *)
(* was asked of it before the window was opened.                           *)
(*                                                                         *)
(* Left out: messages that are only passed on, and what an OpenRouter turn *)
(* adds (the interrupt when its cap is reached, the subtypes that          *)
(* _final_result writes over the one that the loop decided on). What is    *)
(* said of a result's subtype is said of the loop's.                       *)
(***************************************************************************)
EXTENDS Integers, Sequences, FiniteSets

CONSTANTS Tasks,      \* background tasks the model may start
          MaxMsgs,    \* bound: operator messages
          MaxCalls,   \* bound: calls after a tool result
          Ops         \* the operations the operator uses

\* What the constants have to satisfy.
ClaudeTurnAssumption ==
  /\ MaxMsgs \in Nat /\ MaxCalls \in Nat /\ Ops \subseteq {"steer", "interrupt", "stop"}
  /\ Tasks \subseteq Nat \ (0..MaxMsgs)

Msgs == [id : 1..MaxMsgs, op : Ops]
Orphan == -1          \* a task of the conversation before this process
Note(kind, t) == [kind |-> kind, task |-> t]
Pending == Note("pending", 0)

VARIABLES
  pc,        \* "loop", "done" (result), "bare" (ended with none) or "raised"
  mode,      \* CLI: "idle", "call" (assembled), "spoke" (output given),
             \* "gone" (the stream is over)
  cutting,   \* CLI: an interrupt reached it and is not settled
  queued,    \* CLI: messages and ended tasks for the next call
  heard,     \* history: those a call carried
  begun,     \* CLI: calls after a tool result so far
  live,      \* CLI: background tasks that run
  chores,    \* CLI: a resumed conversation's task is to be reported first
  wire,      \* messages not read yet
  stask, ctask,   \* ControlledStream's two reads (see CodexTurn)
  inbox, sent,    \* the control channel; messages sent by the operator
  phase,     \* "active" or "between" invocations
  tasks,     \* _TaskTracker
  steers,    \* _SteerTracker
  resume,    \* resume_opening, orphaned_resume_task, awaiting_resume_prompt
  window,    \* the open deadlines: a subset of {"tasks", "steer", "resume"}
  waiting,   \* interrupt_pending: {} or {message}
  demoted,   \* the last demoted result: "none" or the kind of its note
  surfaced,  \* ids of the `user` events
  result,    \* {} or {what the turn ended on}
  taken,     \* history: control messages the loop read, in order
  unsure,    \* history: messages written with a boundary unread, or into an open window
  gaveUp     \* history: the wait for background tasks ran out

cli == <<mode, cutting, queued, heard, begun, live, chores>>
reads == <<stask, ctask>>
state == <<phase, tasks, steers, resume, window, waiting, demoted>>
ghosts == <<taken, unsure, gaveUp>>
vars == <<pc, cli, wire, reads, inbox, sent, state, surfaced, result, ghosts>>

Init ==
  /\ pc = "loop" /\ mode = "idle" /\ cutting = FALSE /\ queued = {0}
  /\ heard = {} /\ begun = 0 /\ live = {} /\ wire = <<>>
  /\ stask = Pending /\ ctask = {} /\ inbox = <<>> /\ sent = 0
  /\ phase = "active"
  /\ tasks = [pending |-> {}, undelivered |-> {}, staged |-> {}]
  /\ steers = [undelivered |-> {}, staged |-> {}]
  /\ chores \in BOOLEAN
  /\ \E resumed \in IF chores THEN {TRUE} ELSE BOOLEAN :
       resume = [opening |-> resumed, orphan |-> FALSE, awaiting |-> FALSE]
  /\ window = {} /\ waiting = {} /\ demoted = "none" /\ surfaced = <<>>
  /\ result = {} /\ taken = <<>> /\ unsure = {} /\ gaveUp = FALSE

----------------------------------------------------------------------------
(* The CLI and the operator (external).                                    *)

\* The process ends with the turn (client.disconnect).
Cli == pc = "loop" /\ UNCHANGED <<pc, reads, inbox, sent, state, surfaced, result, ghosts>>
Emit(kind, t) == wire' = Append(wire, Note(kind, t))

Carry == heard' = heard \union queued /\ queued' = {}

CliChores ==    \* a stopped task's notice and an empty result, before the prompt
  /\ chores /\ chores' = FALSE
  /\ wire' = wire \o <<Note("ended", Orphan), Note("init", 0), Note("empty", 0)>>
  /\ UNCHANGED <<mode, cutting, queued, heard, begun, live>> /\ Cli

CliInit ==      \* an invocation starts for what is queued
  /\ mode = "idle" /\ queued # {} /\ ~chores
  /\ mode' = "call" /\ Carry /\ Emit("init", 0)
  /\ UNCHANGED <<cutting, begun, live, chores>> /\ Cli

CliOutput ==
  /\ mode = "call" /\ mode' = "spoke" /\ Emit("output", 0)
  /\ UNCHANGED <<cutting, queued, heard, begun, live, chores>> /\ Cli

CliTool ==      \* a tool result: the next call is assembled
  /\ mode = "spoke" /\ ~cutting /\ begun < MaxCalls
  /\ mode' = "call" /\ begun' = begun + 1 /\ Carry /\ Emit("tool", 0)
  /\ UNCHANGED <<cutting, live, chores>> /\ Cli

CliResult ==    \* the invocation ends, well or in an error
  /\ mode = "spoke" /\ ~cutting /\ mode' = "idle"
  /\ \E kind \in {"result", "error"} : Emit(kind, 0)
  /\ UNCHANGED <<cutting, queued, heard, begun, live, chores>> /\ Cli

CliSettles ==   \* the answer to an interrupt (error_during_execution)
  /\ cutting /\ cutting' = FALSE /\ mode' = "idle" /\ Emit("settle", 0)
  /\ UNCHANGED <<queued, heard, begun, live, chores>> /\ Cli

CliStartsTask(t) ==
  /\ mode = "spoke" /\ t \notin live \union queued \union heard
  /\ live' = live \union {t} /\ Emit("started", t)
  /\ UNCHANGED <<mode, cutting, queued, heard, begun, chores>> /\ Cli

CliEndsTask(t) ==
  /\ t \in live /\ live' = live \ {t} /\ queued' = queued \union {t} /\ Emit("ended", t)
  /\ UNCHANGED <<mode, cutting, heard, begun, chores>> /\ Cli

CliGone ==      \* the stream ends, or the process fails
  /\ mode # "gone" /\ pc = "loop"
  /\ mode' = "gone" /\ cutting' = FALSE /\ live' = {} /\ chores' = FALSE
  /\ \E kind \in {"end", "crash"} : Emit(kind, 0)
  /\ UNCHANGED <<queued, heard, begun>> /\ Cli

OperatorSends ==
  /\ pc = "loop" /\ sent < MaxMsgs /\ sent' = sent + 1
  /\ \E op \in Ops : inbox' = Append(inbox, [id |-> sent + 1, op |-> op])
  /\ UNCHANGED <<pc, cli, wire, reads, state, surfaced, result, ghosts>>

StreamRead ==
  /\ pc = "loop" /\ stask = Pending /\ wire # <<>>
  /\ stask' = Head(wire) /\ wire' = Tail(wire)
  /\ UNCHANGED <<pc, cli, ctask, inbox, sent, state, surfaced, result, ghosts>>

ControlRead ==
  /\ pc = "loop" /\ ctask = {} /\ inbox # <<>>
  /\ ctask' = {Head(inbox)} /\ inbox' = Tail(inbox)
  /\ UNCHANGED <<pc, cli, wire, stask, sent, state, surfaced, result, ghosts>>

----------------------------------------------------------------------------
(* The two trackers.                                                       *)

\* _TaskTracker.observe: an ended task is undelivered, staged by the next tool
\* result, and delivered by the output after that, or by a new invocation.
Tracked(note) ==
  CASE note.kind = "tool" -> [tasks EXCEPT !.staged = @ \union tasks.undelivered,
                                           !.undelivered = {}]
    [] note.kind = "output" -> [tasks EXCEPT !.staged = {}]
    [] note.kind = "init" -> [tasks EXCEPT !.staged = {}, !.undelivered = {}]
    [] note.kind = "started" -> [tasks EXCEPT !.pending = @ \union {note.task}]
    [] note.kind = "ended" /\ note.task \in tasks.pending ->
         [tasks EXCEPT !.pending = @ \ {note.task}, !.undelivered = @ \union {note.task}]
    [] OTHER -> tasks

\* Mutation: output proves the delivery without a boundary before it.
SteeredByOutput(note) ==
  IF note.kind = "output" THEN [undelivered |-> {}, staged |-> {}] ELSE steers

\* _SteerTracker.observe: an init stages too, and only output clears.
Steered(note) ==
  CASE note.kind \in {"tool", "init"} ->
         [undelivered |-> {}, staged |-> steers.staged \union steers.undelivered]
    [] note.kind = "output" -> [steers EXCEPT !.staged = {}]
    [] OTHER -> steers

TasksWait == IF tasks.pending # {} THEN "pending"
             ELSE IF tasks.undelivered \union tasks.staged # {} THEN "undelivered" ELSE "no"
SteersWait == steers.undelivered \union steers.staged # {}

----------------------------------------------------------------------------
(* The loop.                                                               *)

TakesNote(kinds) == pc = "loop" /\ ctask = {} /\ stask.kind \in kinds
                    /\ stask' = Pending /\ UNCHANGED ctask
TakesControl(msg) == pc = "loop" /\ msg \in ctask /\ ctask' = {} /\ UNCHANGED stask
TimesOut == pc = "loop" /\ ctask = {} /\ stask = Pending

Finish(why) ==   \* checkpoint, then the result
  /\ pc' = "done" /\ result' = {why}

OfDemoted == [subtype |-> IF demoted \in {"result", "empty"} THEN "success" ELSE "error",
              from |-> demoted, own |-> TRUE]

\* deliver(): the message goes to the CLI, and its `user` event out.
Deliver(msg) ==
  /\ queued' = queued \union {msg.id} /\ surfaced' = Append(surfaced, msg.id)
  /\ steers' = [steers EXCEPT !.undelivered = @ \union {msg.id}]
  /\ phase' = "active"
  /\ unsure' = IF \/ "steer" \in window'
                  \/ \E n \in {wire[i] : i \in DOMAIN wire} \union {stask'} :
                       n.kind \in {"tool", "init", "error", "settle"}
               THEN unsure \union {msg.id} ELSE unsure
  /\ UNCHANGED <<mode, cutting, heard, begun, live, chores>>

TakeSteer(msg) ==
  /\ TakesControl(msg) /\ msg.op = "steer" /\ taken' = Append(taken, msg)
  /\ UNCHANGED window /\ Deliver(msg)
  /\ UNCHANGED <<pc, wire, inbox, sent, tasks, resume, waiting, demoted, result, gaveUp>>

\* Interrupt or stop while the CLI runs the model: ask it, wait to settle.
TakeInterrupt(msg) ==
  /\ TakesControl(msg) /\ msg.op # "steer" /\ taken' = Append(taken, msg)
  /\ phase = "active" \/ demoted = "none"
  /\ cutting' \in {cutting, cutting \/ mode \in {"call", "spoke"}}     \* the call may fail
  /\ waiting' = {msg}
  /\ UNCHANGED <<pc, mode, queued, heard, begun, live, chores, wire, inbox, sent, phase,
                 tasks, steers, resume, window, demoted, surfaced, result, unsure, gaveUp>>

\* Between invocations there is nothing to interrupt: act now.
TakeInterruptBetween(msg) ==
  /\ TakesControl(msg) /\ msg.op # "steer" /\ taken' = Append(taken, msg)
  /\ phase = "between" /\ demoted # "none"
  /\ IF msg.op = "stop"
     THEN /\ Finish([subtype |-> "interrupted", from |-> demoted, own |-> TRUE])
          /\ UNCHANGED <<cli, phase, steers, window, surfaced, unsure>>
     ELSE /\ window' = window \ {"steer"} /\ Deliver(msg)
          /\ UNCHANGED <<pc, result>>
  /\ UNCHANGED <<wire, inbox, sent, tasks, resume, waiting, demoted, gaveUp>>

\* Messages of the CLI that are not results.
TakeEvent ==
  /\ TakesNote({"init", "output", "tool", "started", "ended"})
  /\ tasks' = Tracked(stask) /\ steers' = Steered(stask)
  /\ resume' = IF stask.kind = "output"
               THEN [resume EXCEPT !.opening = FALSE, !.awaiting = FALSE]
               ELSE [resume EXCEPT !.orphan = @ \/ (/\ stask.kind = "ended" /\ resume.opening
                                                    /\ stask.task \notin tasks.pending)]
  /\ CASE stask.kind = "init" -> phase' = "active" /\ window' = {}
       [] stask.kind = "output" -> window' = window \ {"resume"} /\ UNCHANGED phase
       [] OTHER -> UNCHANGED <<phase, window>>
  /\ UNCHANGED <<pc, cli, wire, inbox, sent, waiting, demoted, surfaced, result, ghosts>>

Results == {"result", "error", "settle", "empty"}

\* A result while an interrupt waits: its answer, whatever result it is.
TakeSettle ==
  /\ waiting # {} /\ TakesNote(Results)
  /\ waiting' = {}
  /\ \E msg \in waiting :
       IF msg.op = "stop"
       THEN /\ Finish([subtype |-> "interrupted", from |-> stask.kind, own |-> FALSE])
            /\ UNCHANGED <<cli, phase, steers, demoted, surfaced, unsure, window>>
       ELSE /\ demoted' = stask.kind /\ UNCHANGED window /\ Deliver(msg)
            /\ UNCHANGED <<pc, result>>
  /\ UNCHANGED <<wire, inbox, sent, tasks, resume, taken, gaveUp>>

Housekeeping == stask.kind = "empty" /\ resume.opening /\ resume.orphan

\* The empty result of a resumed conversation's chores: keep reading.
TakeHousekeeping ==
  /\ waiting = {} /\ Housekeeping /\ TakesNote({"empty"})
  /\ resume' = [resume EXCEPT !.awaiting = TRUE]
  /\ phase' = "between" /\ window' = window \union {"resume"}
  /\ UNCHANGED <<pc, cli, wire, inbox, sent, tasks, steers, waiting, demoted,
                 surfaced, result, ghosts>>

Demote(w) ==
  /\ demoted' = stask.kind /\ phase' = "between" /\ window' = w
  /\ UNCHANGED <<pc, result>>

\* Any other result: the end of the turn, unless work is left for the CLI.
TakeResult ==
  /\ waiting = {} /\ ~Housekeeping /\ TakesNote(Results)
  /\ resume' = [resume EXCEPT !.opening = FALSE, !.awaiting = FALSE]
  /\ LET reason == IF stask.kind \in {"error", "settle"} THEN "no" ELSE TasksWait
         open == window \ {"resume"}
     IN  CASE reason # "no" -> Demote((open \ {"tasks"}) \union
                                      IF reason = "pending" THEN {"tasks"} ELSE {})
           [] reason = "no" /\ SteersWait -> Demote(open \union {"steer"})
           [] OTHER -> /\ Finish([subtype |-> IF stask.kind \in {"error", "settle"} THEN "error"
                                              ELSE "success",
                                  from |-> stask.kind, own |-> TRUE])
                       /\ window' = open /\ UNCHANGED <<phase, demoted>>
  /\ UNCHANGED <<cli, wire, inbox, sent, tasks, steers, waiting, surfaced, ghosts>>

\* Mutation: background tasks are waited for without a deadline.
WhyNoTasks == CASE waiting # {} -> "interrupt"
                [] waiting = {} /\ "resume" \in window -> "resume"
                [] waiting = {} /\ "resume" \notin window /\ "steer" \in window -> "steer"
                [] OTHER -> "none"

\* Which deadline next() is given, in the order the loop looks at them.
Why == CASE waiting # {} -> "interrupt"
         [] waiting = {} /\ "resume" \in window -> "resume"
         [] waiting = {} /\ "resume" \notin window /\ "steer" \in window -> "steer"
         [] waiting = {} /\ window \cap {"resume", "steer"} = {}
              /\ (demoted = "none" \/ phase = "active") -> "none"
         [] OTHER -> "tasks"

\* The CLI has no call to make for what was written before a window opened.
Quiet == wire = <<>> /\ ~cutting /\ (mode \in {"idle", "gone"} => queued \subseteq unsure)

InterruptTimeout ==
  /\ TimesOut /\ Why = "interrupt" /\ wire = <<>> /\ ~cutting
  /\ UNCHANGED reads /\ waiting' = {}
  /\ \E msg \in waiting :
       IF msg.op = "stop"
       THEN /\ Finish([subtype |-> "interrupted",
                       from |-> IF demoted = "none" THEN "made up" ELSE demoted, own |-> TRUE])
            /\ UNCHANGED <<cli, phase, steers, surfaced, unsure, window>>
       ELSE /\ UNCHANGED window /\ Deliver(msg) /\ UNCHANGED <<pc, result>>
  /\ UNCHANGED <<wire, inbox, sent, tasks, resume, demoted, taken, gaveUp>>

SteerTimeout ==
  /\ TimesOut /\ Why = "steer" /\ Quiet
  /\ Finish(OfDemoted)
  /\ window' = window \ {"steer"} /\ steers' = [undelivered |-> {}, staged |-> {}]
  /\ UNCHANGED <<cli, wire, reads, inbox, sent, phase, tasks, resume, waiting,
                 demoted, surfaced, ghosts>>

ResumeTimeout ==
  /\ TimesOut /\ Why = "resume" /\ wire = <<>>
  /\ Finish([subtype |-> "unanswered", from |-> "made up", own |-> TRUE])
  /\ UNCHANGED <<cli, wire, reads, inbox, sent, state, surfaced, ghosts>>

TaskTimeout ==     \* background_task_timeout, or no re-invocation in the grace
  /\ TimesOut /\ Why = "tasks" /\ Quiet
  /\ gaveUp' = TRUE /\ Finish(OfDemoted)
  /\ UNCHANGED <<cli, wire, reads, inbox, sent, state, surfaced, taken, unsure>>

\* The stream ended or the process failed: what was produced stands.
TakeGone ==
  /\ TakesNote({"end", "crash"})
  /\ CASE resume.awaiting -> Finish([subtype |-> "unanswered", from |-> "made up", own |-> TRUE])
       [] ~resume.awaiting /\ demoted # "none" -> Finish(OfDemoted)
       [] OTHER -> /\ pc' = IF stask.kind = "crash" THEN "raised" ELSE "bare"
                   /\ UNCHANGED result
  /\ UNCHANGED <<cli, wire, inbox, sent, state, surfaced, ghosts>>

Harness == \/ StreamRead \/ ControlRead
           \/ \E msg \in ctask : TakeSteer(msg) \/ TakeInterrupt(msg) \/ TakeInterruptBetween(msg)
           \/ TakeEvent \/ TakeSettle \/ TakeHousekeeping \/ TakeResult
           \/ InterruptTimeout \/ SteerTimeout \/ ResumeTimeout \/ TaskTimeout \/ TakeGone

CliWorks == CliChores \/ CliInit \/ CliOutput \/ CliResult \/ CliSettles

Next == \/ CliWorks \/ CliTool \/ CliGone \/ OperatorSends \/ Harness
        \/ \E t \in Tasks : CliStartsTask(t) \/ CliEndsTask(t)

\* The loop runs, and the CLI makes the calls it was asked for.  Background
\* tasks need not end.
Fairness == WF_vars(Harness) /\ WF_vars(CliWorks)

Spec == Init /\ [][Next]_vars

FairSpec == Spec /\ Fairness

----------------------------------------------------------------------------
(* What the turn promises.                                                 *)

Uncut == \A i \in DOMAIN taken : taken[i].op = "steer"
Stopped == \E i \in DOMAIN taken :
  taken[i].op = "stop" /\ \A j \in DOMAIN taken : j > i => taken[j].op = "steer"
Delivered == {surfaced[i] : i \in DOMAIN surfaced}

\* Every variable has its type, and the trackers hold what they track.
TypeOK ==
  /\ pc \in {"loop", "done", "bare", "raised"} /\ (pc = "done" <=> result # {})
  /\ mode \in {"idle", "call", "spoke", "gone"} /\ live \subseteq Tasks
  /\ queued \union heard \subseteq Tasks \union 0..MaxMsgs
  /\ inbox \in Seq(Msgs) /\ ctask \subseteq Msgs /\ waiting \subseteq Msgs
  /\ phase \in {"active", "between"} /\ window \subseteq {"tasks", "steer", "resume"}
  /\ tasks.pending \union tasks.undelivered \union tasks.staged \subseteq Tasks
  /\ steers.undelivered \union steers.staged \subseteq Delivered
  /\ demoted \in {"none"} \union Results

\* A turn that ends as a success, and that no operator interrupted, answered
\* its prompt: the empty result of a resumed conversation's chores is never
\* taken for the answer, also when the CLI dies.
PromptIsAnswered ==
  \A r \in result : r.subtype = "success" /\ Uncut => 0 \in heard

\* Unless the wait for them ran out, the CLI died, or a message was taken for
\* delivered too early (see MessagesAreHeard), a successful turn leaves no
\* background task running and none whose end the model was not told.
TasksAreAwaited ==
  \A r \in result : r.subtype = "success" /\ ~gaveUp /\ unsure = {} /\ mode # "gone" =>
    live = {} /\ queued \cap Tasks = {}

\* A successful turn does not end on an operator message the CLI has not given
\* to the model, unless the message was written while a boundary was on its
\* way to the loop, or into a window that was already open.
MessagesAreHeard ==
  \A r \in result : r.subtype = "success" /\ mode # "gone" =>
    Delivered \subseteq heard \union unsure

\* The model gets an operator's message at most once, and a turn ends as
\* interrupted exactly when a stop was the last thing the operator asked for,
\* whichever of the CLI's answers and windows came first. (The loop decides so:
\* on OpenRouter _final_result may still turn it into a spent budget.)
StopDecides ==
  /\ \A i, j \in DOMAIN surfaced : surfaced[i] = surfaced[j] => i = j
  /\ \A r \in result : mode # "gone" => (r.subtype = "interrupted" <=> Stopped)

\* The turn ends, also when background tasks never do.
TurnEnds == []<>(pc # "loop")

----------------------------------------------------------------------------
(* What the documentation says and the code does not do.                   *)

\* "that event is the acknowledgement that the model has the message".
UserEventMeansHeard ==
  \A r \in result : r.subtype = "success" /\ mode # "gone" => Delivered \subseteq heard

\* "This empty result is NEVER a crash/timeout fallback".
ChoresAreNoFallback == \A r \in result : r.subtype = "success" => r.from # "empty"
=============================================================================
