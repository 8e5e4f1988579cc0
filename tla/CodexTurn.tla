------------------------------ MODULE CodexTurn ------------------------------
(***************************************************************************)
(* One run of the Codex harness (src/harness_run/harness/codex.py, _run):  *)
(* a loop that reads the notifications of the Codex app-server and the     *)
(* operator's control channel together (ControlledStream of control.py),   *)
(* counts model calls against the two caps, interrupts the Codex turn at a *)
(* cap or for the operator, and continues on a new Codex turn of the same  *)
(* thread when the operator's interrupt carried a message.                 *)
(*                                                                         *)
(* The app-server is external: it makes model calls, sends the messages of *)
(* the model, ends its turn (by itself or some time after an interrupt),   *)
(* or dies.  A control message is [id, op]; its text is left out, and so   *)
(* are the tool notifications, which the loop only passes on.  One model   *)
(* call costs one unit.  A turn that cannot be started ends the run with   *)
(* the exception; that is left out.                                        *)
(***************************************************************************)
EXTENDS Integers, Sequences, FiniteSets

CONSTANTS MaxTurns,    \* spec.max_turns: model calls
          MaxBudget,   \* spec.max_budget_usd, in calls
          MaxMsgs,     \* bound: control messages the operator sends
          MaxCalls,    \* bound: model calls of the run
          MaxTexts     \* bound: messages of the model in the run

\* What the constants have to satisfy.
CodexTurnAssumption ==
  /\ MaxTurns \in Nat \ {0} /\ MaxBudget \in Nat \ {0}
  /\ MaxMsgs \in Nat /\ MaxCalls \in Nat /\ MaxTexts \in Nat

Ops == {"steer", "interrupt", "stop"}
Msgs == [id : 1..MaxMsgs, op : Ops]
Pending == "pending"      \* a read that has returned nothing yet

VARIABLES
  pc,         \* "start", "loop", "done" (result yielded) or "raised"
  priced,     \* the model has a known price: the budget can be enforced
  handle,     \* number of Codex turns started on the thread
  serving,    \* app-server: "idle", "running", "asked" (interrupted), "over"
  wire,       \* notifications of the current handle not read yet
  stask,      \* ControlledStream._stream_task: Pending or what it returned
  ctask,      \* ControlledStream._control_task: {} or {the message it returned}
  inbox,      \* the control channel
  sent,       \* control messages sent by the operator
  waiting,    \* interrupt_pending: {} or {message}
  limit,      \* the cap that tripped, or "none"
  calls,      \* acct.model_calls
  final,      \* translator: [n |-> number of the text kept, isFinal |-> phase]
  surfaced,   \* `user` events yielded, as message ids, in order
  refused,    \* ids of the steers reported as steer_failed
  result,     \* {} or {subtype of the terminal result}
  made,       \* history: model calls the app-server made in this run
  texts,      \* history: phases of the texts read by the loop, in order
  taken,      \* history: control messages the loop read, in order
  expired     \* history: a settle window ran out

server == <<handle, serving, wire>>
select == <<stask, ctask>>
output == <<surfaced, refused, result>>
history == <<made, texts, taken, expired>>
vars == <<pc, priced, server, select, inbox, sent, waiting, limit, calls,
          final, output, history>>

Init ==
  /\ pc = "start" /\ priced \in BOOLEAN
  /\ handle = 0 /\ serving = "idle" /\ wire = <<>>
  /\ stask = Pending /\ ctask = {}
  /\ inbox = <<>> /\ sent = 0
  /\ waiting = {} /\ limit = "none" /\ calls = 0
  /\ final = [n |-> 0, isFinal |-> FALSE]
  /\ surfaced = <<>> /\ refused = {} /\ result = {}
  /\ made = 0 /\ texts = <<>> /\ taken = <<>> /\ expired = FALSE

----------------------------------------------------------------------------
(* The app-server (external) and the operator.                             *)

Calls ==   \* a model call, reported by thread/tokenUsage/updated
  /\ serving \in {"running", "asked"} /\ made < MaxCalls
  /\ made' = made + 1 /\ wire' = Append(wire, "usage")
  /\ UNCHANGED <<pc, priced, handle, serving, select, inbox, sent, waiting,
                 limit, calls, final, output, texts, taken, expired>>

Speaks ==  \* an agentMessage item, of the final phase or not
  /\ serving = "running"
  /\ Len(texts) + Cardinality({i \in DOMAIN wire : wire[i] \in {"plain", "answer"}}) < MaxTexts
  /\ stask \notin {"plain", "answer"}
  /\ \E phase \in {"plain", "answer"} : wire' = Append(wire, phase)
  /\ UNCHANGED <<pc, priced, handle, serving, select, inbox, sent, waiting,
                 limit, calls, final, output, history>>

Completes ==   \* turn/completed: by itself, or answering an interrupt
  /\ \/ serving = "running" /\ \E s \in {"completed", "failed"} : wire' = Append(wire, s)
     \/ serving = "asked" /\ wire' = Append(wire, "interrupted")
  /\ serving' = "over"
  /\ UNCHANGED <<pc, priced, handle, select, inbox, sent, waiting, limit,
                 calls, final, output, history>>

Dies ==        \* the stream ends with no turn/completed
  /\ serving \in {"running", "asked"}
  /\ wire' = Append(wire, "end") /\ serving' = "over"
  /\ UNCHANGED <<pc, priced, handle, select, inbox, sent, waiting, limit,
                 calls, final, output, history>>

OperatorSends ==
  /\ sent < MaxMsgs /\ sent' = sent + 1
  /\ \E op \in Ops : inbox' = Append(inbox, [id |-> sent + 1, op |-> op])
  /\ UNCHANGED <<pc, priced, server, select, waiting, limit, calls, final,
                 output, history>>

----------------------------------------------------------------------------
(* ControlledStream: two reads in flight.  A read that returned is kept    *)
(* until next() hands it over, so a timeout loses nothing.                 *)

StreamRead ==
  /\ pc = "loop" /\ stask = Pending /\ wire # <<>>
  /\ stask' = Head(wire) /\ wire' = Tail(wire)
  /\ UNCHANGED <<pc, priced, handle, serving, ctask, inbox, sent, waiting,
                 limit, calls, final, output, history>>

ControlRead ==
  /\ pc = "loop" /\ ctask = {} /\ inbox # <<>>
  /\ ctask' = {Head(inbox)} /\ inbox' = Tail(inbox)
  /\ UNCHANGED <<pc, priced, server, stask, sent, waiting, limit, calls,
                 final, output, history>>

\* next(): control goes before a notification that arrived in the same tick.
NextIsControl(msg) == pc = "loop" /\ msg \in ctask
NextIs(notes) == pc = "loop" /\ ctask = {} /\ stask \in notes
NextIsTimeout == pc = "loop" /\ ctask = {} /\ stask = Pending /\ waiting # {}

\* Mutation: handing over a control message cancels the read of the stream.
TakeControlAlone == ctask' = {} /\ stask' = Pending
TakeControl == ctask' = {} /\ UNCHANGED stask
TakeNote == stask' = Pending /\ UNCHANGED ctask

----------------------------------------------------------------------------
(* The harness.                                                            *)

\* Credentials, restored conversation, thread, first turn: each may raise
\* before a turn runs (no key, an unreadable checkpoint, thread.turn).
Start ==
  /\ pc = "start"
  /\ \/ pc' = "loop" /\ handle' = 1 /\ serving' = "running" /\ UNCHANGED wire
     \/ pc' = "raised" /\ UNCHANGED server
  /\ UNCHANGED <<priced, select, inbox, sent, waiting, limit, calls, final,
                 output, history>>

\* handle.interrupt(): the app-server is told, unless the call fails (the
\* exception is swallowed) or nothing runs.
Interrupt ==
  /\ serving' \in IF serving = "running" THEN {"running", "asked"} ELSE {serving}
  /\ UNCHANGED <<handle, wire>>

\* continue_with(msg): a new turn on the thread; the read of the old stream
\* is cancelled and the old stream dropped.
ContinueWith(msg) ==
  /\ handle' = handle + 1 /\ serving' = "running" /\ wire' = <<>>
  /\ stask' = Pending /\ surfaced' = Append(surfaced, msg.id)

TakeSteer(msg) ==
  /\ NextIsControl(msg) /\ msg.op = "steer" /\ TakeControl
  /\ taken' = Append(taken, msg)
  /\ \/ serving = "running" /\ surfaced' = Append(surfaced, msg.id) /\ UNCHANGED refused
     \/ refused' = refused \union {msg.id} /\ UNCHANGED surfaced
  /\ UNCHANGED <<pc, priced, server, inbox, sent, waiting, limit, calls,
                 final, result, made, texts, expired>>

\* Mutation: an interrupt that waits to settle is not replaced by a later one.
TakeInterruptOnce(msg) ==
  /\ NextIsControl(msg) /\ msg.op # "steer" /\ TakeControl
  /\ taken' = Append(taken, msg)
  /\ Interrupt /\ waiting' = IF waiting = {} THEN {msg} ELSE waiting
  /\ UNCHANGED <<pc, priced, inbox, sent, limit, calls, final, output, made,
                 texts, expired>>

TakeInterrupt(msg) ==   \* op interrupt or stop
  /\ NextIsControl(msg) /\ msg.op # "steer" /\ TakeControl
  /\ taken' = Append(taken, msg)
  /\ Interrupt /\ waiting' = {msg}
  /\ UNCHANGED <<pc, priced, inbox, sent, limit, calls, final, output, made,
                 texts, expired>>

OverTurns(n) == n >= MaxTurns
OverBudget(n) == priced /\ n >= MaxBudget

\* One model call: count it and, unless a cap tripped before, look at the caps.
TakeUsage ==
  /\ NextIs({"usage"}) /\ TakeNote
  /\ calls' = calls + 1
  /\ IF limit = "none" /\ (OverTurns(calls + 1) \/ OverBudget(calls + 1))
     THEN /\ limit' = IF OverTurns(calls + 1) THEN "max_turns" ELSE "budget"
          /\ Interrupt
     ELSE UNCHANGED <<limit, server>>
  /\ UNCHANGED <<pc, priced, inbox, sent, waiting, final, output, history>>

\* _remember_final: the last final answer, else the last plain message.
TakeText ==
  /\ NextIs({"plain", "answer"}) /\ TakeNote
  /\ texts' = Append(texts, stask)
  /\ final' = IF stask = "answer" \/ ~final.isFinal
              THEN [n |-> Len(texts) + 1, isFinal |-> stask = "answer"]
              ELSE final
  /\ UNCHANGED <<pc, priced, server, inbox, sent, waiting, limit, calls,
                 output, made, taken, expired>>

\* _result_event: what the terminal result says of the run.
Subtype(status) ==
  CASE limit = "max_turns" -> "error_max_turns"
    [] limit = "budget" -> "error_budget_exceeded"
    [] limit = "none" /\ status = "failed" -> "error"
    [] limit = "none" /\ status = "interrupted" -> "interrupted"
    [] OTHER -> "success"

\* Mutation: the run returns without its terminal result.
FinishSilently(status) == pc' = "done" /\ UNCHANGED output

Finish(status) ==
  /\ pc' = "done" /\ result' = {Subtype(status)}
  /\ UNCHANGED <<surfaced, refused>>

\* turn/completed is a segment boundary for an interrupt with a message, and
\* the end of the run otherwise (select.close() drops the reads in flight).
TakeCompleted ==
  /\ NextIs({"completed", "failed", "interrupted"})
  /\ waiting' = {}
  /\ IF \E msg \in waiting : msg.op = "interrupt"
     THEN /\ \E msg \in waiting : ContinueWith(msg)
          /\ UNCHANGED <<pc, ctask, refused, result>>
     ELSE /\ Finish(stask) /\ TakeNote /\ UNCHANGED server
  /\ UNCHANGED <<priced, inbox, sent, limit, calls, final, history>>

\* No turn/completed within _INTERRUPT_SETTLE_S of an interrupt.
SettleTimeout ==
  /\ NextIsTimeout
  /\ waiting' = {} /\ expired' = TRUE
  /\ \E msg \in waiting :
       IF msg.op = "interrupt"
       THEN ContinueWith(msg) /\ UNCHANGED <<pc, ctask, refused, result>>
       ELSE Finish("interrupted") /\ UNCHANGED <<server, select>>
  /\ UNCHANGED <<priced, inbox, sent, limit, calls, final, made, texts, taken>>

TakeEnd ==   \* "codex stream ended without a turn/completed event"
  /\ NextIs({"end"}) /\ TakeNote
  /\ pc' = "raised"
  /\ UNCHANGED <<priced, server, inbox, sent, waiting, limit, calls, final,
                 output, history>>

Harness == Start \/ StreamRead \/ ControlRead
           \/ (\E msg \in ctask : TakeSteer(msg) \/ TakeInterrupt(msg))
           \/ TakeUsage \/ TakeText \/ TakeCompleted \/ SettleTimeout \/ TakeEnd

Next == Calls \/ Speaks \/ Completes \/ Dies \/ OperatorSends \/ Harness

\* The loop runs whenever a read returned or the settle window ran out; the
\* app-server ends a turn at some point (the SDK's stream terminates).
Fairness == WF_vars(Harness) /\ WF_vars(Completes \/ Dies)

Spec == Init /\ [][Next]_vars

FairSpec == Spec /\ Fairness

----------------------------------------------------------------------------
(* What the run promises.                                                  *)

Ended == pc \in {"done", "raised"}

\* Every variable has its type.
TypeOK ==
  /\ pc \in {"start", "loop", "done", "raised"} /\ priced \in BOOLEAN
  /\ handle \in 0..(MaxMsgs + 1) /\ serving \in {"idle", "running", "asked", "over"}
  /\ stask \in {Pending, "usage", "plain", "answer", "completed", "failed", "interrupted", "end"}
  /\ ctask \subseteq Msgs /\ Cardinality(ctask) <= 1
  /\ inbox \in Seq(Msgs) /\ sent \in 0..MaxMsgs
  /\ waiting \subseteq Msgs /\ Cardinality(waiting) <= 1
  /\ limit \in {"none", "max_turns", "budget"} /\ calls \in 0..MaxCalls
  /\ final \in [n : 0..MaxTexts, isFinal : BOOLEAN]
  /\ Cardinality(result) <= 1 /\ (pc = "done" <=> result # {})

\* The result counts every model call of every Codex turn of the run, across
\* the interrupts and whatever order the two reads returned in, as long as no
\* settle window ran out.
CallsAreCounted == pc = "done" /\ ~expired => calls = made

\* A run whose counted calls reached a cap never ends as a success, as a
\* plain interruption or as an ordinary error.
CapIsReported ==
  pc = "done" /\ (OverTurns(calls) \/ OverBudget(calls))
    => result \subseteq {"error_max_turns", "error_budget_exceeded"}

\* The text of the result is the last final answer of the run, and the last
\* message at all when the model never gave one.
ResultIsTheAnswer ==
  LET answers == {i \in DOMAIN texts : texts[i] = "answer"}
      best == IF answers = {} THEN DOMAIN texts ELSE answers
  IN  final.n = IF best = {} THEN 0 ELSE CHOOSE i \in best : \A j \in best : j <= i

\* The model never gets an operator's message twice, and never one that was
\* reported as refused; the settle window and turn/completed race for it.
DeliveredOnce ==
  /\ \A i, j \in DOMAIN surfaced : surfaced[i] = surfaced[j] => i = j
  /\ \A i \in DOMAIN surfaced : surfaced[i] \notin refused

\* A Codex turn is started for one operator message only: the latest interrupt
\* the loop read, never after a stop that came later.
ContinuesFromTheLatest ==
  [][handle' # handle /\ handle > 0 =>
       \E i \in DOMAIN taken :
         /\ taken[i].op = "interrupt" /\ surfaced' = Append(surfaced, taken[i].id)
         /\ \A j \in DOMAIN taken : j > i => taken[j].op = "steer"]_vars

\* A run that started ends with a result or an exception.
RunEnds == []<>Ended

----------------------------------------------------------------------------
(* What the documentation says and the code does not do.                   *)

\* "the turn is interrupted at the cap": a capped run starts no further turn.
CapEndsTheRun == [][limit # "none" => handle' = handle]_vars
=============================================================================
