---------------------------- MODULE ControlQueue ----------------------------
(***************************************************************************)
(* Messages sent into a running turn: SandboxSession's queue of control    *)
(* messages, the thread that flushes it and the worker's /control          *)
(* (runtime/sandbox/backend.py and worker.py).                             *)
(*                                                                         *)
(* The queue and its _flushing flag are changed under _control_lock; the   *)
(* posts are made outside of it, and read the session's sandbox and turn   *)
(* when they begin. Turns end, are interrupted and follow one another in   *)
(* between. A turn stands for its sandbox too, since a sandbox runs one.   *)
(***************************************************************************)
EXTENDS Naturals, Sequences, SequencesExt

CONSTANTS
    Senders,    \* the threads that call send() and interrupt()
    Flushers,   \* the threads that flush the queue
    MaxTurns,   \* bound: turns of the session
    MaxSent,    \* bound: messages sent
    MaxStops,   \* bound: calls of interrupt()
    Fails       \* whether a call of the platform may fail

\* What the constants have to satisfy.
ControlAssumption ==
    /\ Senders \cap Flushers = {}
    /\ {MaxTurns, MaxSent, MaxStops} \subseteq Nat
    /\ Fails \in BOOLEAN

Turns   == 1..MaxTurns
Threads == Senders \cup Flushers
Stop    == 0            \* the stop message; the others are numbered from 1
NoTurn  == 0

VARIABLES
    turn,       \* _turn_id
    busy,       \* the current run is not done
    sandbox,    \* _sandbox: the turn it was handed to, or NoTurn
    ready,      \* _control_ready
    pending,    \* _pending_control
    flushing,   \* _flushing
    pc,         \* where each thread stands
    msg,        \* the message it handles
    target,     \* the turn and sandbox it read for its call
    worker,     \* each turn's worker: "none", "up", "ready", "done"
    inbox,      \* the messages each worker has taken, in order
    sent,       \* the turn each message was sent into
    told,       \* messages whose sender got ControlUnavailable
    logged,     \* messages the flusher gave up
    warned,     \* messages counted in their turn's RunResult.warning
    moot,       \* messages dropped by an interrupt
    stops       \* calls of interrupt() so far

session == <<turn, busy, sandbox, ready>>
queue   == <<pending, flushing>>
thread  == <<pc, msg, target>>
remote  == <<worker, inbox>>
fate    == <<told, logged, warned, moot>>
vars    == <<session, queue, thread, remote, fate, sent, stops>>

Goto(p, where) == pc' = [pc EXCEPT ![p] = where]
Messages == DOMAIN sent

Init ==
    /\ turn = NoTurn /\ busy = FALSE /\ sandbox = NoTurn /\ ready = FALSE
    /\ pending = <<>> /\ flushing = FALSE
    /\ pc = [p \in Threads |-> "idle"]
    /\ msg = [p \in Threads |-> Stop]
    /\ target = [p \in Threads |-> NoTurn]
    /\ worker = [t \in Turns |-> "none"]
    /\ inbox = [t \in Turns |-> <<>>]
    /\ sent = <<>>
    /\ told = {} /\ logged = {} /\ warned = {} /\ moot = {}
    /\ stops = 0

-----------------------------------------------------------------------------
(* The turn: submitted, dispatched, announced, over.                       *)

\* _drop_pending_control
Drop ==
    /\ pending' = <<>>
    /\ flushing' = FALSE

\* _submit, on an idle session.
Submit ==
    /\ ~busy /\ turn < MaxTurns
    /\ turn' = turn + 1
    /\ busy' = TRUE
    /\ sandbox' = NoTurn
    /\ ready' = FALSE
    /\ Drop
    /\ UNCHANGED <<thread, remote, fate, sent, stops>>

\* The dispatch has handed the turn to a worker.
Dispatched ==
    /\ busy /\ sandbox = NoTurn /\ worker[turn] = "none"
    /\ sandbox' = turn
    /\ worker' = [worker EXCEPT ![turn] = "up"]
    /\ UNCHANGED <<turn, busy, ready, queue, thread, inbox, fate, sent, stops>>

\* run_turn sets up its control object and surfaces control_ready.
Announce(t) ==
    /\ worker[t] = "up"
    /\ worker' = [worker EXCEPT ![t] = "ready"]
    /\ UNCHANGED <<session, queue, thread, inbox, fate, sent, stops>>

\* The worker's turn is over, or its sandbox is gone.
WorkerEnds(t) ==
    /\ worker[t] \in {"up", "ready"}
    /\ worker' = [worker EXCEPT ![t] = "done"]
    /\ UNCHANGED <<session, queue, thread, inbox, fate, sent, stops>>

\* _observe of control_ready: it starts a flusher if there is work.
Observe ==
    /\ busy /\ sandbox = turn /\ ~ready /\ worker[turn] \in {"ready", "done"}
    /\ ready' = TRUE
    /\ IF pending # <<>> /\ ~flushing
       THEN /\ flushing' = TRUE
            /\ \E f \in Flushers : pc[f] = "idle" /\ Goto(f, "top")
       ELSE UNCHANGED <<flushing, pc>>
    /\ UNCHANGED <<turn, busy, sandbox, pending, msg, target, remote, fate, sent, stops>>

\* _on_complete: with a result, an error or a cancellation.
Complete ==
    /\ busy
    /\ busy' = FALSE
    /\ sandbox' = NoTurn
    /\ warned' = warned \cup ToSet(pending)
    /\ Drop
    /\ UNCHANGED <<turn, ready, thread, remote, told, logged, moot, sent, stops>>

-----------------------------------------------------------------------------
(* send() and interrupt() into the running turn.                           *)

\* send() finds a turn running.
Send(p) ==
    /\ pc[p] = "idle" /\ busy /\ Len(sent) < MaxSent
    /\ sent' = Append(sent, turn)
    /\ msg' = [msg EXCEPT ![p] = Len(sent')]
    /\ Goto(p, "send")
    /\ UNCHANGED <<session, queue, target, remote, fate, stops>>

\* _post_control: the message is queued, or posted by this thread.
Post(p) ==
    /\ pc[p] = "send"
    /\ IF ~ready \/ sandbox = NoTurn \/ flushing
       THEN pending' = Append(pending, msg[p]) /\ Goto(p, "idle")
       ELSE Goto(p, "post") /\ UNCHANGED pending
    /\ UNCHANGED <<session, flushing, msg, target, remote, fate, sent, stops>>

\* interrupt() that queues its stop like any message.
InterruptQueued(p) ==
    /\ pc[p] = "idle" /\ busy /\ ready /\ sandbox # NoTurn /\ stops < MaxStops
    /\ stops' = stops + 1
    /\ pending' = Append(pending, Stop)
    /\ UNCHANGED <<session, flushing, thread, remote, fate, sent>>

\* interrupt() of a worker that listens: queued messages are moot.
Interrupt(p) ==
    /\ pc[p] = "idle" /\ busy /\ ready /\ sandbox # NoTurn /\ stops < MaxStops
    /\ stops' = stops + 1
    /\ moot' = moot \cup ToSet(pending)
    /\ Drop
    /\ msg' = [msg EXCEPT ![p] = Stop]
    /\ Goto(p, "post")
    /\ UNCHANGED <<session, target, remote, told, logged, warned, sent>>

-----------------------------------------------------------------------------
(* _post_control_now, by a sender or a flusher.                            *)

After(p) == IF p \in Flushers THEN "pop" ELSE "idle"

\* ControlUnavailable: the sender gets it, a flusher logs it.
Unavailable(p) ==
    IF p \in Flushers
    THEN logged' = logged \cup {msg[p]} /\ UNCHANGED told
    ELSE told' = told \cup ({msg[p]} \ {Stop}) /\ UNCHANGED logged

ReadTarget(p) ==
    /\ pc[p] = "post"
    /\ IF sandbox = NoTurn
       THEN /\ Unavailable(p)
            /\ Goto(p, After(p))
            /\ UNCHANGED target
       ELSE /\ target' = [target EXCEPT ![p] = sandbox]
            /\ Goto(p, "call")
            /\ UNCHANGED <<told, logged>>
    /\ UNCHANGED <<session, queue, msg, remote, warned, moot, sent, stops>>

\* A worker that takes whatever comes.
TakesTwice(t, m) == [inbox EXCEPT ![t] = Append(@, m)]

\* control and send_threadsafe: a message id is taken once.
Takes(t, m) == IF m \in ToSet(inbox[t]) THEN inbox ELSE [inbox EXCEPT ![t] = Append(@, m)]

\* The worker takes the message; the answer may be lost.
Delivered(p) ==
    /\ pc[p] = "call" /\ worker[target[p]] = "ready"
    /\ inbox' = Takes(target[p], msg[p])
    /\ \/ UNCHANGED <<told, logged>>
       \/ Fails /\ Unavailable(p)
    /\ Goto(p, After(p))
    /\ UNCHANGED <<session, queue, msg, target, worker, warned, moot, sent, stops>>

\* The worker refuses it, or the call does not get there.
Refused(p) ==
    /\ pc[p] = "call" /\ (Fails \/ worker[target[p]] # "ready")
    /\ Unavailable(p)
    /\ Goto(p, After(p))
    /\ UNCHANGED <<session, queue, msg, target, remote, warned, moot, sent, stops>>

-----------------------------------------------------------------------------
(* _flush_control.                                                         *)

\* The head stays in the queue while it is posted.
TakeHead(f) ==
    /\ pc[f] = "top" /\ pending # <<>>
    /\ msg' = [msg EXCEPT ![f] = Head(pending)]
    /\ Goto(f, "post")
    /\ UNCHANGED <<session, queue, target, remote, fate, sent, stops>>

\* A flusher that leaves the flag set.
FlushEndsFlagged(f) ==
    /\ pc[f] = "top" /\ pending = <<>>
    /\ Goto(f, "idle")
    /\ UNCHANGED <<session, queue, msg, target, remote, fate, sent, stops>>

\* The queue is empty: the flusher is done.
FlushEnds(f) ==
    /\ pc[f] = "top" /\ pending = <<>>
    /\ flushing' = FALSE
    /\ Goto(f, "idle")
    /\ UNCHANGED <<session, pending, msg, target, remote, fate, sent, stops>>

\* pop(0): whatever is the head by now.
PopHead(f) ==
    /\ pc[f] = "pop" /\ pending # <<>>
    /\ pending' = Tail(pending)
    /\ Goto(f, "top")
    /\ UNCHANGED <<session, flushing, msg, target, remote, fate, sent, stops>>

\* pop(0) of a queue that was dropped: IndexError ends the thread.
PopEmpty(f) ==
    /\ pc[f] = "pop" /\ pending = <<>>
    /\ Goto(f, "idle")
    /\ UNCHANGED <<session, queue, msg, target, remote, fate, sent, stops>>

-----------------------------------------------------------------------------
Sending(p)  == Send(p) \/ Post(p) \/ Interrupt(p)
Posting(p)  == ReadTarget(p) \/ Delivered(p) \/ Refused(p)
Flushing(f) == TakeHead(f) \/ FlushEnds(f) \/ PopHead(f) \/ PopEmpty(f)

Next ==
    \/ Submit \/ Dispatched \/ Observe \/ Complete
    \/ \E t \in Turns : Announce(t) \/ WorkerEnds(t)
    \/ \E p \in Senders : Sending(p)
    \/ \E p \in Threads : Posting(p)
    \/ \E f \in Flushers : Flushing(f)

Spec == Init /\ [][Next]_vars

\* Threads run on, and a call ends within its timeout.
Fairness ==
    /\ \A p \in Threads : WF_vars(Posting(p))
    /\ \A p \in Senders : WF_vars(Post(p))
    /\ \A f \in Flushers : WF_vars(Flushing(f))

FairSpec == Spec /\ Fairness

-----------------------------------------------------------------------------
\* The variables have their types (SandboxSession's fields, the worker's
\* turn records).
TypeOK ==
    /\ turn \in 0..MaxTurns /\ sandbox \in {NoTurn, turn} /\ {busy, ready, flushing} \subseteq BOOLEAN
    /\ ToSet(pending) \subseteq Messages /\ ~Contains(pending, Stop)
    /\ pc \in [Threads -> {"idle", "send", "post", "call", "pop", "top"}]
    /\ msg \in [Threads -> {Stop} \cup Messages] /\ target \in [Threads -> 0..MaxTurns]
    /\ worker \in [Turns -> {"none", "up", "ready", "done"}]
    /\ \A t \in Turns : ToSet(inbox[t]) \subseteq {Stop} \cup Messages
    /\ sent \in Seq(Turns) /\ told \cup logged \cup warned \cup moot \subseteq Messages
    /\ stops \in 0..MaxStops

InHand(m) == m \in ToSet(pending) \/ \E p \in Senders : pc[p] # "idle" /\ msg[p] = m
Taken(m)  == \E t \in Turns : m \in ToSet(inbox[t])

\* A worker takes a message once, although two flushers, one of an earlier
\* turn, may post the head of the queue both (_flush_control, and
\* send_threadsafe's _seen).
TakenOnce ==
    \A t \in Turns : \A i, j \in DOMAIN inbox[t] : inbox[t][i] = inbox[t][j] /\ inbox[t][i] # Stop => i = j

\* The messages of one thread reach the worker in the order they were
\* sent, queued or not (_post_control's _flushing).
InOrder ==
    \A t \in Turns : \A i, j \in DOMAIN inbox[t] :
        i < j /\ Stop \notin {inbox[t][i], inbox[t][j]} => inbox[t][i] < inbox[t][j]

\* While its turn runs a message is not forgotten: it is queued, on its
\* way, taken, reported to somebody, or was made moot by an interrupt
\* (_flush_control pops what it has posted).
NoneLost ==
    \A m \in Messages :
        busy /\ sent[m] = turn
        => InHand(m) \/ Taken(m) \/ m \in told \cup logged \cup warned \cup moot

\* Once the worker listens the queue is emptied (_observe, _flush_control
\* and the reset of _flushing between turns).
QueueDrains == (busy /\ ready /\ pending # <<>>) ~> (pending = <<>> \/ ~busy)

\* A message reaches no other turn than the one it was sent into.
OwnTurnOnly == \A t \in Turns : \A m \in ToSet(inbox[t]) \ {Stop} : sent[m] = t
=============================================================================
