---------------------------- MODULE LocalSession ----------------------------
(***************************************************************************)
(* A session of the local runtime (runtime/local.py) and the driven runs   *)
(* it hands out (runtime/_run.py): coroutines that start, steer, await,    *)
(* interrupt and cancel turns on one event loop, the driver task of each   *)
(* run, the harness it pulls events from, the thread that prepares the     *)
(* workspace, and the readers of a run's events.                           *)
(***************************************************************************)
EXTENDS Integers, Sequences, FiniteSets, TLC

CONSTANTS Callers, Readers,
          MaxRuns,    \* bound: turns of the session
          MaxSends,   \* bound: messages sent into running turns
          MaxInbox,   \* bound: messages in a channel when interrupt() adds its own
          Faults      \* of {"caller", "early"}: which cancellations happen

\* What the constants have to satisfy.
LocalSessionAssumption ==
  MaxRuns \in Nat \ {0} /\ {MaxSends, MaxInbox} \subseteq Nat /\ Faults \subseteq {"caller", "early"}

Runs == 1 .. MaxRuns
NoResult == [text |-> "unset", warning |-> "none"]
Idle == [status |-> "pending", stop |-> "none", last |-> NoResult]

VARIABLES
  cur,       \* _current_run, 0 for none
  sess,      \* _status, _stop_reason and _last_result of the session
  task,      \* of a run: "none", "created", "running", "cancelling" or "ended"
  status,    \* of a run: "pending", "running" or "idle"
  harness,   \* of a run: "off", "prep", "model", "stopping", "ending", "after" or "out"
  preparing, \* runs whose preparation occupies a thread
  inbox,     \* of a run: its LocalControlChannel
  first,     \* of a run: the first result event the driver saw
  result,    \* of a run: its RunResult
  note,      \* of a run: _cancel_note
  queue,     \* of a run: events no reader took
  pc, on,    \* of a caller: where it waits, and the run it waits for
  reads,     \* of a reader: the run it iterates (0: none) and those it iterated
  sent,      \* of a message: the run it was sent into
  heard      \* of a message: the runs whose model got it

run_ == <<task, status, harness, preparing, inbox, first, result, note, queue>>
vars == <<cur, sess, run_, pc, on, reads, sent, heard>>

Init ==
  /\ cur = 0 /\ sess = Idle
  /\ task = [r \in Runs |-> "none"] /\ status = [r \in Runs |-> "pending"]
  /\ harness = [r \in Runs |-> "off"] /\ preparing = {}
  /\ inbox = [r \in Runs |-> <<>>] /\ queue = [r \in Runs |-> <<>>]
  /\ first = [r \in Runs |-> "none"] /\ note = [r \in Runs |-> "none"]
  /\ result = [r \in Runs |-> NoResult]
  /\ pc = [c \in Callers |-> "free"] /\ on = [c \in Callers |-> 0]
  /\ reads = [x \in Readers |-> [run |-> 0, past |-> {}]]
  /\ sent = <<>> /\ heard = <<>>

Done(r) == status[r] = "idle"
Busy == cur # 0 /\ ~Done(cur)
EnsureStarted(r) == task' = [task EXCEPT ![r] = IF @ = "none" THEN "created" ELSE @]
Emit(r, events) == queue' = [queue EXCEPT ![r] = @ \o events]

----------------------------------------------------------------------------
(* The callers.                                                            *)

StartTurn(c) ==    \* run(), or send() on an idle session, with an event loop or without
  /\ pc[c] = "free" /\ ~Busy /\ cur < MaxRuns
  /\ cur' = cur + 1
  /\ sess' = [sess EXCEPT !.status = "running", !.stop = "none"]
  /\ inbox' = [inbox EXCEPT ![cur + 1] = <<>>]
  /\ \E loop \in BOOLEAN :
       task' = [task EXCEPT ![cur + 1] = IF loop THEN "created" ELSE "none"]
  /\ UNCHANGED <<status, harness, preparing, first, result, note, queue, pc, on, reads, sent, heard>>

SendIntoTurn(c) ==
  /\ pc[c] = "free" /\ Busy /\ Len(sent) < MaxSends
  /\ sent' = Append(sent, cur) /\ heard' = Append(heard, {})
  /\ inbox' = [inbox EXCEPT ![cur] = Append(@, Len(sent) + 1)]
  /\ UNCHANGED <<cur, sess, task, status, harness, preparing, first, result, note, queue, pc, on, reads>>

Interrupt(c) ==    \* 0 in the inbox is the stop message
  /\ pc[c] = "free" /\ Busy /\ Len(inbox[cur]) < MaxInbox
  /\ EnsureStarted(cur) /\ inbox' = [inbox EXCEPT ![cur] = Append(@, 0)]
  /\ pc' = [pc EXCEPT ![c] = "grace"] /\ on' = [on EXCEPT ![c] = cur]
  /\ UNCHANGED <<cur, sess, status, harness, preparing, first, result, note, queue, reads, sent, heard>>

Cancellable(r) == task[r] = "running" \/ (task[r] = "created" /\ "early" \in Faults)

Cancel(r, why) ==
  /\ note' = [note EXCEPT ![r] = why]
  /\ task' = [task EXCEPT ![r] =
                CASE @ = "created" -> "ended" [] @ = "running" -> "cancelling" [] OTHER -> @]

GraceOver(c) ==    \* the driver took its first step when the caller suspended
  /\ pc[c] = "grace" /\ task[on[c]] \notin {"ended", "created"}
  /\ pc' = [pc EXCEPT ![c] = "cancelled"] /\ Cancel(on[c], "interrupt")
  /\ UNCHANGED <<cur, sess, status, harness, preparing, inbox, first, result, queue, on, reads, sent, heard>>

Await(c) ==
  /\ pc[c] = "free" /\ cur # 0
  /\ EnsureStarted(cur) /\ pc' = [pc EXCEPT ![c] = "await"] /\ on' = [on EXCEPT ![c] = cur]
  /\ UNCHANGED <<cur, sess, status, harness, preparing, inbox, first, result, note, queue, reads, sent, heard>>

Returns(c) ==
  /\ pc[c] # "free" /\ task[on[c]] = "ended" /\ pc' = [pc EXCEPT ![c] = "free"]
  /\ UNCHANGED <<cur, sess, run_, on, reads, sent, heard>>

InterrupterCancelled(c) ==    \* the shield keeps it from the run, and interrupt returns
  /\ "caller" \in Faults /\ pc[c] = "grace" /\ pc' = [pc EXCEPT ![c] = "free"]
  /\ UNCHANGED <<cur, sess, run_, on, reads, sent, heard>>

AwaiterCancelled(c) ==        \* the await is of the driver task itself
  /\ pc[c] = "await" /\ Cancellable(on[c])
  /\ Cancel(on[c], note[on[c]])
  /\ UNCHANGED <<cur, sess, status, harness, preparing, inbox, first, result, queue, pc, on, reads, sent, heard>>

CancelRun ==
  /\ cur # 0 /\ Cancellable(cur) /\ Cancel(cur, "caller")
  /\ UNCHANGED <<cur, sess, status, harness, preparing, inbox, first, result, queue, pc, on, reads, sent, heard>>

----------------------------------------------------------------------------
(* The driver task of a run, and the harness it reads.                     *)

FirstStep(r) ==
  /\ task[r] = "created" /\ task' = [task EXCEPT ![r] = "running"]
  /\ status' = [status EXCEPT ![r] = "running"]
  /\ harness' = [harness EXCEPT ![r] = "prep"] /\ preparing' = preparing \cup {r}
  /\ UNCHANGED <<cur, sess, inbox, first, result, note, queue, pc, on, reads, sent, heard>>

Driven(r) == task[r] = "running"

Prepared(r) ==     \* the thread ends, whether or not the run still waits for it
  /\ r \in preparing /\ preparing' = preparing \ {r}
  /\ IF Driven(r) /\ harness[r] = "prep"
     THEN harness' = [harness EXCEPT ![r] = "model"] /\ Emit(r, <<"ready">>)
     ELSE UNCHANGED <<harness, queue>>
  /\ UNCHANGED <<cur, sess, task, status, inbox, first, result, note, pc, on, reads, sent, heard>>

TakesControl(r) ==   \* one message: a stop ends the turn, another one reaches the model
  /\ Driven(r) /\ harness[r] = "model" /\ inbox[r] # <<>>
  /\ inbox' = [inbox EXCEPT ![r] = Tail(@)]
  /\ LET m == Head(inbox[r])
     IN IF m = 0
        THEN /\ harness' = [harness EXCEPT ![r] = "stopping"] /\ UNCHANGED <<queue, heard>>
        ELSE /\ heard' = [heard EXCEPT ![m] = @ \cup {r}] /\ Emit(r, <<"user">>)
             /\ UNCHANGED harness
  /\ UNCHANGED <<cur, sess, task, status, preparing, first, result, note, pc, on, reads, sent>>

EndsTurn(r) ==
  /\ Driven(r) /\ harness[r] = "model" /\ harness' = [harness EXCEPT ![r] = "ending"]
  /\ UNCHANGED <<cur, sess, task, status, preparing, inbox, first, result, note, queue, pc, on, reads, sent, heard>>

YieldsResult(r) ==   \* after the end-of-turn work; no message is read from here on
  /\ Driven(r) /\ harness[r] \in {"ending", "stopping"}
  /\ harness' = [harness EXCEPT ![r] = "after"]
  /\ \E f \in IF harness[r] = "stopping" THEN {"interrupted"} ELSE {"ok", "failed"} :
       first' = [first EXCEPT ![r] = f]
  /\ Emit(r, <<"result">>)
  /\ UNCHANGED <<cur, sess, task, status, preparing, inbox, result, note, pc, on, reads, sent, heard>>

StopReasonFor(f) ==
  CASE f = "interrupted" -> "interrupted" [] f = "ok" -> "needs_input" [] OTHER -> "error"

FinalizeQuietly(r, error) ==
  LET res == [text |-> first[r], warning |-> IF error = "crash" THEN "died" ELSE "none"]
  IN  /\ result' = [result EXCEPT ![r] = res]
      /\ status' = [status EXCEPT ![r] = "idle"]
      /\ sess' = IF first[r] = "none" THEN sess
                 ELSE [status |-> "idle", stop |-> StopReasonFor(first[r]), last |-> res]

Finalize(r, error) ==
  LET warning == CASE first[r] # "none" /\ error = "crash"     -> "died"
                   [] first[r] = "none" /\ error = "cancelled" -> note[r]
                   [] OTHER                                    -> "none"
      res == [text |-> first[r], warning |-> warning]
  IN  /\ result' = [result EXCEPT ![r] = res]
      /\ status' = [status EXCEPT ![r] = "idle"]
      /\ sess' = [status |-> "idle", stop |-> StopReasonFor(first[r]), last |-> res]

HarnessExhausted(r) ==     \* after its result, or with none at all
  /\ Driven(r) /\ harness[r] \in {"model", "ending", "after"}
  /\ harness' = [harness EXCEPT ![r] = "out"] /\ Finalize(r, "none")
  /\ task' = [task EXCEPT ![r] = "ended"] /\ Emit(r, <<"end">>)
  /\ UNCHANGED <<cur, preparing, inbox, first, note, pc, on, reads, sent, heard>>

HarnessDies(r) ==          \* in the preparation, the model, the end of the turn or after
  /\ Driven(r) /\ harness[r] # "off"
  /\ preparing' = preparing \ {r}
  /\ harness' = [harness EXCEPT ![r] = "out"] /\ Finalize(r, "crash")
  /\ task' = [task EXCEPT ![r] = "ended"] /\ Emit(r, <<"error", "end">>)
  /\ UNCHANGED <<cur, inbox, first, note, pc, on, reads, sent, heard>>

DriverCancelled(r) ==      \* the harness unwinds; a preparing thread goes on
  /\ task[r] = "cancelling" /\ task' = [task EXCEPT ![r] = "ended"]
  /\ harness' = [harness EXCEPT ![r] = "out"] /\ Finalize(r, "cancelled")
  /\ Emit(r, <<"end">>)
  /\ UNCHANGED <<cur, preparing, inbox, first, note, pc, on, reads, sent, heard>>

----------------------------------------------------------------------------
(* The readers of a run's events.                                          *)

Iterate(x) ==
  /\ reads[x].run = 0 /\ cur # 0 /\ cur \notin reads[x].past
  /\ reads' = [reads EXCEPT ![x] = [run |-> cur, past |-> @.past \cup {cur}]]
  /\ EnsureStarted(cur)
  /\ UNCHANGED <<cur, sess, status, harness, preparing, inbox, first, result, note, queue, pc, on, sent, heard>>

Read(x) ==
  LET r == reads[x].run
  IN  /\ r # 0 /\ queue[r] # <<>>
      /\ queue' = [queue EXCEPT ![r] = Tail(@)]
      /\ reads' = IF Head(queue[r]) = "end" THEN [reads EXCEPT ![x].run = 0] ELSE reads
      /\ UNCHANGED <<cur, sess, task, status, harness, preparing, inbox, first, result, note, pc, on, sent, heard>>

----------------------------------------------------------------------------
Calls(c) ==
  \/ StartTurn(c) \/ SendIntoTurn(c) \/ Interrupt(c) \/ GraceOver(c) \/ Await(c)
  \/ Returns(c) \/ InterrupterCancelled(c) \/ AwaiterCancelled(c)

Drives(r) ==
  \/ FirstStep(r) \/ Prepared(r) \/ TakesControl(r) \/ EndsTurn(r) \/ YieldsResult(r)
  \/ HarnessExhausted(r) \/ HarnessDies(r) \/ DriverCancelled(r)

Next ==
  \/ \E c \in Callers : Calls(c)
  \/ CancelRun
  \/ \E r \in Runs : Drives(r)
  \/ \E x \in Readers : Iterate(x) \/ Read(x)

Spec == Init /\ [][Next]_vars

(* The event loop runs what is ready and its timers; the model owes nothing. *)
Fairness ==
  /\ \A r \in Runs : WF_vars(FirstStep(r)) /\ WF_vars(DriverCancelled(r))
  /\ \A c \in Callers : WF_vars(GraceOver(c)) /\ WF_vars(Returns(c))

LiveSpec == Spec /\ Fairness

----------------------------------------------------------------------------
TypeOK ==
  /\ cur \in 0 .. MaxRuns /\ preparing \subseteq Runs
  /\ task \in [Runs -> {"none", "created", "running", "cancelling", "ended"}]
  /\ status \in [Runs -> {"pending", "running", "idle"}]
  /\ first \in [Runs -> {"none", "ok", "failed", "interrupted"}]
  /\ note \in [Runs -> {"none", "interrupt", "caller"}]
  /\ sess.stop \in {"none", "needs_input", "interrupted", "error"}
  /\ pc \in [Callers -> {"free", "grace", "cancelled", "await"}]
  /\ Len(sent) = Len(heard)

(* A result event the harness gave is the run's result, whatever follows:  *)
(* a crash, a cancellation, another caller's interrupt (_finalize).        *)
ResultIsKept == \A r \in Runs : Done(r) => result[r].text = first[r]

(* When the session is idle its status, stop reason and last result are    *)
(* those of its last turn, never of one before (_on_complete).             *)
SessionIsItsLastTurn ==
  cur # 0 /\ Done(cur) =>
    sess = [status |-> "idle", stop |-> StopReasonFor(first[cur]), last |-> result[cur]]

(* One turn at a time has a harness, however the last one was ended.       *)
OneHarness ==
  \A r, s \in Runs : harness[r] \notin {"off", "out"} /\ harness[s] \notin {"off", "out"} => r = s

(* A message reaches the model of the turn it was sent into and no other.  *)
HeardWhereSent == \A m \in DOMAIN sent : heard[m] \subseteq {sent[m]}

(* A reader of a run that is over finds the end of the stream: nobody waits *)
(* on a queue nothing will be put on (__aiter__).                          *)
ReaderReachesTheEnd ==
  \A x \in Readers :
    reads[x].run # 0 /\ task[reads[x].run] = "ended" => queue[reads[x].run] # <<>>

(* interrupt() returns to a session that is idle.                          *)
InterruptLeavesIdle ==
  [][\A c \in Callers : pc[c] \in {"grace", "cancelled"} /\ pc'[c] = "free" => Done(on[c])]_vars

(* An interrupt ends, though the model never listens.                      *)
InterruptEnds == \A c \in Callers : pc[c] \in {"grace", "cancelled"} ~> pc[c] = "free"

(* Two turns never prepare the session's workspace at once.                *)
OnePreparation == Cardinality(preparing) <= 1

(* A message that a running turn accepted reaches its model, or the result *)
(* says that it did not.                                                   *)
NoMessageIsLost ==
  \A m \in DOMAIN sent : Done(sent[m]) /\ heard[m] = {} => result[sent[m]].warning # "none"
=============================================================================
