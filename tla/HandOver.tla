------------------------------ MODULE HandOver ------------------------------
(***************************************************************************)
(* How a SandboxSession hands one turn after another to a sandbox worker   *)
(* (runtime/sandbox/backend.py, with the worker's /turn handler).          *)
(*                                                                         *)
(* Three kinds of actors interleave:                                       *)
(*   - the driver of the session's run, on the event loop: it starts the   *)
(*     hand-over, waits for it, streams the turn, and completes the run;   *)
(*     interrupt() and detach() cancel it at any await;                    *)
(*   - one dispatch thread per turn, which cannot be cancelled: it claims  *)
(*     or creates a sandbox, posts /turn, and settles lost answers; it may *)
(*     outlive its run, and even the session's next run;                   *)
(*   - background jobs that delete sandboxes and refill the ready pool.    *)
(* The platform may take a sandbox away at any moment, and a /turn call    *)
(* that failed for its caller may still reach the worker later.            *)
(***************************************************************************)
EXTENDS Naturals, FiniteSets

CONSTANTS
    Turns,      \* the turn ids a session mints (one per run() or send())
    Sandboxes,  \* the sandboxes the platform can ever create
    Pooled,     \* those in the ready pool when the session starts
    Attempts,   \* DISPATCH_ATTEMPTS: sandboxes tried for one turn
    None,       \* no sandbox, no turn
    Foreign     \* a turn of another session, running in a sandbox

ASSUME ConstantsAssumption ==
    /\ Pooled \subseteq Sandboxes
    /\ Attempts \in Nat \ {0}
    /\ None \notin Turns \cup Sandboxes
    /\ Foreign \notin Turns \cup {None}

VARIABLES
    \* the session, owned by the event loop
    driver,     \* where the run's driver stands
    turn,       \* _turn_id: the turn of the current or the last run
    held,       \* _sandbox: the sandbox the session refers to
    detached,   \* _detached: the run was left to another process
    left,       \* turns left running for another process to adopt
    \* the hand-over of each turn
    slot,       \* its _Dispatch record
    pc,         \* where its dispatch thread stands
    mine,       \* the thread's local variable `sandbox`
    tries,      \* attempts made
    consumed,   \* pool entries the thread took off the roster
    outcome,    \* what the thread returns or raises
    \* background jobs of the engine
    jobs,       \* sandbox deletions scheduled
    owed,       \* pool refills scheduled
    short,      \* refills that failed
    \* the platform and the workers
    pool,       \* entries of the ready pool's roster
    box,        \* the life of each sandbox
    running,    \* the turn each worker is running
    known,      \* the turns each worker has a record of
    late        \* <<turn, sandbox>>: /turn requests that may still arrive

session  == <<driver, turn, held, detached, left>>
thread   == <<pc, mine, tries, consumed, outcome>>
engine   == <<jobs, owed, short>>
worker   == <<running, known, late>>
vars     == <<session, slot, thread, engine, pool, box, worker>>

DriverStates == {"idle", "created", "stuck", "awaiting", "streaming", "finalizing", "taking"}
ThreadStates == {"none", "claim", "hold", "post", "wait", "ask", "took", "lost",
                 "refused", "drop", "end", "ended"}
Outcomes     == {"none", "took", "abandoned", "uncertain", "failed"}
Slots        == [sandbox : Sandboxes \cup {None}, abandoned : BOOLEAN,
                 accepted : BOOLEAN, finished : BOOLEAN]
Jobs         == [kind : {"box"}, box : Sandboxes] \cup [kind : {"slot"}, of : Turns]

NewSlot    == [sandbox |-> None, abandoned |-> FALSE, accepted |-> FALSE, finished |-> FALSE]
Delete(s)  == [kind |-> "box", box |-> s]
Cleanup(t) == [kind |-> "slot", of |-> t]

Alive(s) == box[s] \in {"live", "stray"}

Init ==
    /\ driver = "idle" /\ turn = None /\ held = None /\ detached = FALSE /\ left = {}
    /\ slot = [t \in Turns |-> NewSlot]
    /\ pc = [t \in Turns |-> "none"]
    /\ mine = [t \in Turns |-> None]
    /\ tries = [t \in Turns |-> 0]
    /\ consumed = [t \in Turns |-> 0]
    /\ outcome = [t \in Turns |-> "none"]
    /\ jobs = {} /\ owed = 0 /\ short = 0
    /\ pool = Pooled
    /\ box = [s \in Sandboxes |-> IF s \in Pooled THEN "live" ELSE "absent"]
    /\ running = [s \in Sandboxes |-> None]
    /\ known = [s \in Sandboxes |-> {}]
    /\ late = {}

-----------------------------------------------------------------------------
(* The worker's /turn handler.                                             *)

\* A worker acknowledges a turn it has a record of, refuses while it runs
\* another one, and otherwise starts the turn.
Acknowledges(s, t) == t \in known[s] \/ running[s] = None

StartTurn(s, t) ==
    IF t \notin known[s] /\ running[s] = None
    THEN /\ known' = [known EXCEPT ![s] = @ \cup {t}]
         /\ running' = [running EXCEPT ![s] = t]
    ELSE UNCHANGED <<known, running>>

\* A request whose caller has given up on it reaches the worker after all.
LateDelivery(t, s) ==
    /\ <<t, s>> \in late
    /\ Alive(s)
    /\ StartTurn(s, t)
    /\ late' = late \ {<<t, s>>}
    /\ UNCHANGED <<session, slot, thread, engine, pool, box>>

\* The turn ends in its worker: the harness finished and its result is on
\* the record. The worker stays up.
TurnEnds(s) ==
    /\ running[s] \in Turns
    /\ running' = [running EXCEPT ![s] = None]
    /\ UNCHANGED <<session, slot, thread, engine, pool, box, known, late>>

-----------------------------------------------------------------------------
(* The platform.                                                           *)

\* A sandbox disappears: out of memory, its TTL, or deleted by hand.
Vanish(s) ==
    /\ Alive(s)
    /\ box' = [box EXCEPT ![s] = "gone"]
    /\ running' = [running EXCEPT ![s] = None]
    /\ UNCHANGED <<session, slot, thread, engine, pool, known, late>>

\* A sandbox still on the roster is found by somebody else and runs a turn
\* of theirs, which ends with that sandbox.
ForeignTurn(s) ==
    /\ s \in pool /\ box[s] = "live" /\ running[s] = None
    /\ running' = [running EXCEPT ![s] = Foreign]
    /\ UNCHANGED <<session, slot, thread, engine, pool, box, known, late>>

\* _release_sandbox: best effort. A sandbox whose delete failed is a stray
\* that lives until its TTL; deleting one that is gone changes nothing.
Release(s) ==
    \/ /\ box' = [box EXCEPT ![s] = "gone"]
       /\ running' = [running EXCEPT ![s] = None]
    \/ /\ Alive(s)
       /\ box' = [box EXCEPT ![s] = "stray"]
       /\ UNCHANGED running

-----------------------------------------------------------------------------
(* The dispatch thread of turn t: _dispatch, _hand_over, _reconcile.       *)

Goto(t, where) == pc' = [pc EXCEPT ![t] = where]

\* The thread is about to leave _dispatch with this outcome.
Leave(t, how) ==
    /\ outcome' = [outcome EXCEPT ![t] = how]
    /\ Goto(t, "end")

\* The loop head once the run was cancelled: nothing more is claimed.
StopClaiming(t) ==
    /\ pc[t] = "claim" /\ slot[t].abandoned
    /\ Leave(t, "abandoned")
    /\ UNCHANGED <<session, slot, mine, tries, consumed, engine, pool, box, worker>>

\* _claim_sandbox: a ready sandbox off the roster.
ClaimWarm(t, s) ==
    /\ pc[t] = "claim" /\ ~slot[t].abandoned
    /\ s \in pool
    /\ pool' = pool \ {s}
    /\ mine' = [mine EXCEPT ![t] = s]
    /\ tries' = [tries EXCEPT ![t] = @ + 1]
    /\ consumed' = [consumed EXCEPT ![t] = @ + 1]
    /\ Goto(t, "hold")
    /\ UNCHANGED <<session, slot, outcome, engine, box, worker>>

\* _claim_sandbox with nothing on the roster: a sandbox for this turn alone.
ClaimCold(t, s) ==
    /\ pc[t] = "claim" /\ ~slot[t].abandoned
    /\ pool = {} /\ box[s] = "absent"
    /\ box' = [box EXCEPT ![s] = "live"]
    /\ mine' = [mine EXCEPT ![t] = s]
    /\ tries' = [tries EXCEPT ![t] = @ + 1]
    /\ Goto(t, "hold")
    /\ UNCHANGED <<session, slot, consumed, outcome, engine, pool, worker>>

\* The roster cannot be read, or _create_sandbox raises, having deleted what it
\* created.
ClaimFails(t) ==
    /\ pc[t] = "claim" /\ ~slot[t].abandoned
    /\ tries' = [tries EXCEPT ![t] = @ + 1]
    /\ Leave(t, "failed")
    /\ UNCHANGED <<session, slot, mine, consumed, engine, pool, box, worker>>

\* The same with the check first: an abandoned slot never learns of the claim.
HoldAfterCheck(t) ==
    /\ pc[t] = "hold"
    /\ IF slot[t].abandoned
       THEN Leave(t, "abandoned") /\ UNCHANGED slot
       ELSE /\ slot' = [slot EXCEPT ![t].sandbox = mine[t]]
            /\ Goto(t, "post")
            /\ UNCHANGED outcome
    /\ UNCHANGED <<session, mine, tries, consumed, engine, pool, box, worker>>

\* Under the slot's lock: publish the claim, unless the run was cancelled
\* while it was made. The cleanup job finds the sandbox in the slot.
Hold(t) ==
    /\ pc[t] = "hold"
    /\ slot' = [slot EXCEPT ![t].sandbox = mine[t]]
    /\ IF slot[t].abandoned
       THEN Leave(t, "abandoned")
       ELSE Goto(t, "post") /\ UNCHANGED outcome
    /\ UNCHANGED <<session, mine, tries, consumed, engine, pool, box, worker>>

\* A /turn call (the first, or one of _reconcile) is answered: _accepted.
CallAnswered(t) ==
    /\ pc[t] \in {"post", "ask"}
    /\ Alive(mine[t])
    /\ StartTurn(mine[t], t)
    /\ Goto(t, IF Acknowledges(mine[t], t) THEN "took" ELSE "refused")
    /\ UNCHANGED <<session, slot, mine, tries, consumed, outcome, engine, pool, box, late>>

\* A sandbox that is gone taken for one that never got the turn, at any call.
GoneMeansRefused(t) ==
    /\ pc[t] \in {"post", "ask"}
    /\ ~Alive(mine[t])
    /\ Goto(t, "refused")
    /\ UNCHANGED <<session, slot, mine, tries, consumed, outcome, engine, pool, box, worker>>

\* SandboxGone: the first call was never delivered, so another sandbox is
\* tried; after a lost answer it settles nothing (DispatchUncertain).
CallFindsGone(t) ==
    /\ pc[t] \in {"post", "ask"}
    /\ ~Alive(mine[t])
    /\ Goto(t, IF pc[t] = "post" THEN "refused" ELSE "lost")
    /\ UNCHANGED <<session, slot, mine, tries, consumed, outcome, engine, pool, box, worker>>

\* A lost answer taken for a refusal.
LostMeansRefused(t) ==
    /\ pc[t] \in {"post", "ask"}
    /\ late' = late \cup {<<t, mine[t]>>}
    /\ Goto(t, "refused")
    /\ UNCHANGED <<session, slot, mine, tries, consumed, outcome, engine, pool, box, running, known>>

\* Any other failure hides whether the request arrived or will.
CallLost(t) ==
    /\ pc[t] \in {"post", "ask"}
    /\ late' = late \cup {<<t, mine[t]>>}
    /\ Goto(t, "wait")
    /\ UNCHANGED <<session, slot, mine, tries, consumed, outcome, engine, pool, box, running, known>>

\* _reconcile posts the same body to the same sandbox again.
AskAgain(t) ==
    /\ pc[t] = "wait"
    /\ Goto(t, "ask")
    /\ UNCHANGED <<session, slot, mine, tries, consumed, outcome, engine, pool, box, worker>>

\* _reconcile: a call fails after DISPATCH_RECONCILE_S.
GiveUpAsking(t) ==
    /\ pc[t] = "ask"
    /\ late' = late \cup {<<t, mine[t]>>}
    /\ Goto(t, "lost")
    /\ UNCHANGED <<session, slot, mine, tries, consumed, outcome, engine, pool, box, running, known>>

\* The session gets the sandbox whether or not its run was cancelled.
PublishAlways(t) ==
    /\ pc[t] = "took"
    /\ held' = mine[t]
    /\ slot' = [slot EXCEPT ![t].accepted = TRUE]
    /\ Leave(t, "took")
    /\ UNCHANGED <<driver, turn, detached, left, mine, tries, consumed, engine, pool, box, worker>>

\* A worker took the turn. Under the slot's lock: the session gets the
\* sandbox, unless the run was cancelled meanwhile.
Publish(t) ==
    /\ pc[t] = "took"
    /\ IF slot[t].abandoned
       THEN UNCHANGED <<held, slot>>
       ELSE /\ held' = mine[t]
            /\ slot' = [slot EXCEPT ![t].accepted = TRUE]
    /\ Leave(t, "took")
    /\ UNCHANGED <<driver, turn, detached, left, mine, tries, consumed, engine, pool, box, worker>>

\* DispatchUncertain: the sandbox stays referenced, so that the failed run
\* deletes it.
PublishUncertain(t) ==
    /\ pc[t] = "lost"
    /\ held' = IF slot[t].abandoned THEN held ELSE mine[t]
    /\ Leave(t, "uncertain")
    /\ UNCHANGED <<driver, turn, detached, left, slot, mine, tries, consumed, engine, pool, box, worker>>

\* The sandbox did not take the turn: it leaves the slot.
Refused(t) ==
    /\ pc[t] = "refused"
    /\ slot' = [slot EXCEPT ![t].sandbox = None]
    /\ Goto(t, "drop")
    /\ UNCHANGED <<session, mine, tries, consumed, outcome, engine, pool, box, worker>>

\* _runs_another_turn, when /health answers: what runs there is not the
\* turn of the session's current run.
RunsAnotherTurn(s) == Alive(s) /\ running[s] # None /\ running[s] # turn

\* One attempt too many.
DropOnceMore(t) ==
    /\ pc[t] = "drop"
    /\ \/ Release(mine[t])
       \/ RunsAnotherTurn(mine[t]) /\ UNCHANGED <<box, running>>
    /\ mine' = [mine EXCEPT ![t] = None]
    /\ IF tries[t] <= Attempts
       THEN Goto(t, "claim") /\ UNCHANGED outcome
       ELSE Leave(t, "failed")
    /\ UNCHANGED <<session, slot, tries, consumed, engine, pool, known, late>>

\* The refusing sandbox is deleted by the thread itself, unless another turn
\* runs there (an unreachable one counts as its own to delete). Then the next
\* attempt, up to DISPATCH_ATTEMPTS.
Drop(t) ==
    /\ pc[t] = "drop"
    /\ \/ Release(mine[t])
       \/ RunsAnotherTurn(mine[t]) /\ UNCHANGED <<box, running>>
    /\ mine' = [mine EXCEPT ![t] = None]
    /\ IF tries[t] < Attempts
       THEN Goto(t, "claim") /\ UNCHANGED outcome
       ELSE Leave(t, "failed")
    /\ UNCHANGED <<session, slot, tries, consumed, engine, pool, known, late>>

\* Only the pool entry that took the turn is replaced.
RefillWhatWasUsed(t) ==
    /\ pc[t] = "end"
    /\ slot' = [slot EXCEPT ![t].finished = TRUE]
    /\ owed' = IF outcome[t] = "took" /\ consumed[t] > 0 THEN owed + 1 ELSE owed
    /\ consumed' = [consumed EXCEPT ![t] = 0]
    /\ Goto(t, "ended")
    /\ UNCHANGED <<session, mine, tries, outcome, jobs, short, pool, box, worker>>

\* The finally clause: whoever waits on the slot may go on, and every pool
\* entry this thread consumed is replaced in the background.
Finish(t) ==
    /\ pc[t] = "end"
    /\ slot' = [slot EXCEPT ![t].finished = TRUE]
    /\ owed' = owed + consumed[t]
    /\ consumed' = [consumed EXCEPT ![t] = 0]
    /\ Goto(t, "ended")
    /\ UNCHANGED <<session, mine, tries, outcome, jobs, short, pool, box, worker>>

-----------------------------------------------------------------------------
(* The session, on the event loop.                                         *)

\* run() or send() on an idle session. After detach() the session adopts the
\* turn it left first (module Adoption), so no turn is submitted next to it.
Submit(t) ==
    /\ driver = "idle" /\ pc[t] = "none" /\ left = {}
    /\ turn' = t
    /\ held' = None
    /\ slot' = [slot EXCEPT ![t] = NewSlot]
    /\ driver' = "created"
    /\ UNCHANGED <<detached, left, thread, engine, pool, box, worker>>

\* The first step of the run's driver: it starts the dispatch thread.
DriverStarts ==
    /\ driver = "created" /\ pc[turn] = "none"
    /\ driver' = "awaiting"
    /\ Goto(turn, "claim")
    /\ UNCHANGED <<turn, held, detached, left, slot, mine, tries, consumed, outcome, engine, pool, box, worker>>

\* A hand-over that raises leaves its run waiting.
ReturnsOnlySandboxes ==
    /\ driver = "awaiting" /\ slot[turn].finished
    /\ outcome[turn] = "took"
    /\ driver' = "streaming"
    /\ UNCHANGED <<turn, held, detached, left, slot, thread, engine, pool, box, worker>>

\* The awaited thread returned a sandbox to stream from, or the run gets a
\* synthetic result that explains why there is none.
DispatchReturns ==
    /\ driver = "awaiting" /\ slot[turn].finished
    /\ driver' = IF outcome[turn] = "took" THEN "streaming" ELSE "finalizing"
    /\ UNCHANGED <<turn, held, detached, left, slot, thread, engine, pool, box, worker>>

\* The stream ends: the turn's result, or a synthetic one for a sandbox that
\* vanished or cannot be reached.
StreamEnds ==
    /\ driver = "streaming"
    /\ driver' = "finalizing"
    /\ UNCHANGED <<turn, held, detached, left, slot, thread, engine, pool, box, worker>>

\* interrupt()'s fallback, or the event loop shutting down.
Cancel ==
    /\ driver \in {"awaiting", "streaming"}
    /\ driver' = "finalizing"
    /\ UNCHANGED <<turn, held, detached, left, slot, thread, engine, pool, box, worker>>

\* The same before the driver's first step: a task cancelled that early never
\* runs, not even the part that completes the run.
CancelTooEarly ==
    /\ driver = "created"
    /\ driver' = "stuck"
    /\ UNCHANGED <<turn, held, detached, left, slot, thread, engine, pool, box, worker>>

\* The sandbox the session refers to taken for proof that its worker took the
\* turn.
DetachWhatIsHeld ==
    /\ driver \in {"awaiting", "streaming"}
    /\ held # None /\ slot[turn].finished
    /\ detached' = TRUE
    /\ driver' = "finalizing"
    /\ UNCHANGED <<turn, held, left, slot, thread, engine, pool, box, worker>>

\* detach(): only a turn that a worker took, once its thread has finished.
Detach ==
    /\ driver \in {"awaiting", "streaming"}
    /\ slot[turn].accepted /\ slot[turn].finished
    /\ detached' = TRUE
    /\ driver' = "finalizing"
    /\ UNCHANGED <<turn, held, left, slot, thread, engine, pool, box, worker>>

\* A hand-over in flight handled like one that has finished: what the session
\* refers to now is deleted, and nothing waits for the thread.
DeleteWhatIsHeld ==
    /\ driver = "finalizing"
    /\ IF slot[turn].finished
       THEN /\ driver' = "taking"
            /\ UNCHANGED <<held, detached, slot, jobs>>
       ELSE /\ slot' = [slot EXCEPT ![turn].abandoned = TRUE]
            /\ held' = None
            /\ detached' = FALSE
            /\ jobs' = IF held = None THEN jobs ELSE jobs \cup {Delete(held)}
            /\ driver' = "idle"
    /\ UNCHANGED <<turn, left, thread, owed, short, pool, box, worker>>

\* _on_complete, the step under the slot's lock: who owns the sandbox. A
\* hand-over still in flight is abandoned to a cleanup job.
Finalize ==
    /\ driver = "finalizing"
    /\ IF slot[turn].finished
       THEN /\ driver' = "taking"
            /\ UNCHANGED <<held, detached, slot, jobs>>
       ELSE /\ slot' = [slot EXCEPT ![turn].abandoned = TRUE]
            /\ held' = None
            /\ detached' = FALSE
            /\ jobs' = jobs \cup {Cleanup(turn)}
            /\ driver' = "idle"
    /\ UNCHANGED <<turn, left, thread, owed, short, pool, box, worker>>

\* _on_complete, the rest: the session gives up its sandbox, to be deleted
\* unless the turn was left running for another process.
Take ==
    /\ driver = "taking"
    /\ driver' = "idle"
    /\ held' = None
    /\ detached' = FALSE
    /\ jobs' = IF held = None \/ detached THEN jobs ELSE jobs \cup {Delete(held)}
    /\ left' = IF detached THEN left \cup {turn} ELSE left
    /\ UNCHANGED <<turn, slot, thread, owed, short, pool, box, worker>>

-----------------------------------------------------------------------------
(* The engine's background jobs.                                           *)

\* The release at the end of a turn.
RunDelete(s) ==
    /\ Delete(s) \in jobs
    /\ jobs' = jobs \ {Delete(s)}
    /\ Release(s)
    /\ UNCHANGED <<session, slot, thread, owed, short, pool, known, late>>

\* The cleanup does not wait for the thread.
CleanUpAtOnce(t) ==
    /\ Cleanup(t) \in jobs
    /\ jobs' = jobs \ {Cleanup(t)}
    /\ IF slot[t].sandbox = None THEN UNCHANGED <<box, running>> ELSE Release(slot[t].sandbox)
    /\ UNCHANGED <<session, slot, thread, owed, short, pool, known, late>>

\* _release_after_dispatch: waits for the thread, deletes what its slot holds.
RunCleanup(t) ==
    /\ Cleanup(t) \in jobs /\ slot[t].finished
    /\ jobs' = jobs \ {Cleanup(t)}
    /\ IF slot[t].sandbox = None THEN UNCHANGED <<box, running>> ELSE Release(slot[t].sandbox)
    /\ UNCHANGED <<session, slot, thread, owed, short, pool, known, late>>

\* fill_pool, one sandbox: created, then recorded in the roster; what cannot
\* be recorded is deleted again.
Refill(s) ==
    /\ owed > 0
    /\ box[s] = "absent"
    /\ owed' = owed - 1
    /\ box' = [box EXCEPT ![s] = "live"]
    /\ pool' = pool \cup {s}
    /\ UNCHANGED <<session, slot, thread, jobs, short, worker>>

RefillFails ==
    /\ owed > 0
    /\ owed' = owed - 1
    /\ short' = short + 1
    /\ UNCHANGED <<session, slot, thread, jobs, pool, box, worker>>

-----------------------------------------------------------------------------

Dispatching(t) ==
    \/ StopClaiming(t) \/ ClaimFails(t) \/ Hold(t) \/ CallAnswered(t) \/ CallFindsGone(t)
    \/ CallLost(t) \/ AskAgain(t) \/ GiveUpAsking(t) \/ Publish(t) \/ PublishUncertain(t)
    \/ Refused(t) \/ Drop(t) \/ Finish(t)
    \/ \E s \in Sandboxes : ClaimWarm(t, s) \/ ClaimCold(t, s)

Driving == DriverStarts \/ DispatchReturns \/ StreamEnds \/ Finalize \/ Take

Next ==
    \/ \E t \in Turns : Submit(t) \/ Dispatching(t) \/ RunCleanup(t)
    \/ Driving \/ Cancel \/ CancelTooEarly \/ Detach
    \/ \E s \in Sandboxes : RunDelete(s) \/ Refill(s) \/ TurnEnds(s) \/ Vanish(s) \/ ForeignTurn(s)
    \/ \E t \in Turns, s \in Sandboxes : LateDelivery(t, s)
    \/ RefillFails

Spec == Init /\ [][Next]_vars

(* The fairness the code's scheduling gives: threads run, every call has a *)
(* timeout, a turn ends within its time limit or its sandbox's TTL, and    *)
(* background threads are not daemons. _reconcile's deadline ends its loop *)
(* of lost answers (strong fairness: a call is outstanding again and       *)
(* again). Nothing makes a caller submit, cancel or detach, or the         *)
(* platform lose a sandbox.                                                *)
Settles(t) == CallAnswered(t) \/ CallFindsGone(t) \/ GiveUpAsking(t)

Fairness ==
    /\ WF_vars(Driving)
    /\ \A t \in Turns : WF_vars(Dispatching(t)) /\ SF_vars(Settles(t)) /\ WF_vars(RunCleanup(t))
    /\ \A s \in Sandboxes : WF_vars(RunDelete(s))
    /\ WF_vars(RefillFails \/ \E s \in Sandboxes : Refill(s))

FairSpec == Spec /\ Fairness

-----------------------------------------------------------------------------
(* Correctness.                                                            *)

\* Every variable has its type.
TypeOK ==
    /\ driver \in DriverStates
    /\ turn \in Turns \cup {None}
    /\ held \in Sandboxes \cup {None}
    /\ detached \in BOOLEAN
    /\ left \subseteq Turns
    /\ slot \in [Turns -> Slots]
    /\ pc \in [Turns -> ThreadStates]
    /\ mine \in [Turns -> Sandboxes \cup {None}]
    /\ tries \in [Turns -> 0..Attempts]
    /\ consumed \in [Turns -> 0..Attempts]
    /\ outcome \in [Turns -> Outcomes]
    /\ jobs \subseteq Jobs
    /\ owed \in Nat /\ short \in Nat
    /\ pool \subseteq Sandboxes
    /\ box \in [Sandboxes -> {"absent", "live", "stray", "gone"}]
    /\ running \in [Sandboxes -> Turns \cup {None, Foreign}]
    /\ known \in [Sandboxes -> SUBSET Turns]
    /\ late \subseteq Turns \X Sandboxes

\* No turn is ever started by two workers, whatever answers are lost, late or
\* refused and however often the hand-over is retried (_hand_over,
\* _reconcile, start_turn): a lost answer is settled with the same sandbox.
OneRunner ==
    \A t \in Turns, s1, s2 \in Sandboxes :
        t \in known[s1] /\ t \in known[s2] => s1 = s2

\* A hand-over that says its turn was not started tells the truth and stays
\* right: a run that ended with dispatch_failed may be repeated, and no late
\* request starts its turn afterwards. Each turn starts once, and each
\* hand-over gives one verdict: HandOver implements AtMostOnce.
StartedIn == [t \in Turns |-> IF \E s \in Sandboxes : t \in known[s]
                              THEN CHOOSE s \in Sandboxes : t \in known[s]
                              ELSE None]

Promise == INSTANCE AtMostOnce WITH startedIn <- StartedIn, verdict <- outcome

AtMostOnceSpec == Promise!Spec

\* The session never refers to the sandbox of an older turn: a dispatch
\* thread that outlives its run does not overwrite _sandbox of the next one,
\* and the driver streams from a sandbox whose worker took this very turn.
HeldIsThisTurns ==
    /\ driver # "idle" /\ held # None => held = mine[turn]
    /\ driver = "streaming" => held # None /\ turn \in known[held]

\* Somebody is still going to delete sandbox s, or has left it to another
\* process: the thread that works with it, a run that refers to it, a job.
Owned(s) ==
    \/ \E t \in Turns : mine[t] = s /\ pc[t] # "ended"
    \/ held = s /\ driver # "idle"
    \/ Delete(s) \in jobs
    \/ \E t \in Turns : Cleanup(t) \in jobs /\ slot[t].sandbox = s
    \/ \E t \in left : mine[t] = s
    \/ running[s] = Foreign

\* No sandbox leaks: from its claim until its deletion was tried, each one
\* has an owner. This is what _on_complete's decision under the slot's lock
\* is for: a hand-over that lands in between may escape neither path.
NothingLeaks ==
    \A s \in Sandboxes : box[s] = "live" /\ s \notin pool => Owned(s)

\* detach() leaves a turn that a worker took, and nothing this process has
\* scheduled deletes its sandbox.
DetachedIsKept ==
    \A t \in left :
        /\ t \in known[mine[t]]
        /\ Cleanup(t) \notin jobs
        /\ Delete(mine[t]) \notin jobs

\* Every pool entry a dispatch takes, also the dead ones it met on the way,
\* is replaced or its refill has failed: stale entries cannot drain the pool.
PoolConserved ==
    Cardinality(pool) + owed + short
      + Cardinality({c \in Turns \X (1..Attempts) : c[2] <= consumed[c[1]]})
    = Cardinality(Pooled)

\* Every sandbox that left the pool, or was created for a turn, is in the end
\* deleted (or its delete was tried), unless another process has it.
SandboxesAreReleased ==
    \A s \in Sandboxes :
        (box[s] = "live" /\ s \notin pool)
          ~> (box[s] # "live" \/ running[s] = Foreign \/ \E t \in left : mine[t] = s)

\* An interrupt during the hand-over stops the turn in the end, for good,
\* even if a worker took it after the run had ended. Only a sandbox that
\* could not be deleted may go on with it.
AbandonedTurnsStop ==
    \A t \in Turns :
        slot[t].abandoned ~> [](\A s \in Sandboxes : running[s] = t => box[s] = "stray")

\* Every run whose driver has taken its first step ends: the hand-over and the
\* stream always come to a result, or a cancellation completes the run.
RunsEnd == driver \in DriverStates \ {"created", "stuck"} ~> driver = "idle"

\* interrupt() promises to leave the session idle and resumable.
InterruptLeavesIdle == driver # "idle" ~> driver = "idle"

\* _dispatch promises that once its run was cancelled nothing more is posted.
NothingPostedOnceAbandoned ==
    [][\A t \in Turns : slot[t].abandoned => ~(pc[t] = "wait" /\ pc'[t] = "ask")]_vars

-----------------------------------------------------------------------------
(* The inductive invariant behind OneRunner, AtMostOnceSpec, NothingLeaks  *)
(* and DetachedIsKept.                                                     *)

\* The worker of s has started turn t, or a late request may make it.
Reachable(t, s) ==
    t \in known[s] \/ (<<t, s>> \in late /\ Alive(s) /\ running[s] # Foreign)

Working == {"hold", "post", "wait", "ask", "took", "lost", "refused", "drop"}

\* A sandbox is claimed by one thread at most, which keeps it until it drops
\* it; a claimed sandbox exists and is off the roster.
ClaimsAreDistinct ==
    /\ \A t, u \in Turns : mine[t] = mine[u] /\ mine[t] # None => t = u
    /\ \A t \in Turns : mine[t] # None => mine[t] \notin pool /\ box[mine[t]] # "absent"
    /\ \A s \in pool : box[s] # "absent"

\* Where a thread stands says what it has.
ThreadsAreConsistent ==
    \A t \in Turns :
        /\ pc[t] \in Working => mine[t] # None
        /\ pc[t] \in {"none", "claim"} => mine[t] = None /\ tries[t] < Attempts
        /\ (outcome[t] = "none") = (pc[t] \notin {"end", "ended"})
        /\ outcome[t] \in {"took", "uncertain"} => mine[t] # None
        /\ outcome[t] = "failed" => mine[t] = None
        /\ consumed[t] <= tries[t]
        /\ pc[t] = "took" \/ outcome[t] = "took" => t \in known[mine[t]]

\* A turn has started, or may yet start, only in the sandbox of its thread,
\* and not after the thread moved on from it.
StartsAreSettled ==
    \A t \in Turns, s \in Sandboxes :
        Reachable(t, s) =>
            /\ mine[t] = s
            /\ pc[t] \in {"wait", "ask", "took", "lost", "end", "ended"}
            /\ outcome[t] \in {"none", "took", "uncertain"}

WorkersAreConsistent ==
    /\ \A s \in Sandboxes : running[s] \in Turns => running[s] \in known[s]
    /\ \A t \in Turns, s \in Sandboxes : <<t, s>> \in late => box[s] # "absent"

StartInv ==
    /\ TypeOK
    /\ driver # "idle" => turn \in Turns
    /\ ClaimsAreDistinct
    /\ ThreadsAreConsistent
    /\ StartsAreSettled
    /\ WorkersAreConsistent

\* The slot mirrors the thread, and its run is the current one until it is
\* abandoned or its thread has finished.
SlotIsConsistent(t) ==
    /\ slot[t].finished <=> pc[t] = "ended"
    /\ slot[t].accepted => outcome[t] = "took"
    /\ pc[t] \in {"post", "wait", "ask", "took", "lost", "refused", "end", "ended"}
          => slot[t].sandbox = mine[t]
    /\ pc[t] \in {"none", "claim", "hold", "drop"} => slot[t].sandbox = None
    /\ pc[t] \notin {"none", "ended"} /\ ~slot[t].abandoned
          => turn = t /\ driver \in {"awaiting", "finalizing"}
    /\ pc[t] = "none" => ~slot[t].abandoned /\ Cleanup(t) \notin jobs
    /\ outcome[t] = "abandoned" => slot[t].abandoned
    /\ t \in left => slot[t].finished
    /\ Cleanup(t) \in jobs => slot[t].abandoned
    /\ slot[t].abandoned /\ Cleanup(t) \notin jobs => slot[t].finished
    /\ slot[t].abandoned /\ Cleanup(t) \notin jobs /\ slot[t].sandbox # None
          => box[slot[t].sandbox] # "live"

SlotsAreConsistent == \A t \in Turns : SlotIsConsistent(t)

\* What the driver refers to is its own turn's, and nothing scheduled
\* deletes it before the run is complete.
DriverIsConsistent ==
    /\ driver = "idle" => held = None
    /\ driver \in {"created", "stuck"} => held = None /\ pc[turn] = "none"
    /\ held # None => held = mine[turn] /\ outcome[turn] \in {"took", "uncertain"}
    /\ detached => driver \in {"finalizing", "taking"} /\ slot[turn].finished
                     /\ outcome[turn] = "took"
    /\ driver \in {"streaming", "taking"} => slot[turn].finished
    /\ driver = "streaming" => outcome[turn] = "took"
    /\ driver \notin {"idle", "created", "stuck"} =>
          /\ pc[turn] # "none" /\ ~slot[turn].abandoned /\ turn \notin left
          /\ outcome[turn] \in {"took", "uncertain"} => held = mine[turn]
          /\ \A s \in Sandboxes : Delete(s) \in jobs => s # mine[turn]

\* What becomes of a sandbox that may run turn t: its run has it, it was left
\* to another process, or it is deleted.
SandboxIsPassedOn(t) ==
    /\ outcome[t] \in {"took", "uncertain"} /\ ~slot[t].abandoned
         => \/ turn = t /\ driver # "idle"
            \/ t \in left
            \/ Delete(mine[t]) \in jobs
            \/ box[mine[t]] # "live"
    /\ t \in left =>
          /\ outcome[t] = "took" /\ ~slot[t].abandoned
          /\ Delete(mine[t]) \notin jobs /\ Cleanup(t) \notin jobs

DeletesAreOfEndedTurns ==
    \A s \in Sandboxes : Delete(s) \in jobs => \E t \in Turns : mine[t] = s /\ pc[t] = "ended"

SessionIsConsistent ==
    /\ DriverIsConsistent
    /\ \A t \in Turns : SandboxIsPassedOn(t)
    /\ DeletesAreOfEndedTurns

\* A sandbox off the roster belongs to a thread, past or present, or was left
\* alone because another turn runs there.
ClaimedHasThread ==
    \A s \in Sandboxes :
        box[s] = "live" /\ s \notin pool => running[s] = Foreign \/ \E t \in Turns : mine[t] = s

OwnInv == StartInv /\ SlotsAreConsistent /\ SessionIsConsistent /\ ClaimedHasThread

=============================================================================
