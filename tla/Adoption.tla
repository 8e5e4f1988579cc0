------------------------------ MODULE Adoption ------------------------------
(***************************************************************************)
(* One session in several processes (backend.py: _attach,                  *)
(* _find_running_turn, detach, last_result, the token refresh): the event  *)
(* mirror tells a process which turn runs elsewhere, and it adopts it.     *)
(*                                                                         *)
(* Turns are numbered; a turn stands for its sandbox. How a turn is handed *)
(* to its worker is in HandOver, its events in TurnStream. What the mirror *)
(* shows of a turn is nothing, its start, or its result.                   *)
(***************************************************************************)
EXTENDS Naturals, FiniteSets, FiniteSetsExt

CONSTANTS
    Procs,      \* the processes that hold the session
    Looped,     \* those with an event loop; the others only poll
    MaxTurns,   \* bound: turns of the session
    Faults      \* what may happen, of AllFaults

\* The mirror shows a start late, a process is killed or exits, it detaches,
\* a run ends without its result, an adopter's event loop shuts down, the
\* look for a running turn cannot read the session's record or the mirror.
AllFaults == {"lag", "crash", "detach", "giveup", "shutdown", "unreadable"}

\* What the constants have to satisfy.
AdoptionAssumption ==
    /\ Looped \subseteq Procs
    /\ MaxTurns \in Nat \ {0}
    /\ Faults \subseteq AllFaults

Turns  == 1..MaxTurns
NoTurn == 0

VARIABLES
    last,       \* the number of turns started
    worker,     \* each turn's worker: "none", "run", "done"
    gone,       \* the turns whose sandbox is deleted
    shown,      \* what the mirror shows of each turn: "none", "start", "over"
    latest,     \* the turn whose result the mirror got last
    rec,        \* the session has a token record
    run,        \* the turn each process follows, or NoTurn
    adopted,    \* whether it adopted that turn
    foreign,    \* _foreign_check
    refresher,  \* its refresh thread runs
    minted,     \* the thread holds a token it has yet to record
    result,     \* the turn of its last result
    jobs,       \* the sandboxes its background threads will delete
    unlooked,   \* the processes whose look failed, since they attached
    blind       \* one of them has started a turn: nothing reads this

turnState == <<last, worker, gone>>
mirror  == <<shown, latest>>
process == <<run, adopted, foreign, refresher, minted, result, jobs>>
looks   == <<unlooked, blind>>
vars    == <<turnState, mirror, rec, process, looks>>

Init ==
    /\ last = 0
    /\ worker = [t \in Turns |-> "none"]
    /\ gone = {}
    /\ shown = [t \in Turns |-> "none"]
    /\ latest = NoTurn
    /\ rec = FALSE
    /\ run = [p \in Procs |-> NoTurn]
    /\ adopted = [p \in Procs |-> FALSE]
    /\ foreign = [p \in Procs |-> TRUE]
    /\ refresher = [p \in Procs |-> FALSE]
    /\ minted = [p \in Procs |-> FALSE]
    /\ result = [p \in Procs |-> NoTurn]
    /\ jobs = [p \in Procs |-> {}]
    /\ unlooked = {} /\ blind = FALSE

-----------------------------------------------------------------------------
(* The turn and its worker.                                                *)

\* run() or send() on an idle session that has looked at the mirror.
Start(p) ==
    /\ p \in Looped /\ run[p] = NoTurn /\ ~foreign[p] /\ last < MaxTurns
    /\ last' = last + 1
    /\ worker' = [worker EXCEPT ![last'] = "run"]
    /\ shown' = IF "lag" \in Faults THEN shown ELSE [shown EXCEPT ![last'] = "start"]
    /\ rec' = TRUE
    /\ run' = [run EXCEPT ![p] = last']
    /\ adopted' = [adopted EXCEPT ![p] = FALSE]
    /\ refresher' = [refresher EXCEPT ![p] = TRUE]
    /\ blind' = (blind \/ p \in unlooked)
    /\ UNCHANGED <<gone, latest, foreign, minted, result, jobs, unlooked>>

\* The mirror gets the first batch of a turn.
Flush(t) ==
    /\ shown[t] = "none" /\ worker[t] = "run"
    /\ shown' = [shown EXCEPT ![t] = "start"]
    /\ UNCHANGED <<turnState, latest, rec, process, looks>>

\* The turn ends: its result is stored before anybody sees it.
WorkerEnds(t) ==
    /\ worker[t] = "run" /\ t \notin gone
    /\ worker' = [worker EXCEPT ![t] = "done"]
    /\ shown' = [shown EXCEPT ![t] = "over"]
    /\ latest' = t
    /\ UNCHANGED <<last, gone, rec, process, looks>>

-----------------------------------------------------------------------------
(* Adoption.                                                               *)

\* _find_running_turn: the last start, unless its result follows.
FindRunning ==
    LET started == {t \in Turns : shown[t] # "none"}
    IN  IF started # {} /\ shown[Max(started)] = "start" THEN Max(started) ELSE NoTurn

\* An adopter that leaves the tokens to the process that started the turn.
AdoptUnrefreshed(p, t) ==
    /\ run' = [run EXCEPT ![p] = t]
    /\ adopted' = [adopted EXCEPT ![p] = TRUE]
    /\ UNCHANGED refresher

Adopt(p, t) ==
    /\ run' = [run EXCEPT ![p] = t]
    /\ adopted' = [adopted EXCEPT ![p] = TRUE]
    /\ refresher' = [refresher EXCEPT ![p] = TRUE]

\* _attach, on the first access of a session that may be foreign.
Attach(p) ==
    /\ run[p] = NoTurn /\ foreign[p] /\ p \in Looped
    /\ foreign' = [foreign EXCEPT ![p] = FALSE]
    /\ IF FindRunning = NoTurn
       THEN UNCHANGED <<run, adopted, refresher>>
       ELSE Adopt(p, FindRunning)
    /\ UNCHANGED <<turnState, mirror, rec, minted, result, jobs, looks>>

\* The look fails, and is not repeated: _attach clears the flag before it reads
\* the session's record and the mirror. The caller gets the exception.
LookFails(p) ==
    /\ "unreadable" \in Faults /\ run[p] = NoTurn /\ foreign[p]
    /\ foreign' = [foreign EXCEPT ![p] = FALSE]
    /\ unlooked' = unlooked \cup {p}
    /\ UNCHANGED <<turnState, mirror, rec, run, adopted, refresher, minted, result, jobs, blind>>

\* last_result in a process without an event loop: it adopts what runs, and
\* takes the last result of the record.
PollResult(p) ==
    /\ p \notin Looped /\ result[p] = NoTurn
    /\ foreign' = [foreign EXCEPT ![p] = FALSE]
    /\ LET t == IF run[p] = NoTurn /\ foreign[p] THEN FindRunning ELSE run[p]
       IN  IF latest # NoTurn
           THEN /\ result' = [result EXCEPT ![p] = latest]
                /\ run' = [run EXCEPT ![p] = NoTurn]
                /\ adopted' = [adopted EXCEPT ![p] = FALSE]
                /\ refresher' = [refresher EXCEPT ![p] = FALSE]
           ELSE /\ run' = [run EXCEPT ![p] = t]
                /\ adopted' = [adopted EXCEPT ![p] = t # NoTurn]
                /\ refresher' = [refresher EXCEPT ![p] = t # NoTurn]
                /\ UNCHANGED result
    /\ UNCHANGED <<turnState, mirror, rec, minted, jobs, looks>>

\* The session is still its own after detach().
DetachForGood(p) ==
    /\ "detach" \in Faults /\ run[p] # NoTurn /\ p \in Looped
    /\ run' = [run EXCEPT ![p] = NoTurn]
    /\ refresher' = [refresher EXCEPT ![p] = FALSE]
    /\ UNCHANGED <<turnState, mirror, rec, adopted, foreign, minted, result, jobs, looks>>

\* detach(): the run ends here; the turn, its sandbox and record stay.
Detach(p) ==
    /\ "detach" \in Faults /\ run[p] # NoTurn /\ p \in Looped
    /\ run' = [run EXCEPT ![p] = NoTurn]
    /\ adopted' = [adopted EXCEPT ![p] = FALSE]
    /\ foreign' = [foreign EXCEPT ![p] = TRUE]
    /\ refresher' = [refresher EXCEPT ![p] = FALSE]
    /\ result' = [result EXCEPT ![p] = NoTurn]
    /\ unlooked' = unlooked \ {p}
    /\ UNCHANGED <<turnState, mirror, rec, minted, jobs, blind>>

-----------------------------------------------------------------------------
(* The end of a run.                                                       *)

\* _on_complete: the refresher stops, the record and the sandbox go.
EndRun(p) ==
    /\ result' = [result EXCEPT ![p] = run[p]]
    /\ run' = [run EXCEPT ![p] = NoTurn]
    /\ adopted' = [adopted EXCEPT ![p] = FALSE]
    /\ refresher' = [refresher EXCEPT ![p] = FALSE]
    /\ rec' = FALSE
    /\ jobs' = [jobs EXCEPT ![p] = @ \cup {run[p]}]

\* The result arrives.
Complete(p) ==
    /\ p \in Looped /\ run[p] # NoTurn /\ worker[run[p]] = "done"
    /\ EndRun(p)
    /\ UNCHANGED <<turnState, mirror, foreign, minted, looks>>

\* The run ends without it: the stream gave up, or the run was cancelled.
GiveUp(p) ==
    /\ p \in Looped /\ run[p] # NoTurn /\ worker[run[p]] # "done"
    /\ "giveup" \in Faults \/ run[p] \in gone
    /\ EndRun(p)
    /\ UNCHANGED <<turnState, mirror, foreign, minted, looks>>

\* The loop of an adopter shuts down: it leaves the turn to its owner.
LoopStops(p) ==
    /\ "shutdown" \in Faults /\ run[p] # NoTurn /\ adopted[p]
    /\ result' = [result EXCEPT ![p] = run[p]]
    /\ run' = [run EXCEPT ![p] = NoTurn]
    /\ adopted' = [adopted EXCEPT ![p] = FALSE]
    /\ refresher' = [refresher EXCEPT ![p] = FALSE]
    /\ UNCHANGED <<turnState, mirror, rec, foreign, minted, jobs, looks>>

\* The background thread deletes the sandbox, an adopter's after a delay.
DeleteSandbox(p) ==
    /\ \E t \in jobs[p] :
         /\ gone' = gone \cup {t}
         /\ jobs' = [jobs EXCEPT ![p] = @ \ {t}]
    /\ UNCHANGED <<last, worker, mirror, rec, run, adopted, foreign, refresher, minted, result, looks>>

\* The refresh thread mints a token...
Mint(p) ==
    /\ refresher[p] /\ ~minted[p]
    /\ minted' = [minted EXCEPT ![p] = TRUE]
    /\ UNCHANGED <<turnState, mirror, rec, run, adopted, foreign, refresher, result, jobs, looks>>

\* ...and records it, without another look at its stop event.
WriteToken(p) ==
    /\ minted[p]
    /\ rec' = TRUE
    /\ minted' = [minted EXCEPT ![p] = FALSE]
    /\ UNCHANGED <<turnState, mirror, run, adopted, foreign, refresher, result, jobs, looks>>

\* The process is killed, or exits; another one re-attaches in its place.
Crash(p) ==
    /\ "crash" \in Faults
    /\ run' = [run EXCEPT ![p] = NoTurn]
    /\ adopted' = [adopted EXCEPT ![p] = FALSE]
    /\ foreign' = [foreign EXCEPT ![p] = TRUE]
    /\ refresher' = [refresher EXCEPT ![p] = FALSE]
    /\ minted' = [minted EXCEPT ![p] = FALSE]
    /\ result' = [result EXCEPT ![p] = NoTurn]
    /\ jobs' = [jobs EXCEPT ![p] = {}]
    /\ unlooked' = unlooked \ {p}
    /\ UNCHANGED <<turnState, mirror, rec, blind>>

Using(p)  == Start(p) \/ Attach(p) \/ LookFails(p) \/ PollResult(p) \/ Detach(p)
Ending(p) == Complete(p) \/ GiveUp(p) \/ LoopStops(p) \/ DeleteSandbox(p)
Token(p)  == Mint(p) \/ WriteToken(p)

Next ==
    \/ \E p \in Procs : Using(p) \/ Ending(p) \/ Token(p) \/ Crash(p)
    \/ \E t \in Turns : Flush(t) \/ WorkerEnds(t)

Spec == Init /\ [][Next]_vars

\* Threads run on, runs see the end of their turn, processes use a session
\* they have re-attached, and turns end.
Fairness ==
    /\ \A p \in Procs :
         /\ WF_vars(Complete(p)) /\ WF_vars(DeleteSandbox(p))
         /\ WF_vars(Attach(p)) /\ WF_vars(WriteToken(p)) /\ WF_vars(Mint(p))
    /\ \A t \in Turns : WF_vars(WorkerEnds(t))

FairSpec == Spec /\ Fairness

-----------------------------------------------------------------------------
\* The variables have their types (SandboxSession's fields); a run that is
\* followed was started, and only an adopted or own run has a refresher.
FieldsTyped ==
    /\ last \in 0..MaxTurns /\ gone \subseteq 1..last /\ latest \in 0..last
    /\ worker \in [Turns -> {"none", "run", "done"}]
    /\ shown \in [Turns -> {"none", "start", "over"}]
    /\ run \in [Procs -> 0..last] /\ result \in [Procs -> 0..last]
    /\ \A p \in Procs : jobs[p] \subseteq 1..last /\ (refresher[p] <=> run[p] # NoTurn)
    /\ \A p \in Procs : adopted[p] => run[p] # NoTurn

\* A process that has yet to look has not failed to.
LooksTyped ==
    /\ foreign \in [Procs -> BOOLEAN] /\ blind \in BOOLEAN
    /\ unlooked \subseteq {p \in Procs : ~foreign[p]}

TypeOK == FieldsTyped /\ LooksTyped

\* The turns that run and that nobody is about to stop.
Running == {t \in Turns : worker[t] = "run" /\ t \notin gone /\ \A p \in Procs : t \notin jobs[p]}

\* A session runs one turn at a time: run() and send() look for a turn under
\* another process first (_attach) - unless that look failed, and the next
\* call started a turn without one.
OneTurn == ~blind => Cardinality(Running) <= 1

\* send() "steers that turn instead of starting a second one": not after a look
\* that failed.
NeverASecond == Cardinality(Running) <= 1

\* last_result of a process that has adopted a turn waits for that turn's
\* result.
ResultOfTheTurn ==
    [][\A p \in Procs :
         PollResult(p) /\ result'[p] # result[p] /\ FindRunning # NoTurn => result'[p] = FindRunning]_vars

\* A turn that a process follows has a token record, or gets one again:
\* the end of another run may delete it, the refresher rewrites it.
RecordComesBack ==
    \A p \in Procs : \A t \in Turns :
        run[p] = t /\ worker[t] = "run" ~> rec \/ run[p] # t \/ worker[t] # "run"

\* The sandbox of a turn whose end some run sees is deleted, whoever
\* started or adopted it.
SandboxGoes ==
    \A p \in Looped : \A t \in Turns : run[p] = t /\ worker[t] = "done" ~> t \in gone
=============================================================================
