----------------------------- MODULE CodexLedger -----------------------------
(***************************************************************************)
(* What the Codex turns of one session bill (harness/codex.py).  The       *)
(* parent thread's model calls are counted as they are notified; what the  *)
(* subagent threads spend is not on the wire and is read, when a turn      *)
(* completes, from the rollout files under CODEX_HOME/sessions, less what  *)
(* the state file says earlier turns billed.  Subagents may go on after    *)
(* the turn that started them, a rollout lags behind what its thread       *)
(* spent, and a thread that is resumed goes on in a new file.              *)
(*                                                                         *)
(* All counters of a thread are one number of tokens.  A token costs the   *)
(* price of the thread's model: 1 for the parent's model, 2 for another    *)
(* known one, and nothing can be said for an unknown one.                  *)
(***************************************************************************)
EXTENDS Integers, FiniteSets, SequencesExt

CONSTANTS Subs,        \* subagent threads
          ModelOf,     \* Subs -> {"parent", "other", "unknown"}
          Budget,      \* max_budget_usd
          MaxTurns,    \* bound: turns of the session
          MaxSpend,    \* bound: tokens of a thread, and calls of a turn
          Faulty       \* the state file may be unwritable or unreadable

\* What the constants have to satisfy.
CodexLedgerAssumption ==
  /\ IsFiniteSet(Subs) /\ ModelOf \in [Subs -> {"parent", "other", "unknown"}]
  /\ Budget \in Nat \ {0} /\ MaxTurns \in Nat \ {0} /\ MaxSpend \in Nat
  /\ Faulty \in BOOLEAN

VARIABLES
  turn,       \* turns begun
  running,    \* a turn runs
  routed,     \* this turn is charged by OpenRouter: the exact cost is known
  calls,      \* the parent thread's spend in this turn (acct)
  charged,    \* what OpenRouter charged for this turn, subagents included
  spent,      \* Subs -> tokens the thread has spent
  files,      \* Subs -> totals of the thread's rollouts, oldest first; 0: no record
  status,     \* translator.subagent_threads: "unseen", "activity" (no status),
              \* "running" or "ended"
  state,      \* the state file: Subs -> total billed by earlier turns
  result,     \* {} or {the last turn's result}
  billed,     \* history: tokens of each thread in the results so far
  lost        \* history: the state file failed once

threads == <<spent, files>>
vars == <<turn, running, routed, calls, charged, threads, status, state,
          result, billed, lost>>

None == [t \in Subs |-> 0]

Init ==
  /\ turn = 0 /\ running = FALSE /\ routed = FALSE /\ calls = 0 /\ charged = 0
  /\ spent = None /\ files = [t \in Subs |-> <<>>]
  /\ status = [t \in Subs |-> "unseen"] /\ state = None /\ result = {}
  /\ billed = None /\ lost = FALSE

----------------------------------------------------------------------------
(* The turn, as the app-server reports it.                                 *)

Begin ==   \* a new run: new accounting, a translator that has seen nothing
  /\ ~running /\ turn < MaxTurns
  /\ turn' = turn + 1 /\ running' = TRUE /\ routed' \in BOOLEAN
  /\ calls' = 0 /\ charged' = 0 /\ result' = {}
  /\ status' = [t \in Subs |-> "unseen"]
  /\ UNCHANGED <<threads, state, billed, lost>>

Call ==    \* a call of the parent thread; the caps are CodexTurn's
  /\ running /\ calls < MaxSpend /\ calls' = calls + 1 /\ charged' = charged + 1
  /\ UNCHANGED <<turn, running, routed, threads, status, state, result,
                 billed, lost>>

\* collabAgentToolCall names threads with a status; subAgentActivity only
\* names the thread, and takes no status away.
Announce(t) ==
  /\ running
  /\ \/ status' = [status EXCEPT ![t] = "running"]
     \/ status' = [status EXCEPT ![t] = IF @ = "unseen" THEN "activity" ELSE @]
     \/ /\ files[t] # <<>> /\ Last(files[t]) = spent[t]   \* ended threads are flushed
        /\ status' = [status EXCEPT ![t] = "ended"]
  /\ status' # status
  /\ UNCHANGED <<turn, running, routed, calls, charged, threads, state,
                 result, billed, lost>>

SubSpends(t) ==   \* in the turn or after it, unless the wire said it ended
  /\ turn > 0 /\ spent[t] < MaxSpend /\ status[t] # "ended"
  /\ spent' = [spent EXCEPT ![t] = @ + 1]
  /\ charged' = IF running /\ routed THEN charged + 1 ELSE charged
  /\ UNCHANGED <<turn, running, routed, calls, files, status, state, result,
                 billed, lost>>

Flush(t) ==       \* a token_count line: the thread's cumulative total
  /\ spent[t] > 0
  /\ files' = [files EXCEPT ![t] = IF @ = <<>> THEN <<spent[t]>>
                                   ELSE [@ EXCEPT ![Len(@)] = spent[t]]]
  /\ files' # files
  /\ UNCHANGED <<turn, running, routed, calls, charged, spent, status, state,
                 result, billed, lost>>

Resume(t) ==      \* a resumed thread opens a new rollout, with no record yet
  /\ running /\ Len(files[t]) = 1 /\ status[t] # "ended"
  /\ files' = [files EXCEPT ![t] = Append(@, 0)]
  /\ UNCHANGED <<turn, running, routed, calls, charged, spent, status, state,
                 result, billed, lost>>

----------------------------------------------------------------------------
(* The end of a turn.                                                      *)

\* _collect_subagent_usage: the last rollout of the thread that has a record.
Recorded(t) ==
  LET kept == {i \in DOMAIN files[t] : files[t][i] > 0}
  IN  IF kept = {} THEN 0 ELSE files[t][Max(kept)]

\* What the turn is billed for the thread, given what the state file says.
Delta(t, known) == Max({Recorded(t) - known[t], 0})

Price(t) == CASE ModelOf[t] = "parent" -> {1} [] ModelOf[t] = "other" -> {2}
              [] ModelOf[t] = "unknown" -> {}

Billable(known) == {t \in Subs : Delta(t, known) > 0}

\* _native_cost_usd: the sum, or nothing when a thread's price is unknown.
NativeCost(known) ==
  IF \E t \in Billable(known) : Price(t) = {} THEN {}
  ELSE {calls + SumFunction([t \in Billable(known) |->
                               Delta(t, known) * Max(Price(t))])}

Cost(known) == IF routed THEN {charged} ELSE NativeCost(known)

\* The cap tripped while the turn ran, or the end of the turn shows it did.
Capped(known) == ~(calls < Budget /\ \A c \in Cost(known) : c < Budget)

\* Announced threads with no rollout; announced threads still at work.
Missing == {t \in Subs : status[t] # "unseen" /\ Recorded(t) = 0}

\* Mutation: threads that still run are not reported.
PartialNever == {}

Partial == {t \in Subs : status[t] = "running"}

\* What the state file is read as: {} when it cannot be read.
Reads == {state} \union IF Faulty THEN {None} ELSE {}

\* The state file is rewritten with the totals read.
StateAfter(known) ==
  [t \in Subs |-> IF Recorded(t) > 0 THEN Recorded(t) ELSE known[t]]

\* turn/completed: read the rollouts, price them, look at the budget again,
\* report threads whose usage is missing or partial, give the result.
Completed ==
  /\ running /\ running' = FALSE
  /\ \E known \in Reads, written \in IF Faulty THEN BOOLEAN ELSE {TRUE} :
       /\ state' = IF written THEN StateAfter(known) ELSE state
       /\ lost' = (lost \/ ~written \/ known # state)
       /\ billed' = [t \in Subs |-> billed[t] + Delta(t, known)]
       /\ result' = {[subtype |-> IF Capped(known) THEN "budget" ELSE "success",
                      cost |-> Cost(known), routed |-> routed,
                      flagged |-> Missing \union Partial]}
  /\ UNCHANGED <<turn, routed, calls, charged, threads, status>>

\* A stop whose settle window ran out: a result from the accounting at hand.
StopSettled ==
  /\ running /\ running' = FALSE
  /\ result' = {[subtype |-> IF calls >= Budget THEN "budget" ELSE "interrupted",
                 cost |-> IF routed THEN {charged} ELSE {calls},
                 routed |-> routed, flagged |-> {}]}
  /\ UNCHANGED <<turn, routed, calls, charged, threads, status, state, billed, lost>>

Next == \/ Begin \/ Call \/ Completed \/ StopSettled
        \/ \E t \in Subs : Announce(t) \/ SubSpends(t) \/ Flush(t) \/ Resume(t)

Spec == Init /\ [][Next]_vars

----------------------------------------------------------------------------
(* What the results promise.                                               *)

\* Every variable has its type.
TypeOK ==
  /\ turn \in 0..MaxTurns /\ running \in BOOLEAN /\ routed \in BOOLEAN
  /\ calls \in 0..MaxSpend /\ charged \in Nat
  /\ spent \in [Subs -> 0..MaxSpend] /\ state \in [Subs -> 0..MaxSpend]
  /\ status \in [Subs -> {"unseen", "activity", "running", "ended"}]
  /\ \A t \in Subs : Recorded(t) <= spent[t]
  /\ Cardinality(result) <= 1 /\ (running => result = {}) /\ lost \in BOOLEAN

Ends == running /\ ~running'

\* However the turns end, and whatever the threads spend between them, no
\* token of a subagent is in two results, unless the state file failed.
NoTokenBilledTwice == ~lost => \A t \in Subs : billed[t] <= spent[t]

\* When a turn completes, everything the rollouts held has been billed:
\* also what a stopped turn, or a thread that outlived its turn, left behind.
\* A state file that failed can only have made it more ("a later turn
\* re-bills").
CompletedCatchesUp ==
  [][Completed => \A t \in Subs : billed'[t] >= Recorded(t)]_vars

\* A turn that is called a success cost less than the budget, the recorded
\* spend of its subagents included, whenever its cost is told.
SuccessIsWithinBudget ==
  \A res \in result : res.subtype = "success" => \A c \in res.cost : c < Budget

\* A cost is told only when every thread it bills has a price.
CostIsWhole ==
  [][\A res \in result' : Ends /\ ~res.routed /\ res.cost # {} =>
       \A t \in Subs : billed'[t] > billed[t] => ModelOf[t] # "unknown"]_vars

\* A completed turn names each thread it heard the status of, or found no
\* rollout of, whose tokens its result misses.
UndercountIsReported ==
  [][\A res \in result' : Completed =>
       \A t \in Subs : /\ spent[t] > Recorded(t)
                       /\ \/ status[t] \in {"running", "ended"}
                          \/ status[t] = "activity" /\ Recorded(t) = 0
                      => t \in res.flagged]_vars
=============================================================================
