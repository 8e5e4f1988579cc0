--------------------------- MODULE OpenRouterProxy ---------------------------
(***************************************************************************)
(* The local proxy of one OpenRouter turn (harness/_openrouter_proxy.py),  *)
(* the CLI that calls it and the end of the turn in either harness.  Every *)
(* request has a handler thread of its own: it checks the budget, forwards *)
(* the request, passes the answer on and records what it cost.  The        *)
(* harness reads the records from its event loop, meanwhile and when the   *)
(* CLI is done.                                                            *)
(*                                                                         *)
(* A response is its first bytes ("head") and its last ones ("tail"),      *)
(* which carry the charge.  A read of 64 KiB returns when it has them all  *)
(* or the response ends, never with what has arrived so far.               *)
(***************************************************************************)
EXTENDS Integers, FiniteSets, SequencesExt

CONSTANTS Requests,    \* the requests the CLI may send
          Costs,       \* what a response may cost
          Budgets,     \* the values of max_budget_usd to look at
          Parallel,    \* requests the CLI keeps open at a time
          None         \* no cost reported

\* What the constants have to satisfy.
ProxyAssumption ==
  /\ IsFiniteSet(Requests) /\ Costs \subseteq Nat /\ Budgets \subseteq Nat
  /\ Parallel \in Nat \ {0} /\ None \notin Nat

VARIABLES
  budget,    \* max_budget_usd
  binding,   \* the harness: "claude" or "codex"
  cli,       \* request -> "unsent", "open", "seen" (whole answer), "failed",
             \* "refused" (402) or "left" (the CLI no longer listens)
  handler,   \* request -> where its thread is
  up,        \* request -> what OpenRouter has sent: "none", "head" or "tail"
  link,      \* request -> the connection to OpenRouter: "open", "eof", "cut"
  answer,    \* request -> {} or {[ok, charge, reported]}
  got,       \* request -> what the handler has read and passed on
  records,   \* _requests
  active,    \* _active_requests
  drained,   \* _drained
  blocked,   \* budget_blocked
  phase,     \* the harness: "running", "waiting", "draining", "telling",
             \* "quoting" or "ended"
  limit,     \* the cap codex ends the turn for: "none", "max_turns" or "budget"
  complete,  \* what wait_until_idle returned
  unknown,   \* openrouter_cost_unknown was yielded
  exact,     \* the cost codex has read for the result
  result,    \* {} or {the result}: [cost, verdict, settled]
  told,      \* history: the records yielded as events
  due        \* history: requests seen whole, and refused ones, when the CLI ended

calls  == <<cli, handler, up, link, answer, got>>
ledger == <<records, active, drained, blocked, told>>
turn   == <<phase, limit, complete, unknown, exact, result, due>>
vars   == <<budget, binding, calls, ledger, turn>>

Init ==
  /\ budget \in Budgets /\ binding \in {"claude", "codex"}
  /\ cli = [r \in Requests |-> "unsent"] /\ handler = [r \in Requests |-> "none"]
  /\ up = [r \in Requests |-> "none"] /\ link = [r \in Requests |-> "open"]
  /\ answer = [r \in Requests |-> {}] /\ got = [r \in Requests |-> "none"]
  /\ records = <<>> /\ active = 0 /\ drained = 0 /\ blocked = FALSE
  /\ phase = "running" /\ limit = "none" /\ complete = FALSE /\ unknown = FALSE
  /\ exact = None /\ result = {} /\ told = <<>> /\ due = {}

ExactCost ==
  LET priced == SelectSeq(records, LAMBDA q : q.cost # None)
  IN  IF priced = <<>> THEN None ELSE FoldLeft(LAMBDA sum, q : sum + q.cost, 0, priced)

Reaches(cost) == cost # None /\ cost >= budget

OverBudget == budget = 0 \/ Reaches(ExactCost)

----------------------------------------------------------------------------
(* The CLI and OpenRouter.                                                 *)

Send(r) ==
  /\ phase = "running" /\ cli[r] = "unsent"
  /\ Cardinality({q \in Requests : cli[q] = "open"}) < Parallel
  /\ cli' = [cli EXCEPT ![r] = "open"] /\ handler' = [handler EXCEPT ![r] = "check"]
  /\ UNCHANGED <<up, link, answer, got, ledger, turn>>

Leave(r) ==   \* an interrupt, a timeout of the CLI's own, a subagent dropped
  /\ cli[r] = "open" /\ cli' = [cli EXCEPT ![r] = "left"]
  /\ UNCHANGED <<handler, up, link, answer, got, ledger, turn>>

CliEnds ==    \* the CLI's last message, which makes the harness finish
  /\ phase = "running" /\ \A r \in Requests : cli[r] # "open"
  /\ phase' = "waiting" /\ due' = {r \in Requests : cli[r] \in {"seen", "refused"}}
  /\ UNCHANGED <<calls, ledger, limit, complete, unknown, exact, result>>

UpEnds(r) ==  \* the rest of it, or a connection that breaks before or after that
  /\ handler[r] = "reading" /\ link[r] = "open"
  /\ \E last \in {"head", "tail"}, how \in {"eof", "cut"} :
       /\ how = "eof" => last = "tail"
       /\ up' = [up EXCEPT ![r] = last] /\ link' = [link EXCEPT ![r] = how]
  /\ UNCHANGED <<cli, handler, answer, got, ledger, turn>>

----------------------------------------------------------------------------
(* _forward, in the handler's thread.                                      *)

Hears(r, what) == cli' = [cli EXCEPT ![r] = IF @ = "open" THEN what ELSE @]

Go(r, where) == handler' = [handler EXCEPT ![r] = where]

Refuse(r) ==  \* 402
  /\ handler[r] = "check" /\ OverBudget
  /\ blocked' = TRUE /\ Hears(r, "refused") /\ Go(r, "done")
  /\ UNCHANGED <<up, link, answer, got, records, active, drained, told, turn>>

Admit(r) ==   \* within the budget: the body is read and looked at next
  /\ handler[r] = "check" /\ ~OverBudget /\ Go(r, "admitted")
  /\ UNCHANGED <<cli, up, link, answer, got, ledger, turn>>

Reject(r) ==  \* 411, or 400: another model, a body that cannot carry a provider
  /\ handler[r] = "admitted" /\ Hears(r, "failed") /\ Go(r, "done")
  /\ UNCHANGED <<up, link, answer, got, ledger, turn>>

Begin(r) ==
  /\ handler[r] = "admitted" /\ active' = active + 1 /\ Go(r, "calling")
  /\ UNCHANGED <<cli, up, link, answer, got, records, drained, blocked, told, turn>>

ConnectFails(r) ==   \* 502
  /\ handler[r] = "calling"
  /\ Hears(r, "failed") /\ Go(r, "done") /\ active' = active - 1
  /\ UNCHANGED <<up, link, answer, got, records, drained, blocked, told, turn>>

\* The headers of an answer: a priced one, one whose charge is not
\* reported, or an error that costs nothing.
Respond(r) ==
  /\ handler[r] = "calling" /\ Go(r, "reading") /\ up' = [up EXCEPT ![r] = "head"]
  /\ \/ \E c \in Costs, reported \in BOOLEAN :
          answer' = [answer EXCEPT ![r] = {[ok |-> TRUE, charge |-> c,
                                            cost |-> IF reported THEN c ELSE None]}]
     \/ answer' = [answer EXCEPT ![r] = {[ok |-> FALSE, charge |-> 0, cost |-> None]}]
  /\ UNCHANGED <<cli, link, got, ledger, turn>>

\* The loop over response.read: captured before it is written to the CLI,
\* whose hanging up ends the loop.
ReadHead(r) ==   \* 64 KiB of it are there
  /\ handler[r] = "reading" /\ got[r] = "none"
  /\ got' = [got EXCEPT ![r] = "head"]
  /\ Go(r, IF cli[r] = "left" THEN "captured" ELSE "reading")
  /\ UNCHANGED <<cli, up, link, answer, ledger, turn>>

ReadRest(r) ==   \* a length that fell short looks like the end
  /\ handler[r] = "reading" /\ link[r] # "open"
  /\ got' = [got EXCEPT ![r] = up[r]] /\ Go(r, "captured")
  /\ Hears(r, IF up[r] = "tail" THEN "seen" ELSE "failed")
  /\ UNCHANGED <<up, link, answer, ledger, turn>>

ReadTimesOut(r) ==   \* an OSError: what was captured stands
  /\ handler[r] = "reading" /\ link[r] = "open"
  /\ Go(r, "captured") /\ Hears(r, "failed")
  /\ UNCHANGED <<up, link, answer, got, ledger, turn>>

ReadIncomplete(r) == \* a chunked body that breaks off: no OSError
  /\ handler[r] = "reading" /\ link[r] = "cut"
  /\ Go(r, "done") /\ Hears(r, "failed") /\ active' = active - 1
  /\ UNCHANGED <<up, link, answer, got, records, drained, blocked, told, turn>>

\* _capture_request: the charge is in the tail, the provider may be in the
\* head.  An error is recorded whatever it carries.
Found(r) ==
  LET a == CHOOSE a \in answer[r] : TRUE
      whole == [of |-> r, cost |-> a.cost]
      partial == [of |-> r, cost |-> None]
  IN  CASE got[r] = "tail" /\ a.cost # None -> {<<whole>>}
        [] a.ok /\ got[r] = "tail" /\ a.cost = None -> {<<>>, <<whole>>}
        [] a.ok /\ got[r] = "head" -> {<<>>, <<partial>>}
        [] a.ok /\ got[r] = "none" -> {<<>>}
        [] OTHER -> {<<partial>>}

Record(r) ==
  /\ handler[r] = "captured" /\ \E found \in Found(r) : records' = records \o found
  /\ Go(r, "recorded")
  /\ UNCHANGED <<cli, up, link, answer, got, active, drained, blocked, told, turn>>

End(r) ==
  /\ handler[r] = "recorded" /\ active' = active - 1 /\ Go(r, "done")
  /\ UNCHANGED <<cli, up, link, answer, got, records, drained, blocked, told, turn>>

Handle(r) ==
  \/ Refuse(r) \/ Admit(r) \/ Reject(r) \/ Begin(r) \/ ConnectFails(r)
  \/ ReadRest(r) \/ ReadIncomplete(r) \/ Record(r) \/ End(r)

----------------------------------------------------------------------------
(* The harness.                                                            *)

Drained ==
  /\ told' = told \o SubSeq(records, drained + 1, Len(records))
  /\ drained' = Len(records)

Drain ==      \* with every message of the CLI
  /\ phase = "running" /\ drained < Len(records) /\ Drained
  /\ UNCHANGED <<calls, records, active, blocked, turn>>

\* After a message codex interrupts the CLI for the first cap it sees reached
\* and remembers which.  Claude Code's own stop leaves nothing behind.
CapStop ==
  /\ phase = "running" /\ binding = "codex" /\ limit = "none"
  /\ \/ limit' = "max_turns"
     \/ Reaches(ExactCost) /\ limit' = "budget"
  /\ UNCHANGED <<calls, ledger, phase, complete, unknown, exact, result, due>>

\* Mutation: the end of the turn does not ask whether handlers are busy.
WaitUnasked ==
  /\ phase = "waiting" /\ phase' = "draining" /\ complete' = TRUE
  /\ UNCHANGED <<calls, ledger, limit, unknown, exact, result, due>>

WaitIdle ==
  /\ phase = "waiting" /\ phase' = "draining" /\ complete' = (active = 0)
  /\ UNCHANGED <<calls, ledger, limit, unknown, exact, result, due>>

DrainLast ==
  /\ phase = "draining" /\ phase' = "telling" /\ Drained
  /\ UNCHANGED <<calls, records, active, blocked, limit, complete, unknown, exact,
                 result, due>>

\* Codex reads the cost here and takes it for a cap when none was seen; the
\* 402 is a budget's whatever was.  Claude only looks whether there is a cost.
Verdict == CASE blocked                              -> "budget"
             [] limit = "none" /\ Reaches(ExactCost) -> "budget"
             [] OTHER                                -> limit

Tell ==
  /\ phase = "telling" /\ phase' = "quoting"
  /\ exact' = ExactCost /\ unknown' = (ExactCost = None)
  /\ limit' = IF binding = "codex" THEN Verdict ELSE limit
  /\ UNCHANGED <<calls, ledger, complete, result, due>>

\* The result of a turn: its cost and the cap it ends for, "none" when that is
\* the CLI's own end (a success, an error of its own, the operator's stop).
Ends(cost, verdict, settled) ==
  phase' = "ended" /\ result' = {[cost |-> cost, verdict |-> verdict, settled |-> settled]}

QuoteCodex ==
  /\ phase = "quoting" /\ binding = "codex" /\ Ends(exact, limit, FALSE)
  /\ UNCHANGED <<calls, ledger, limit, complete, unknown, exact, due>>

QuoteClaude ==   \* the cost again, which may have grown
  /\ phase = "quoting" /\ binding = "claude"
  /\ Ends(ExactCost, IF blocked \/ Reaches(ExactCost) THEN "budget" ELSE "none", FALSE)
  /\ UNCHANGED <<calls, ledger, limit, complete, unknown, exact, due>>

\* Codex did not confirm the operator's stop within the settle window: the
\* turn ends as it stands, with no wait, no drain and no look at the caps.
StopSettles ==
  /\ phase = "running" /\ binding = "codex" /\ Ends(ExactCost, limit, TRUE)
  /\ due' = {r \in Requests : cli[r] \in {"seen", "refused"}}
  /\ UNCHANGED <<calls, ledger, limit, complete, unknown, exact>>

Harness == WaitIdle \/ DrainLast \/ Tell \/ QuoteCodex \/ QuoteClaude

Next ==
  \/ \E r \in Requests :
       \/ Send(r) \/ Leave(r) \/ UpEnds(r) \/ Handle(r)
       \/ Respond(r) \/ ReadHead(r) \/ ReadTimesOut(r)
  \/ CliEnds \/ Drain \/ CapStop \/ StopSettles \/ Harness

config == <<budget, binding>>

Spec == Init /\ [][Next /\ UNCHANGED config]_vars

(* The harness's own steps are taken: it waits for no handler longer than  *)
(* METADATA_DRAIN_TIMEOUT_S.                                               *)
Fairness == WF_vars(Harness /\ UNCHANGED config)

FairSpec == Spec /\ Fairness

----------------------------------------------------------------------------
Stages == {"none", "check", "admitted", "calling", "reading", "captured",
           "recorded", "done"}

TypeOK ==
  /\ budget \in Budgets /\ binding \in {"claude", "codex"}
  /\ cli \in [Requests -> {"unsent", "open", "seen", "failed", "refused", "left"}]
  /\ handler \in [Requests -> Stages]
  /\ up \in [Requests -> {"none", "head", "tail"}]
  /\ got \in [Requests -> {"none", "head", "tail"}]
  /\ link \in [Requests -> {"open", "eof", "cut"}]
  /\ \A i \in DOMAIN records : records[i].of \in Requests /\ records[i].cost \in Costs \cup {None}
  /\ active \in 0 .. Cardinality(Requests) /\ drained \in 0 .. Len(records)
  /\ blocked \in BOOLEAN /\ limit \in {"none", "max_turns", "budget"} /\ unknown \in BOOLEAN
  /\ phase \in {"running", "waiting", "draining", "telling", "quoting", "ended"}

(* A response is recorded once at most and yielded once at most, however   *)
(* the handlers' records and the harness's drains interleave, and the      *)
(* events keep the order of the records (drain_events).                    *)
EachToldOnce ==
  \A i, j \in DOMAIN told : told[i].of = told[j].of => i = j

(* When every thread is done none is counted as active, on whichever path  *)
(* it left (_end_request): else every drain of the turn would time out.    *)
IdleWhenDone == (\A r \in Requests : handler[r] \in {"none", "done"}) => active = 0

(* drain_proxy: when the wait did not run out, what the CLI had received   *)
(* whole and OpenRouter reported a charge for is in the records the result *)
(* quotes and in the events before it, although the handlers record after  *)
(* the CLI has the last bytes.                                             *)
ReceivedIsQuoted ==
  (result # {} /\ complete) =>
    \A r \in due : (cli[r] = "seen" /\ (CHOOSE a \in answer[r] : TRUE).cost # None) =>
      \E i \in 1 .. drained :
        told[i] = [of |-> r, cost |-> (CHOOSE a \in answer[r] : TRUE).cost]

(* A turn that ends with its CLI's last message and had spent its cap, or   *)
(* met the 402 of the proxy, ends as one over its budget (_final_result,   *)
(* codex's limit), whenever it was noticed - or, its cap spent, as one     *)
(* over the max_turns that codex saw first.                                *)
CapIsTheVerdict ==
  \A q \in result : ~q.settled =>
    /\ Reaches(q.cost) => q.verdict = "budget" \/ (binding = "codex" /\ q.verdict = "max_turns")
    /\ (\E r \in due : cli[r] = "refused") => q.verdict = "budget"

(* A zero budget reaches OpenRouter with no request, priced or not.        *)
ZeroSpendsNothing == budget = 0 => \A r \in Requests : answer[r] = {}

(* The result comes although handlers hang: the wait for their records is  *)
(* bounded (METADATA_DRAIN_TIMEOUT_S).                                     *)
DrainIsBounded == phase = "waiting" ~> phase = "ended"

----------------------------------------------------------------------------
(* What the documentation and the comments say and the code does not do.   *)

Charged ==
  LET charge(r) == (CHOOSE a \in answer[r] : TRUE).charge
  IN  FoldLeft(LAMBDA sum, r : sum + charge(r), 0,
               SetToSeq({r \in Requests : answer[r] # {}}))

(* "One response may take the total above the cap.  The proxy then refuses *)
(* the next request": with a CLI that sends one request at a time.         *)
OneResponseOver ==
  (budget > 0 /\ \A r \in Requests : \A a \in answer[r] : a.cost = a.charge)
    => \E c \in Costs : Charged < budget + c

(* max_budget_usd is a hard cap and the run ends with the matching error,  *)
(* also when the operator stopped it and codex did not confirm.            *)
SpentCapIsAnError == \A q \in result : Reaches(q.cost) => q.verdict # "none"

(* drain_proxy lets the proxy finish recording before the result quotes    *)
(* its total: nothing is recorded after a wait that did not run out.       *)
QuoteIsFinal ==
  [][(result # {} /\ complete) => records' = records]_vars

(* A body that arrived complete has its cost recorded, however the         *)
(* connection ends.                                                        *)
WholeBodyIsRecorded ==
  \A r \in Requests : handler[r] = "done" =>
    (up[r] = "tail" /\ cli[r] # "left" => \E i \in DOMAIN records : records[i].of = r)
=============================================================================
