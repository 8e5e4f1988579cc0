------------------------------ MODULE MCHarness ------------------------------
(***************************************************************************)
(* The harnesses' components for TLC: a turn of Codex, the bills of a      *)
(* Codex session, a turn of Claude Code and the OpenRouter proxy. As in    *)
(* MCEngine a behaviour moves one of them, its part, and the others rest   *)
(* in an initial state of theirs.                                          *)
(***************************************************************************)
EXTENDS Naturals, Sequences, TLC

CONSTANTS
    Parts,                                  \* the components that a run explores
    CallCap, CostCap, CodexMsgs, CodexCalls, CodexTexts,
    SubModels,                              \* the model of each subagent's thread
    LedgerBudget, LedgerTurns, LedgerSpend, FaultySpend,
    ClaudeTasks, ClaudeMsgs, ClaudeCalls, TalkedMsgs, ClaudeOps,
    Requests, Costs, Budgets, Parallel, NoCost

VARIABLES
    part,
    \* CodexTurn
    pc, priced, handle, serving, wire, stask, ctask, inbox, sent, waiting, limit, calls, final,
    surfaced, refused, result, made, texts, taken, expired,
    \* CodexLedger
    turn, running, routed, l_calls, charged, spent, files, status, state, l_result, billed, lost,
    \* ClaudeTurn
    c_pc, mode, cutting, queued, heard, begun, live, chores, c_wire, c_stask, c_ctask, c_inbox,
    c_sent, phase, tasks, steers, resume, window, c_waiting, demoted, c_surfaced, c_result,
    c_taken, unsure, gaveUp,
    \* OpenRouterProxy
    budget, binding, cli, handler, up, link, answer, got, records, active, drained, blocked,
    p_phase, p_limit, complete, unknown, exact, p_result, told, due

-----------------------------------------------------------------------------
(* The components.                                                         *)

Codex == INSTANCE CodexTurn WITH
    MaxTurns <- CallCap, MaxBudget <- CostCap, MaxMsgs <- CodexMsgs, MaxCalls <- CodexCalls,
    MaxTexts <- CodexTexts

Ledger == INSTANCE CodexLedger WITH
    Subs <- DOMAIN SubModels, ModelOf <- SubModels, Budget <- LedgerBudget, MaxTurns <- LedgerTurns,
    MaxSpend <- LedgerSpend, Faulty <- FALSE, calls <- l_calls, result <- l_result

\* The state file may fail.
FaultyLedger == INSTANCE CodexLedger WITH
    Subs <- DOMAIN SubModels, ModelOf <- SubModels, Budget <- LedgerBudget, MaxTurns <- LedgerTurns,
    MaxSpend <- FaultySpend, Faulty <- TRUE, calls <- l_calls, result <- l_result

\* A turn with background tasks; a turn with messages and no tool.
Claude == INSTANCE ClaudeTurn WITH
    Tasks <- ClaudeTasks, MaxMsgs <- ClaudeMsgs, MaxCalls <- ClaudeCalls, Ops <- ClaudeOps,
    pc <- c_pc, wire <- c_wire, stask <- c_stask, ctask <- c_ctask, inbox <- c_inbox, sent <- c_sent,
    waiting <- c_waiting, surfaced <- c_surfaced, result <- c_result, taken <- c_taken

Talked == INSTANCE ClaudeTurn WITH
    Tasks <- {}, MaxMsgs <- TalkedMsgs, MaxCalls <- 0, Ops <- ClaudeOps,
    pc <- c_pc, wire <- c_wire, stask <- c_stask, ctask <- c_ctask, inbox <- c_inbox, sent <- c_sent,
    waiting <- c_waiting, surfaced <- c_surfaced, result <- c_result, taken <- c_taken

Proxy == INSTANCE OpenRouterProxy WITH
    None <- NoCost, phase <- p_phase, limit <- p_limit, result <- p_result

ASSUME HarnessAssumption ==
    /\ Codex!CodexTurnAssumption
    /\ Ledger!CodexLedgerAssumption /\ FaultyLedger!CodexLedgerAssumption
    /\ Claude!ClaudeTurnAssumption /\ Talked!ClaudeTurnAssumption
    /\ Proxy!ProxyAssumption

-----------------------------------------------------------------------------
(* One part moves, the others rest.                                        *)

codex ==
    <<pc, priced, handle, serving, wire, stask, ctask, inbox, sent, waiting, limit, calls, final,
      surfaced, refused, result, made, texts, taken, expired>>
ledger == <<turn, running, routed, l_calls, charged, spent, files, status, state, l_result, billed, lost>>
claude ==
    <<c_pc, mode, cutting, queued, heard, begun, live, chores, c_wire, c_stask, c_ctask, c_inbox,
      c_sent, phase, tasks, steers, resume, window, c_waiting, demoted, c_surfaced, c_result,
      c_taken, unsure, gaveUp>>
proxy ==
    <<budget, binding, cli, handler, up, link, answer, got, records, active, drained, blocked,
      p_phase, p_limit, complete, unknown, exact, p_result, told, due>>

vars == <<part, codex, ledger, claude, proxy>>

Init ==
    /\ part \in Parts
    /\ Codex!Init /\ Ledger!Init /\ Claude!Init /\ Proxy!Init
    /\ part # "codex" => priced
    /\ part \notin {"claude", "talked"} => ~chores /\ ~resume.opening
    /\ part # "proxy" => budget = 0 /\ binding = "codex"

Next ==
    /\ UNCHANGED part
    /\ \/ part = "codex" /\ Codex!Next /\ UNCHANGED <<ledger, claude, proxy>>
       \/ part = "ledger" /\ Ledger!Next /\ UNCHANGED <<codex, claude, proxy>>
       \/ part = "faulty_ledger" /\ FaultyLedger!Next /\ UNCHANGED <<codex, claude, proxy>>
       \/ part = "claude" /\ Claude!Next /\ UNCHANGED <<codex, ledger, proxy>>
       \/ part = "talked" /\ Talked!Next /\ UNCHANGED <<codex, ledger, proxy>>
       \/ /\ part = "proxy" /\ Proxy!Next /\ UNCHANGED <<budget, binding>>
          /\ UNCHANGED <<codex, ledger, claude>>

Spec == Init /\ [][Next]_vars

FairSpec ==
    /\ Spec
    /\ \/ part = "codex" /\ Codex!Fairness
       \/ part = "claude" /\ Claude!Fairness
       \/ part = "proxy" /\ Proxy!Fairness

-----------------------------------------------------------------------------
(* What the runs check: the components' properties, by what they are about. *)

\* Every component's variables have their types, and a run that is done has
\* its result.
TypesHold ==
    CASE part = "codex"         -> Codex!TypeOK
      [] part = "ledger"        -> Ledger!TypeOK
      [] part = "faulty_ledger" -> FaultyLedger!TypeOK
      [] part = "claude"        -> Claude!TypeOK
      [] part = "talked"        -> Talked!TypeOK
      [] OTHER                  -> Proxy!TypeOK

\* The result of a Codex run counts every call across interrupts, names the
\* cap that was reached and carries the last answer; the model gets no message
\* twice, nor one reported as refused (_run, _result_event, continue_with).
CodexReportsTruly ==
    part = "codex" =>
        Codex!CallsAreCounted /\ Codex!CapIsReported /\ Codex!ResultIsTheAnswer /\ Codex!DeliveredOnce

\* No token of a subagent is billed twice, a success is within the budget, a
\* completed turn bills what the rollouts hold and names what it misses, and
\* no cost is told that a thread without a price is part of
\* (_collect_subagent_usage, _native_cost_usd, _result_event).
SubagentsAreBilled ==
    /\ [](part \in {"ledger", "faulty_ledger"} => Ledger!NoTokenBilledTwice /\ Ledger!SuccessIsWithinBudget)
    /\ FaultyLedger!CompletedCatchesUp /\ Ledger!CostIsWhole /\ FaultyLedger!UndercountIsReported

\* A Claude Code turn that succeeds answered its prompt, waited for its
\* background tasks and gave the model the operator's messages (_run,
\* _TaskTracker, _SteerTracker).
ClaudeEndsRight ==
    part \in {"claude", "talked"} =>
        Claude!PromptIsAnswered /\ Claude!TasksAreAwaited /\ Claude!MessagesAreHeard

\* A Codex turn is started for the latest interrupt only, and the loop of a
\* Claude Code turn ends it as interrupted exactly when a stop came last,
\* whichever message, answer or window came first (continue_with, deliver).
OperatorDecides ==
    /\ Codex!ContinuesFromTheLatest
    /\ [](part \in {"claude", "talked"} => Claude!StopDecides)

\* What OpenRouter charged for answers the CLI has is in the result once, a
\* spent cap is its verdict unless codex did not confirm a stop, a zero budget spends nothing and no handler
\* that left is waited for (drain_proxy, _capture_request, _forward).
ProxyQuotesRight ==
    part = "proxy" =>
        /\ Proxy!EachToldOnce /\ Proxy!IdleWhenDone /\ Proxy!ReceivedIsQuoted
        /\ Proxy!CapIsTheVerdict /\ Proxy!ZeroSpendsNothing

\* A turn ends in either harness, though background tasks never do and
\* handlers of the proxy hang.
HarnessTurnsEnd ==
    /\ part = "codex" => Codex!RunEnds
    /\ part = "claude" => Claude!TurnEnds
    /\ part = "proxy" => Proxy!DrainIsBounded

-----------------------------------------------------------------------------
(* Values for the runs.                                                    *)

\* The requests of the proxy are alike.
RequestSymmetry == Permutations(Requests)

\* A subagent on another known model beside one on a model without a price.
UnlikeModels == [s1 |-> "other", s2 |-> "unknown"]
=============================================================================
