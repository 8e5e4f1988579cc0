# A TLA+ model of harness-run

harness-run runs coding agents (Claude Code, Codex) as *turns* of *sessions*, in the calling process
or in cloud sandboxes. The modules here model what of it keeps state across steps that other actors
can get between: the hand-over of a turn to a sandbox, its event stream, control messages, adoption by
another process, the pool, deploys and teardowns, tokens, the local runtime, the loops of the two harnesses,
the proxy, the checkpoint, the configuration layers, the set-up of a cloud project.

`PROJECT.json` lists the components, the runs, the source lines each definition models, the hazards
and the theorems. This file says how to read them. Paths are relative to `harness_run/`; `backend.py` is
`runtime/sandbox/backend.py`.

| Module | What it is | Code |
|---|---|---|
| `HandOver` | a session handing its turns to sandbox workers: driver, dispatch threads, background jobs, platform, `/turn` | `backend.py`, `worker.py` |
| `AtMostOnce` | the abstract promise of a hand-over, which `HandOver` implements | |
| `HandOverProofs` | TLAPS proofs about `HandOver` | |
| `TurnStream` | the events of one turn from worker to client: live record, mirror, the switch between them | `worker.py`, `stream.py`, `backend.py` |
| `TurnStreamProofs` | TLAPS proofs about `TurnStream` | |
| `ControlQueue` | messages sent into a running turn: queue, flushers, the worker's `/control` | `backend.py`, `worker.py` |
| `Adoption` | one session in several processes: attach, detach, the lagging mirror, the token record | `backend.py`, `history.py` |
| `ReadyPool` | the roster of idle sandboxes, shared by several clients | `roster.py`, `backend.py` |
| `ServedOnce` | the abstract promise of the pool, which `ReadyPool` implements | |
| `ReadyPoolProofs` | TLAPS proofs about `ReadyPool` | |
| `EngineDeploy` | `deploy()`: templates, deploy records, cut-over, by several deployers | `backend.py`, `provider.py`, `handoff.py` |
| `EngineTeardown` | retiring a version and deleting an engine next to running clients | `backend.py`, `roster.py` |
| `ProjectSetup` | `harness-run-gcp-setup`: audit, fixes, verification, next to other administrators | `project_setup.py` |
| `RunTokens` | the storage and the model token of a turn over time | `backend.py`, `model_token.py`, `scoped_gcs.py`, `worker.py` |
| `Exec` | `exec()` across turns; `run_shell` against its timeout | `backend.py`, `worker.py`, `control.py` |
| `LocalSession` | the local runtime's sessions and `DrivenRun` on one event loop | `runtime/local.py`, `runtime/_run.py` |
| `SessionConfigs` | deployed spec, session config and turn config: who keeps, merges and reads them | `config.py`, `backend.py`, `worker.py`, `local.py` |
| `Checkpoint` | workspace snapshot and conversation of either harness, with failing stores and crashes | `checkpoint/`, `harness/codex.py`, `runtime/` |
| `SessionStore` | the transcript as batches named by clock and counter | `checkpoint/session_store.py` |
| `CodexTurn`, `CodexLedger` | the Codex loop; what its turns bill for subagents | `harness/codex.py` |
| `ClaudeTurn` | the Claude Code loop with its trackers and windows | `harness/claude_code.py`, `control.py` |
| `OpenRouterProxy` | handler threads, cost records and the end of the turn | `harness/_openrouter_proxy.py`, `_shared.py` |
| `MCHandOver` | instances of `HandOver` for TLC | |
| `MCEngine`, `MCSession`, `MCHarness` | the other components, several in a run (section 3) | |
| `EngineProofs`, `SessionProofs`, `HarnessProofs`, `ClaudeProofs` | TLAPS proofs of what their runs check; `ClaudeProofs` has the part of `MCHarness` about `ClaudeTurn` | |
| `RunTokensProofs` | TLAPS proofs about `RunTokens` | |

## 1. Inventory

What each part keeps, does, and has to get right.

**Turn hand-over** (`SandboxSession`, `_Dispatch`; `start_turn`). State: `_turn_id`, `_sandbox`, `_dispatch_slot`,
`_detached`; in the worker `_turns`. Operations: `run`/`send` on an idle session → `_submit` → a thread in `_dispatch`
(claim, `/turn`, `_reconcile`, publish, refill) → `_on_complete` → background deletes; `interrupt`, `detach`.
Hard: the thread outlives its run; answers are lost or late; the sandbox may vanish; a cancellation may fall between any
two steps. Correct when a turn runs at most once, each claimed sandbox is deleted or handed on exactly when
nobody needs it, and every run ends.

**Turn event stream** (`run_turn`, `events`; `MirrorStream`; `_stream_turn`, `_mirror_result`). Hard: two threads surface
events, a third stores them and swallows errors, the client deletes the worker at the result it sees. Correct when the
run gets each event once, in order, and the result is on record before the sandbox goes.

**Turn control** (`_post_control`, `_observe`, `_flush_control`, `_drop_pending_control`). Hard: a background flusher posts
outside its lock while the turn ends and the next one begins. Correct when messages arrive in order, once, in
their turn, and those dropped are reported.

**Adoption** (`_attach`, `_find_running_turn`, `detach`, `history.py`). Hard: the mirror lags, two processes may follow one
turn, either may die, and the look itself may fail. Correct when a session never starts a second turn next to a running one, and somebody ends it.

**Ready-pool roster** (`roster.py`, `_claim_sandbox`, `fill_pool`, `wait_until_warm`). Hard: several clients, listings that are
out of date when used, errors halfway, expiry. Correct when an entry is won by one client and no sandbox is forgotten.

**Engine life cycle** (`deploy`, `delete`, `delete_version`, `_retire_templates`). Hard: create calls whose answer is lost, two
deployers, clients that refill a pool under teardown. Correct when a version that was served stays served until the
next one is, and a teardown leaves nothing of its own and everything of others.

**Run tokens**. Hard: four caches of two tokens with clocks of their own; retries; a process that leaves.
Correct when a running turn always has tokens that work.

**exec**. Hard: the session's turn changes between two reads; a command leaves processes behind.

**Local runtime, driven run**. Hard: cancellation of driver, caller and reader at any `await`; a preparation thread that
cannot be cancelled. Correct when the first result wins, every reader ends, one turn runs at a time.

**Codex and Claude Code harnesses**. Hard: messages race the end of a turn, windows run out, tasks outlive the turn, caps are
noticed late. Correct when results count every call once, a turn ends only when nothing is pending, and a stop ends it.

**OpenRouter proxy**. Hard: handlers record after the CLI has its last byte; the turn ends meanwhile.

**Checkpoint, session store**. Hard: two stores, several objects, a crash between any two writes. Correct when nothing is
resumed that was not saved whole, and history is never lost silently.

**Spec and configuration**. Hard: three layers, kept in five places, read by processes of different revisions. Correct when a
config once bound is honoured or refused.

**Project set-up**. Hard: read-modify-write of shared policies, propagation delays, other administrators.

Left out (`not_modelled` in `PROJECT.json`): usage and price tables, skills, event classes and structured output, the
conformance kit: passes without state across calls. What is left out of a modelled part is said in section 5.

## 2. What is done and what is left

Done: the modules above, in twelve runs, and proofs of the invariants that the runs check, all but
`TranscriptLoads` (section 7).
Left, in this order:

1. The composition of `ControlQueue` with `HandOver`: `send` into a turn whose dispatch is being abandoned.
2. Legacy readers of the mirror (`tail_stream` without a turn id, `history()`).

## 3. How the runs are built

`HandOver` and `TurnStream` have runs of their own. The other components share no variables with one another in the
model, so one run checks several: the variable `part` of `MCEngine`, `MCSession` and `MCHarness` is chosen in the initial
state, a behaviour moves that component and the others rest in an initial state of theirs. A run thus explores the *sum* of
the state spaces, and its properties are conjunctions of the components' properties under the part they are about. All bounds
are constants of these modules, given in the configurations, so the theorems about `MCEngine`, `MCSession` and `MCHarness` hold for
every value of them: a part that rests keeps its invariant, and each component's invariant is proved from its own `Next` alone.

| Run | Instance | Shows |
|---|---|---|
| `hand_over` | 2 turns, 3 sandboxes (1 pooled), 2 attempts, symmetric | safety with two hand-overs alive at once |
| `hand_over_deep` | 1 turn, 4 sandboxes (2 pooled), the code's 3 attempts, fair | refinement of `AtMostOnce`, pool accounting, liveness |
| `turn_stream` | 3 events, the warning and the result; 2 failures in a row; fair | the stream, its switch and its end |
| `engine` | pool: 2 clients, 2 sandboxes, 2 attempts. deploy: 1 deployer, 3 templates, 4 deploys. teardown: 2 clients, 4 sandboxes, 2+1 versions, 2 turns. set-up: 1 person and 4 kinds of others. tokens: 150 minutes. exec: 3 turns | safety of the engine's components |
| `engine_live` | pool: 1 client. teardown: 3 versions with pools, no failing calls, no deadline. set-up: 20 projects, one person on 18 of them (one thing made, or all but one) and two at once on two, with an operator, other grants and a `deploy()`. exec: 2 turns | what they owe in the end |
| `session` | control: 2 turns, 2 messages, 1 stop. adoption: 2 processes, 3 turns, crashes, `detach`, looks that fail. configs: 2 versions, 2 processes, 2 turns, three instances. local: 2 turns, a message, interrupts behind at most one other, two callers, or one and a reader. checkpoint: 3 turns, 2 faults. transcript: 4 entries | safety of the session's components |
| `session_live` | control: 4 messages, failing calls. adoption: 2 turns, lag, shutdown, looks that fail. local: 1 turn | liveness |
| `harness` | Codex: 3 calls, 2 messages, caps 3 turns and 2 units. ledger: 2 subagents, 2 turns, a budget of 2 that the subagents can spend. Claude: 1 task and 1 message, or 2 messages. proxy: 2 parallel requests (symmetric: nothing tells requests apart, and the run has no liveness), budgets 0 and 2 | safety of the harnesses |
| `harness_live` | the same loops, smaller | every turn ends |
| `hand_over_idle`, `turn_stream_swallow`, `exec_pinned` | | disagreements (section 6) |

`CHECK_DEADLOCK FALSE` throughout: turns, messages and deploys are bounded, and a session whose turns are used up may rest
for ever. Each mutant in `PROJECT.json` is an operator just above the action it changes: a plausible slip in that code, with the
property that notices it.

## 4. Turn hand-over and event stream

### HandOver

| TLA+ | code |
|---|---|
| `driver` | where the run's task (`DrivenRun._drive`) stands: created but not yet run (*stuck* if it was cancelled by then), awaiting `to_thread(_dispatch)`, inside `_stream_turn`, before and between the two steps of `_on_complete` |
| `turn`, `held`, `detached` | `_turn_id`, `_sandbox`, `_detached` |
| `left` | turns this process left to another one with `detach()` |
| `slot[t]` | the `_Dispatch` of turn t |
| `pc`, `mine`, `tries`, `consumed`, `outcome` | program counter and local variables of t's `_dispatch`, and what it returned or raised |
| `jobs`, `owed`, `short` | background threads: deletions (of a sandbox, or of what a slot will hold), refills, refills that failed |
| `pool` | the roster |
| `box[s]` | absent, live, gone; *stray* is alive with a failed delete behind it, until its TTL |
| `running`, `known` | the worker's unfinished turn and its `_turns` |
| `late` | `/turn` requests whose caller saw an error and which may still arrive |

One action is one stretch of code between two points where another actor can get in. The
blocks under `slot.lock` (`Hold`, `Publish`, `PublishUncertain`, `Refused`, `Finalize`) are one action each,
`Finish` is the `finally` clause, and `_on_complete` is two actions (`Finalize`, `Take`) because its second
half runs after the lock is released and the dispatch thread writes `_sandbox` meanwhile.

A call is one step: answered (`CallAnswered`, in which the worker acts), not delivered
(`CallFindsGone`), or failed (`CallLost`), after which the request may be delivered at any later
time (`LateDelivery`), or never: that covers an answer lost on the way back, because the worker acts
after the caller's error just as if before it.

Abstractions:

* `SandboxGone` on the first call means that the request was never delivered, as `_hand_over` assumes of
  the platform. On later calls it settles nothing.
* The check of `slot.abandoned` at the loop head and the claim are one step; so are the check in `Hold`
  and the start of the first call. A cancellation in between is a cancellation just before or just after.
* A turn of somebody else (`Foreign`) found in a rostered sandbox ends with that sandbox.
* Entries of the pool do not expire here, and no other client takes them (that is `ReadyPool`).
* After `detach()` the session submits nothing, because it would adopt the turn first (that is `Adoption`).
* `_prune_dead`, `wait_until_warm` and retirement do not take part.
* A failed delete leaves a stray, which only its TTL ends; nothing is claimed about it.

Properties. `OneRunner`: no turn is started by two workers. `AtMostOnceSpec`: with `startedIn` read off the workers and
`verdict` off the thread's outcome, `HandOver` implements `AtMostOnce`; beyond `OneRunner` that says that a
run told "not started" is told the truth *for good*: no late request starts its turn afterwards.
`HeldIsThisTurns`: an old thread never replaces the new turn's sandbox, and the driver streams only from a worker
that has this turn. `NothingLeaks`: every live sandbox off the roster has an owner, at each moment
between claim and delete. `DetachedIsKept`: the opposite hazard. `PoolConserved`: consumed entries are
accounted for, whatever became of the attempt. `SandboxesAreReleased`, `AbandonedTurnsStop`, `RunsEnd`: what
the owner owes is done in the end. `RunsEnd` speaks of runs whose task has begun; for the others see
`hand_over_idle` below.

Bounds. Two turns are enough for an old and a new thread; a third would only repeat the pair, since a thread
touches its own slot and `_sandbox`, which the current turn alone may own. Two attempts with three
sandboxes let a turn meet a dead pool entry and a refusal, and then create a sandbox of its own;
`hand_over_deep` has the code's three attempts. The theorems below remove these bounds.

Fairness: threads are scheduled, each call has a time-out, `_reconcile` ends at its deadline (strong
fairness of `Settles`: between two calls it is not enabled), background threads are not daemons, so
they finish even at exit. Nothing is assumed of callers or of the platform.

Proofs. `HandOverProofs` proves `StartInv` inductive:

* `ClaimsAreDistinct`: threads hold different sandboxes, none still on the roster;
* `ThreadsAreConsistent`: what a thread's position says of its variables;
* `StartsAreSettled`: wherever turn t has started, **or a request under way may still start it**
  (`Reachable`), is the sandbox its thread has now, and the thread has not called it refused. That
  is the heart: `OneRunner` alone says nothing of requests still under way, and is not inductive.

From it follow `TypeCorrect`, `StartedOnce` and `Implements` (each step of `HandOver` is a `Start`, a `Settle` or
a stutter of `AtMostOnce`).

Its second part strengthens it to `OwnInv`:

* `SlotsAreConsistent`: the slot mirrors its thread, and is the current turn's unless it is abandoned or finished;
* `DriverIsConsistent`: what the session holds is the current turn's, and nothing scheduled deletes it yet;
* `SandboxIsPassedOn`: after the thread has ended, its sandbox has exactly one successor in charge: the run,
  another process, or a scheduled delete;
* `DeletesAreOfEndedTurns`, `ClaimedHasThread`: no delete hits another thread's sandbox.

From it follow `NoLeak`, `DetachedStays` and `HeldIsCurrent`. All of these hold for every set of turns and
sandboxes and every number of attempts, from the one assumption `ConstantsAssumption`. TLC has checked
`OwnInv` on two turns and two sandboxes. `PoolKeepsItsSize` proves `PoolConserved` for a finite pool: the pairs of a thread and
an entry it consumed are counted by way of a bijection with the entries. Only model-checked: the liveness properties.

### TurnStream

| TLA+ | code |
|---|---|
| `record`, `done` | `TurnRecord.events`, `.done` |
| `queue`, `mirror` | the `MirrorStream` queue with what it has buffered; the lines stored in the bucket |
| `surfacer`, `sampler` | where the turn's thread and the sampler's thread stand inside `surface` |
| `ack` | the writer's answer about the result (`raw.mirror`), "failed" also after `RESULT_MIRROR_WAIT_S` |
| `lost` | who failed to store a line |
| `mode`, `yielded`, `failures` | `_stream_turn`: polling, in the tail, ended; its local variables |
| `skip`, `poll`, `listed`, `tailed` | lines to skip; the tail's last look at the mirror; its position |
| `delivered`, `verdict` | what the run got; how the stream ended |

`surface` appends to the record and to the queue in two steps, without a lock around both, in two threads. `Flush`
takes any prefix of the queue, which covers every grouping into batches, and stores it or
swallows the error. `Vanish` is the platform at any moment; `Complete` is the end of the run: the client's own write
of a result that the worker could not store, then the delete.

Abstractions: one mirror writer per turn, its objects in the order written (the clock in their names does not go
back); at most one memory warning (`_pressure_fired`); resource samples, which the tail filters out, are left out;
a status event after the result is left out; the worker's process does not restart within its sandbox.

Properties. `SwitchIsSeamless`: as long as mirror and live record have the same lines (`Agree`: one is a prefix of
the other), the run gets a prefix of what was surfaced, wherever the switch falls, so counting is enough then.
`EndsTruthfully`: under the same condition no run is told that there is no result when the last look at the mirror
showed one. `ResultIsRecorded`: a run that saw the result leaves it on the mirror before the sandbox goes, unless
the client's own write failed; no condition on the worker's writes. `StreamEnds`: every stream ends.

Bounds: three harness events, the warning and the result, and two failures in a row before the mirror (three in the
code; the count only delays the switch). Three events allow a switch after a seen, a stored and a queued event at once.

Fairness: the client's loop runs and its calls time out; `max_wait_s` ends the tail between two looks
(strong: it is between them again and again); a sandbox has a TTL. The harness may hang.

Proofs. `TurnStreamProofs` proves, for any number of events and failed polls, that

    StreamInv == TypeOK /\ PollsAreCounted /\ DeliveredIsRead /\ VerdictIsSeen /\ AnswerIsTrue

is inductive, and from it `TypeOK`, `ResultIsRecorded`, `SwitchIsSeamless` and `EndsTruthfully`. None of these is inductive alone:
they speak of the end, and need what was true at every line before. `DeliveredIsRead` says that the run has the lines it saw of
the live record, followed by those of the mirror after as many; with `Agree` that is a prefix of one of the two.
`VerdictIsSeen` says that a stream that goes on has not seen the result, in the record or in the mirror, so a skipped
line cannot hold it unless the two disagree. `AnswerIsTrue` says that the live copy of the result comes after the writer's
answer, and that an answer "stored" is true. Under them lies a fact about every step: record and mirror only grow.
`StreamEnds` is liveness and stays with TLC.

## 5. The other components

For each: how state and steps correspond to the code, what is abstracted, what is claimed. One action is one stretch of
code between two points where another actor can get in (an `await`, a released lock, a call).

### ControlQueue

`turn`, `busy`, `sandbox`, `ready`, `pending`, `flushing` are the session's fields; `pc`, `msg`, `target` the threads that send or
flush; `worker`, `inbox` the `/control` end with its `_seen`. The queue and its flag change under `_control_lock` in one step
each; a post is three (read sandbox and turn, call, pop), so turns may end and begin between them. A turn stands for its
sandbox. Claims: `TakenOnce`; within a turn `InOrder` and `NoneLost` (queued, taken, or reported to somebody); `QueueDrains`
once the worker listens. Across turns a message *can* be lost or stray (section 6), so those claims are made for one turn
with four messages and failing calls. Fairness: threads run, calls end.

`MessagesTakenOnce` proves `TakenOnce` for any number of senders, flushers, turns and messages: `_seen` alone decides, whoever posts.

`NoMessageIsLost` proves `NoneLost` within a turn (`QueueTurns = 1`) for any number of senders, flushers, messages and interrupts. The invariant
`KeepsInv`: one flusher is at work at most (`OneFlush`); what it posts is the head of the queue, unless the queue was emptied meanwhile, and it takes
that head off only when the worker or the log has it (`HeadIsPosted`); every message is in the queue, with the worker, reported, or in its sender's hands. The hypothesis is needed: `ControlQueuePop` loses a message with two turns.

`MessagesKeepTheirOrder` proves `InOrder` under `OneByOne`: one turn, no interrupt, one sender. `OrderInv` puts the messages of the
sender in one line: what the worker has taken comes before what is being posted, that before what waits, and that before what the sender has in hand.
After an interrupt a flusher's message that is under way may arrive behind a later one that was posted directly, and two senders
may post in another order than they were numbered: `InOrder` is then about a different order from the callers' and is left to TLC's instances.

### Adoption

Turns are numbers and stand for their sandboxes; the mirror shows nothing, the start, or the result of a turn, late if
`"lag"` is among the faults. A process has `_foreign_check`, its run, a refresh thread that mints and then
records a token, and background deletes; it may have an event loop (a delayed delete needs one) or only poll; it may
crash, detach, or shut its loop down. `_attach` clears `_foreign_check` and then reads the session's record and the mirror: if a read
fails (`LookFails`), the caller gets the exception and the next `run` or `send` starts a turn without a look (`unlooked`, `blind`).
Claims: `OneTurn` (crashes and `detach`, no lag: with lag it fails, section 6; and unless a turn was started after a look that failed: then it
fails too, `NeverASecond` in section 6);
`RecordComesBack`: the end of another run may delete the token record, the refresher writes it again; `SandboxGoes`. Fairness:
threads run on, turns end, and a process that re-attached uses its session.

`OneTurnAtATime` proves `OneTurn` for any number of processes and turns under `OneLoop`: one process has an event loop, and no process
both gives a turn up and dies before it has deleted the turn's sandbox. Failed looks are among its steps, and no hypothesis excludes them; once one was
followed by a start, `OneTurn` says nothing. The second condition is needed: TLC finds two turns when
`AdoptFaults` has both `"crash"` and `"giveup"`, because the delete dies with the process; two loops that start at once also give two. The
invariant says what became of each earlier turn: it is over, its sandbox is gone, or, where no process dies, about to be deleted.

### ReadyPool

`roster` is the set of entries; an entry has a name of its own, so the generation of the conditional delete stands for "still
there". A client walks a listing (`rows`, `dated`) that may be old and deletes one entry at a time; any delete may fail with or
without effect; entries expire in the order of creation; refills create, then record; `wait_until_warm` removes without a
precondition; a client may crash. `mislaid` is a history variable: sandboxes a failure made somebody forget (an error
later in a listing loses what was won before it: the code leaves those to their TTL). Claims: `OneHolder`, `NoneForgotten` (but for the
mislaid), `ReleasedInTheEnd`. Fairness: a client's threads run and its calls time out; nobody has to submit.

`ReadyPoolProofs` proves `OneHolder` and `NoneForgotten` for any number of clients, sandboxes and attempts, from `PoolAssumption`.
The inductive invariant adds that what one client claimed, pruned and has yet to record are different sandboxes
(`HoldsApart`), that it holds something only while its claim or its turn is open (`ClaimsAreOpen`: the next `claim` starts
with nothing in hand), and that what is idle or held was created (`HeldWereCreated`: a sandbox just created is nobody's). The
proof uses nothing of what the listings contain: the conditional delete alone decides. A listing is the set of entries it names, walked
in the order of creation. `EngineProofs` lifts the results to `MCEngine`.

`ServesOneClaim` proves that `ReadyPool` implements `ServedOnce`, a pool without listings or calls in which a sandbox serves one claim: a
client creates it for itself or fills it in, it is idle once at most, one client takes it, for a turn or as expired, and what was used never
becomes idle again. The mapping `Stage` reads the stage of a sandbox off the roster and off what the clients hold. The invariant `RosterInv` adds to
the above that whatever a client read in a listing, however long ago, was created, so that no step of the code starts from a sandbox that is not there
yet. A crash, or an error halfway through a listing, is a step of several sandboxes at once.

### EngineDeploy, EngineTeardown

A template is a number, what it pins is one value. `deploy` is list, create (whose answer may be lost), poll, reap, record,
cut over; any call may fail, the process may die. `AlwaysServed`: once a deploy had a version to serve there is one, *for one
deployer at a time*; `RecordFits`, `DeployIsServed`. Two deployers break `RecordFits` (section 6). The image build is left out,
so are `get_engine`'s warnings and `list_engines`.

`EngineTeardown` is `delete`, `delete_version` and `_retire_templates` next to clients that claim, refill and end turns, with a
second engine whose name extends the first one's. `NothingSurvives`: of the sandboxes the engine had when `delete` began none is
left; `ClearedAreDeleted`; `OtherIsLeftAlone`; `TurnsAreSpared`: only the sweep of `delete` ends turns; `VersionGoes`: a retired version
goes once the turns of its clients are over, *unless* a client that still uses it fills its pool again after `roster.clear` (`Refilled`). Then its template
keeps a sandbox until that expires, and `_retire_templates` logs "not deleted (retry via delete_version)". TLC violates the claim without that
condition. Two more limits: the ten minutes of `_retire_templates` do not pass first (`Deadline = FALSE`), and turns are bounded (`MaxUses`), so a version in steady use is
outside it. Fairness: the teardown runs on, clients end their turns.

Proofs, in `EngineProofs`. `OneDeployerServes` proves `DeployServes` for one deployer, any images, templates and deploys, with lost answers
and crashes. While it creates, the deployer knows of every template but its own, which is the newest (`OwnIsNew`);
two deployers break just that. `SandboxesOwned` proves the rest of `SandboxesAreOwned` for the teardown: a sandbox is in one
place - roster, cleared, a turn's, a refill's, or forgotten by a failed call - and the sweep of `delete` has passed those it
listed. From the same invariant and three lemmas about which steps delete, `OthersSpared` proves `OtherIsLeftAlone` and `TurnsAreSpared`.

`TypesKept` proves `TypesHold` of `MCEngine`, for all values of the constants, the bounds included: each component's `TypeOK` with what makes it
inductive. What a deployer listed, makes, polls or retires was made and pins an image (`DeployTyped`, any number of deployers); the rounds of the
set-up stay below `MaxRounds` while it fixes, and policies name what exists (`SetupTypes`; `todo` is a set, taken in the order of the
report); the command `exec` holds is of a started turn; an expiry lies within what a mint gives and a retry is
sooner than the horizon of the refresh, as in the code (5 minutes against 10).

### ProjectSetup

The project is its services, things, grants, rules, permissions and terms; the tool audits (one step: it changes nothing), asks,
applies the open rows in their order, a grant being a read and a write of a policy with its etag, and audits again, five rounds at
most. Enabled services lag, new accounts cannot be named at once. Others grant, add rules and permissions, or `deploy` (which ensures
the lifecycle rules). `GrantsKept`: no write removes somebody's grant; `VerifiesWhatIsReady`; `BecomesReady`: whoever runs the tool
again while the project is not ready makes it ready, if the model's terms are accepted and if Artifact Registry is not the service that is off where
those of the gate (resource manager, IAM, storage) are on: from there every audit raises (`ReadyFromAnyProject`, section 6). `engine_live` starts from an empty project, one with
services but nothing made, each single thing made, each single thing missing, the two exempt cases, and two projects on which two people run it
at the same time; an operator account is managed, and others grant and `deploy` meanwhile. Rules and permissions that others add, grants left by hand and `--verify` are in `engine`, for safety. Fairness: the tool runs, people say yes in the
end (strong: they are asked again) and run it again; delays end. Left out: a soft-deleted role, optional models, the
image build. `OthersSpared` proves `GrantsKept` and `VerifiesWhatIsReady` for any project and any others: what the
project has it keeps (`ProjectGrows`: a policy is written only with the etag it was read with), so whatever is open now was open in
every audit (`AuditsSaw`).

### RunTokens

Time is in minutes and passes only when what is due has been done; the 60 s retry is one minute. Six expiry times: of the
body's tokens, the record, the worker's credentials and what they show google-auth, the metadata server's, the CLI's.
`StorageLives` and `ModelLives` hold with dispatches up to ten minutes, one failed storage mint, six failed model pushes, one failed read;
two failed storage mints in a row lose the token by design of its horizon. `AdoptedInTime`: `left` is the instance in which a process
leaves and another adopts within eight minutes; 35 minutes is too long (section 6). 150 minutes see every cache replaced twice.

`RunTokensProofs` proves the three for every value of the times, with no bound on the minutes, under `Timely`: the
refresh comes before a token's life is used up by the failures and the absence that the instance allows, and a dispatch is shorter than the
cadence. That is the arithmetic behind the constants of the code; the code's own values, which are the runs', satisfy it. The invariant keeps, for each cache, how long
its token outlasts the next moment it is replaced (`RecordLasts`, `ServedLasts`, `HeldLasts`, `CliLasts`). `TokensStayLive` lifts it to `MCEngine`.

### Exec

One call of `exec` crosses up to three turns: it waits for the dispatch, reads the sandbox, then the turn, posts; the worker
checks both. `run_shell` is shell, child and timeout: a child stays in the process group, leaves it ("session"), or closes its
pipes ("quiet"). `RunsWhereNamed`: never in another turn's workspace; `NothingLeftAtTheTimeout` and `TimeoutFreesTheWorker` for
commands that stay in their group (with "session" it fails: `exec_pinned`); `ExecReturns`. A command owes nothing; loop, threads
and clock go on. The local session's `exec` is `run_shell` alone. `CommandRunsWhereNamed` and `NothingIsLeft` prove the first
two for any number of turns.

### LocalSession

Coroutines on one event loop: callers that start, steer, await, interrupt or cancel; the driver of each run; the harness; the thread
that prepares the workspace; readers. A step is what runs between two awaits. Steer and interrupt-with-message are one kind;
0 in the channel is stop. Claims: `ResultIsKept` (the first result event wins over crash and cancellation), `SessionIsItsLastTurn`,
`OneHarness`, `HeardWhereSent`, `ReaderReachesTheEnd`, `InterruptLeavesIdle`, `InterruptEnds`. Instances: two callers; one caller that may be
cancelled, with a reader. Fairness: ready tasks and timers run; the model owes nothing. Left out: the package environment.

`LocalTurns` proves the five safety claims for any number of callers, turns and messages, under `OneReader`: events have one reader (a
queue hands each item out once) and no run is cancelled before its task began (`hand_over_idle`'s case, which ends in no result). The
invariant pairs what the loop has per turn - task, harness, inbox, queue, result - with the session's fields, and keeps the end at the tail of
each queue until the reader leaves.

`InterruptsLeaveIdle` proves `InterruptLeavesIdle` where no caller is cancelled: `interrupt` returns only when its turn is over, so the invariant need only add
that a waiting caller waits for a turn there is (`CallersWait`). A cancelled caller's `interrupt` returns at once, by its shield, and is left out.

### SessionConfigs

An overlay gives each field a value or `INHERIT`; fields are abstract, `env` is a union. Kept in: the deploy record, the
session object, `session-config/<sid>.json`, the `/turn` body, the mirror. Claims: `BoundForGood` (not for the local
runtime, where a failed read loses the config), `Honoured`: the worker runs what was set or refuses; `WorldStays`: the repos stay
those of the workspace; `OwnerReadsItRight`: the schema of the parser is the worker's. Instances: processes and images of two
revisions; a session that outlives its config (its turns without an overlay in the run); the local runtime. Checkpointing is on; validation and encoding are left out.

`ConfigsHold` proves `ConfigHolds` for the three instances, any versions, processes and turns, under `OneWorld`: the versions declare the same
repos and turns declare none. A deploy that changes the repos breaks `WorldStays`, since a session without a config of its own takes them from the
version. The invariant follows one config through its five copies: each is the bound one, or (once it was reaped) none.

### Checkpoint, SessionStore

A turn is a number, a workspace the set of turns whose edits it has, a conversation the set of turns the model remembers. Two
harnesses; machines that are new, the session's directory, or the caller's; repos by branch or commit; a GCS or file store (which
writes in place, so a crash leaves a broken object). Any operation may fail, the process may die between two: two faults over
three turns. An append to Claude Code's transcript may fail too: the store raises, the SDK's message about it is passed over, and
`finalize_checkpoint` reports the checkpoint saved all the same. The turn is then not in the transcript (`lost`), and `SavedIsWhole` and `SavedTurnIsResumed`
exempt it (section 6: `SavedIsInTheStore`). What an agent of the session left in `meta.json` may be a path outside Codex's sessions (`EditMeta`); a resume then starts a fresh
conversation with a warning (`StartFresh`), which `SavedTurnIsResumed` exempts as well. `SavedIsWhole`, `SavedTurnIsResumed`, `NoTokenInSnapshot`, `CleanFallback`. A commit-pinned repo is cloned anew by
`rmtree`; an overlay restore keeps what was there; Codex metadata without its rollout makes later resumes raise.
`SessionStore`: batches named by clock and counter; an append whose answer was lost may be repeated; `LoadIsTheTranscript` when
machines' clocks agree; an entry without a uuid may be there twice.

`SavedIsResumed` proves the four claims about checkpoints for any number of turns and faults, failed appends and edited paths among them. The invariant says, per kind of store and
place, what a later turn would find now (`LastIsResumable`, `HasItsFiles`, `FreshMachine`), since the claims speak of the moment of
resuming only. `LoadIsTheTranscript` is about a recursive fold over what was stored, and stays with TLC.

### CodexTurn, CodexLedger

`CodexTurn` is the loop over notifications and control messages (`ControlledStream`'s two reads are `stask` and `ctask`), the two caps, the
settle window and the continuation on a new Codex turn. One model call costs one unit. The app-server is external. Left out: a `thread.turn` that
raises when the run continues (`codex.py:1266`), which ends the run with that exception. `CallsAreCounted`,
`CapIsReported`, `ResultIsTheAnswer`, `DeliveredOnce`, `ContinuesFromTheLatest`, `RunEnds`. Fairness: the loop runs and the app-server ends each
of its turns or dies.

`CodexLedger` is what results bill for subagents: rollout files that lag, threads that outlive their turn or are resumed, the state file
that may fail, models without a price, OpenRouter's exact charge. `NoTokenBilledTwice` (unless the state file failed), `CompletedCatchesUp`,
`SuccessIsWithinBudget`, `CostIsWhole`, `UndercountIsReported`. The budget of the run is what the subagents can spend: only then can a stop settle
with the budget used up, a result that is neither interrupted nor billed further.

Proofs, in `HarnessProofs`. `CodexReports` proves the first four for any caps and any number of messages, calls and texts. `CallsAreCounted` needs that a
call is counted or its notification unread (`CallsAreKept`), and that the turn's last notification is read last (`LastIsLast`); `DeliveredOnce`
that each message is in one place: channel, read, waiting, delivered or refused (`Placed`, shared with `ClaudeTurn`, whose loop handles messages
alike). `SubagentsBilled` proves the five of the ledger, with and without a failing state file: what is billed, what the state says and what
the rollouts hold are ordered per thread (`StateIsBilled`, `RolloutsLag`).

### ClaudeTurn

The loop with `_TaskTracker`, `_SteerTracker`, the demoted results, the windows and the housekeeping of a resumed
conversation. The CLI is external: it assembles a call from what is queued, gives output, reports tasks. *Assumption* (`Quiet`): a window
of 3 to 20 s runs out only when the CLI, which reacts in milliseconds, has nothing left that was asked of it before the window
was opened. `PromptIsAnswered`, `TasksAreAwaited`, `MessagesAreHeard` (unless the message was written while a boundary was on
its way or into an open window), `StopDecides`, `TurnEnds` though tasks never do. Left out: messages only passed on, structured-output candidates,
and what an OpenRouter turn adds to this loop: the interrupt when its cap is reached (`claude_code.py:994`) and the subtypes that `_final_result` writes over the
result's (`:550`: no final text, a spent budget). So "interrupted exactly when a stop came last" is said of the loop; the proxy's end of the turn is in `OpenRouterProxy`.

`OperatorDecidesAlways` proves `StopDecides`, and `ContinuesFromTheLatest` of `CodexTurn`, for any number of messages, tasks and calls. The invariant
says that while the turn goes on a stop waits to settle exactly when it came last (`StopWaits`), that nothing waits between invocations,
where an interrupt acts at once (`BetweenIsSettled`), and that only a CLI that is gone says so (`GoneIsTold`): the last two rule out that
a window or a death ends the turn over a waiting stop.

`ClaudeEnds` (`ClaudeProofs`) proves the rest of `ClaudeEndsRight`, `PromptIsAnswered`, `TasksAreAwaited` and `MessagesAreHeard`, for any number
of messages, tasks and calls. They speak of the end; before it, what the loop knows must be completed by what it has not read yet. The
invariant `TurnInv` therefore speaks of the *line*: the CLI's queue in the order in which the loop will read it. While the turn goes on
(`Going`), what was given to the CLI is in its queue or was in a call (`WorkIsKnown`); a message still in that queue is with the tracker, and no boundary that
would stage it is on its way (`MessagesAreKept`); a task that runs or is to be reported is known to the tracker or will be when the line is read, and at each
result on the line there is something to wait for, unless the CLI rests (`TasksAreKept`); an invocation opens between any two results
(`AnswersAlternate`), so a window is not closed by the invocation before; until the prompt is in a call the line is of the housekeeping (`PromptIsFirst`), whose
empty result the loop knows for one (`ChoresAreTold`) and only an operator's interrupt takes for an answer (`CutByHand`).

`TypesKept`, in the same module, proves `TypesHold` of `MCHarness` for all four components: counters stay within their bounds, since each call is
counted or unread (`CallsAreKept`), waits only for the latest window (`WaitingIsLatest`), a handler is one of those started (`HandlersAreCounted`),
and charges are of calls there were (`SpendIsBounded`); a tracker holds what it was given. The lemmas of the other three close `HarnessProofs`.

### OpenRouterProxy

A response is head and tail, the charge is in the tail. A turn ends in one of three ways: Codex's (`Tell`, `QuoteCodex`: the cap it saw first stands, be it `max_turns`, unless the
proxy answered 402), Claude Code's (`QuoteClaude`: the cost decides), and Codex's when an operator's stop is not confirmed within the settle window (`StopSettles`): no wait, no drain, no look at the
caps. `EachToldOnce`, `IdleWhenDone`, `ReceivedIsQuoted`, `CapIsTheVerdict`,
`ZeroSpendsNothing`. `CapIsTheVerdict` is about the first two ends: a spent cap makes the result one over its budget, or over the `max_turns` that Codex saw
first, and a 402 one over its budget. The third may end as interrupted with the cap spent (`SpentCapIsAnError`, section 6). `ReceivedIsQuoted` does not cover a request that passed the budget check and is not counted yet when the
wait looks (`OpenRouterProxyQuote`). `DrainIsBounded` under fairness of the harness's steps alone. `docs/openrouter.md:89` says itself that concurrent requests may pass the cap; two run in parallel
here. Left out: the token check (401), bytes, routing objects.

`ProxyQuotes` proves the five safety claims for any requests, costs and budgets: the invariant says where a handler stands with each request, that the
records are those of handlers that got so far, each once, and that the drained part of them is what was told.

## 6. Where the code and its documentation disagree

Three are runs, with a finding in `PROJECT.json`:

* `hand_over_idle`: `interrupt` promises to "leave the session idle and resumable" (`backend.py:1500`). Its fallback cancels
  the run's task, and asyncio never executes the body of a task that is cancelled before its first step: `session.run(...)` directly
  followed by `await session.interrupt()` leaves a run that is never done and a session that is busy for ever.
* `turn_stream_swallow`: `_stream_turn` "ends with the mirror's terminal result" (`backend.py:204`). It skips as many lines as it
  has seen, so a mirror that misses one of them has its result skipped: the run is told that the mirror holds none.
* `exec_pinned`: a command "can never pin a worker" (`control.py:105`). After `killpg` the second `communicate()` has no
  limit (`:185`), and a child with a session of its own keeps the pipes open.

The others are configurations that TLC violates: `tlc -config X.cfg Module`.

| Config | Module | What happens |
|---|---|---|
| `HandOverPosts` | `MCHandOver` | "nothing more is posted" once abandoned (`backend.py:1142`): `_reconcile` does not look (`:1219`) |
| `TurnStreamTwice` | `TurnStream` | warning and event in another order on the mirror: one is delivered twice, the other never |
| `ControlQueuePop` | `ControlQueue` | a flusher of the last turn pops a message of the next that nobody posted (`:850`, against `:732`) |
| `ControlQueueStray` | `ControlQueue` | a message reaches the worker of the next turn (`:812`, against `:736`) |
| `AdoptionSecond` | `Adoption` | after `detach` a mirror that lags does not show the turn: a second one starts (`:1392`, against `:1580`) |
| `EngineDeployTwo` | `EngineDeploy` | a deployer takes another's new template for its own and records its own spec for it (`provider.py:357`, `handoff.py:115`) |
| `RunTokensDetach` | `RunTokens` | a turn adopted within the "about 35 minutes" that `detach` names may have lost a token before (`backend.py:1567`) |
| `ExecNext` | `Exec` | `exec` answers from the turn after the one it was called in (`backend.py:1484`, against `:1455`) |
| `LocalSessionLost` | `LocalSession` | a message accepted at the end of a turn is neither heard nor reported (`local.py:249`; `docs/runs-and-sessions.md:123`) |
| `CheckpointThread` | `Checkpoint` | a crash between metadata and rollout pairs a thread with another's rollout (`codex.py:922`, `:951`) |
| `CodexTurnCap` | `CodexTurn` | a capped run goes on in a new Codex turn (`codex.py:1360`, against `:24`) |
| `ClaudeTurnAck` | `ClaudeTurn` | a `user` event precedes a turn whose model never got the message (`claude_code.py:755`; `control.py:20`) |
| `OpenRouterProxyRace` | `OpenRouterProxy` | the next request passes the check before the last one's cost is recorded (`_openrouter_proxy.py:392`; `docs/openrouter.md:87`) |
| `OpenRouterProxyQuote` | `OpenRouterProxy` | a record comes after a drain that did not time out (`:444`; `_shared.py:226`) |

Nine more are properties without a configuration of their own; TLC violates each on a small instance of its module:

| Property | Module | Instance | What happens |
|---|---|---|---|
| `ResultOfTheTurn` | `Adoption` | 2 processes, one looped, 2 turns, no faults | `last_result` answers with an earlier turn's (`:1690`, against `:1682`) |
| `OnePreparation` | `LocalSession` | 1 caller, 2 runs, no sends | the cancelled turn's preparation still runs when the next one's begins (`local.py:291`, against `:165`) |
| `FreshPathCanClone` | `Checkpoint` | Claude, local, a branch, 2 turns, 1 fault | after a failed restore the fresh path finds files and cannot clone (`workspace.py:67`, `local.py:500`) |
| `ChoresAreNoFallback` | `ClaudeTurn` | 1 task, 1 message, 1 call, all operations | the empty result of the housekeeping becomes the result when the CLI dies (`:920`, against `:937`) |
| `NeverASecond` | `Adoption` | 2 processes, one looped, 2 turns, faults `"detach"` and `"unreadable"` | `_attach` clears `_foreign_check` before its two reads; one fails, and the next `send` starts a second turn next to the running one (`:1392`, against "steers that turn instead of starting a second one", `:744`) |
| `SavedIsInTheStore` | `Checkpoint` | Claude, local, 2 turns, 1 fault | a turn whose transcript append failed reports `checkpoint_saved` (`_shared.py:312`, `session_store.py:88`, against "resumable on another worker", `claude_code.py:414`) |
| `ReadyFromAnyProject` | `ProjectSetup` | 1 person, fair; the services but Artifact Registry are on | the audit reads the repository, raises, and no fix is ever offered (`project_setup.py:801`, against "re-audits until the project is ready", `:5`) |
| `SpentCapIsAnError` | `OpenRouterProxy` | 1 request, cost 2, budget 2 | a stop that Codex does not confirm ends the run as interrupted with its cap spent (`codex.py:1291`, against "hard caps ... the run ends with the matching stop reason", `docs/configuration.md:98`) |
| `WholeBodyIsRecorded` | `OpenRouterProxy` | 2 requests, one at a time, cost 1, budget 2 | a body that arrived whole before a cut is not recorded (`:478`, `:480`) |

The properties of the passing runs are stated so that they hold beside these: under `Agree` in `TurnStream`, within a turn in
`ControlQueue`, without lag and with looks that succeed for `OneTurn`, of the two ends that drain for `CapIsTheVerdict`, for one deployer, for adoption within eight minutes, and so on.

## 7. Only model-checked, and not modelled

The theorems are listed in `PROJECT.json`. TLC had checked every inductive invariant on the run's instance before it was proved. One attempt showed that
a property was wrong: `CompletedCatchesUp` and `UndercountIsReported` of `CodexLedger` were said of every turn that ends uninterrupted, and a
stop whose settle window runs out with the budget spent ends as "budget" without having billed anew. The run had missed it, its budget
being more than could be spent; both now speak of completed turns, and the budget can be spent.

Hypotheses of the theorems beyond the modules' assumptions on their constants: a finite pool (`PoolKeepsItsSize`), one deployer
(`OneDeployerServes`), `Timely`, `OneLoop`, `OneReader`, `OneWorld`, one turn (`NoMessageIsLost`), `OneByOne`. Sections 4 and 5 say why each is needed.
The runs' constants satisfy them; the last two are those of `session_live`.

The type invariants (`TypesHold` of `MCEngine`, `MCSession`, `MCHarness`) need no hypothesis. That of the session says of the control queue that every message
waiting, posted, taken or told of was sent; of an adoption that what is shown, followed or deleted was started, and that of the turns shown one is
the latest, so that `_find_running_turn` finds one; of the configuration that a run is followed in a session that is open, resolved and has an engine, and
that failures stay within their bound in each of the three instances; of a checkpoint that it is of turns there were.

Everything else is checked by TLC on the instances of section 3 alone:

* liveness, which is out of the provers' reach: `SandboxesAreReleased`, `AbandonedTurnsStop`, `RunsEnd`, `StreamEnds` and the properties of
  `engine_live`, `session_live` and `harness_live`. The safety claims that these runs add are proved on their own, since a property with liveness in it
  is not stated by a theorem: `NoneLost`, `InOrder` of `ControlQueue`, and `InterruptLeavesIdle` of `LocalSession`;
* `TranscriptLoads`: what a recursive fold computes for every input needs induction over data.

Not modelled: provider SDKs and storage adapters (external in `PROJECT.json`'s map where a component calls them); the image
build; price tables; skills; event classes; the conformance kit; listings for humans. Components with status `partly` name what they miss.

## 8. Running the checks

    tlc -config HandOver.cfg MCHandOver        # HandOverDeep, HandOverIdle, HandOverPosts
    tlc -config TurnStream.cfg TurnStream      # TurnStreamSwallow, TurnStreamTwice
    tlc -config Engine.cfg MCEngine            # EngineLive
    tlc -config Session.cfg MCSession          # SessionLive
    tlc -config Harness.cfg MCHarness          # HarnessLive
    tlc -config ExecPinned.cfg Exec
    tlapm HandOverProofs.tla                   # TurnStreamProofs, ReadyPoolProofs, RunTokensProofs,
                                               # EngineProofs, SessionProofs, HarnessProofs, ClaudeProofs

One component of a run: give `Parts` in its configuration that component alone. `SessionProofs`, `HarnessProofs` and `ClaudeProofs` take ten to
twenty minutes each, `EngineProofs` six, the others up to three.
