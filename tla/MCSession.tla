------------------------------ MODULE MCSession ------------------------------
(***************************************************************************)
(* The session's components for TLC: the queue of control messages, the    *)
(* adoption of a turn by another process, the configuration of a session,  *)
(* the local runtime, the checkpoint and the transcript. As in MCEngine a  *)
(* behaviour moves one of them, its part, and the others rest in an        *)
(* initial state of theirs.                                                *)
(***************************************************************************)
EXTENDS Naturals, Sequences, TLC

CONSTANTS
    Parts,                                  \* the components that a run explores
    Senders, Flushers, QueueTurns, MaxSent, MaxStops, CallsFail,
    AdoptProcs, Looped, AdoptTurns, AdoptFaults,
    Callers, LocalRuns, MaxSends, MaxInbox,
    ReadingCallers, Readers, ReadingSends, ReadingInbox, ReadingFaults,
    Agents, Places, RepoRefs, SavedTurns, SaveFaults,
    ConfigProcs, Versions, Images, ClientKnows, ImageKnows,
    SessionChoices, LaterChoices, TurnChoices, ReapedTurnChoices, ConfigTurns, ConfigFaults,
    Inherit, Nothing

VARIABLES
    part,
    \* ControlQueue
    turn, busy, sandbox, ready, pending, flushing, pc, msg, target, worker, inbox, sent, told,
    logged, warned, moot, stops,
    \* Adoption
    last, a_worker, gone, shown, latest, rec, run, adopted, foreign, refresher, minted, result, jobs,
    unlooked, blind,
    \* SessionConfigs
    recorded, opened, stored, handle, session, g_run, turns, snapshot, read, faults,
    \* LocalSession
    cur, sess, task, status, harness, preparing, l_inbox, first, l_result, note, queue, l_pc, on,
    reads, l_sent, heard,
    \* Checkpoint
    setup, k_turn, phase, resumed, dir, memory, thread, snap, transcript, meta, rollout, k_ready,
    kept, end, saved, k_faults, unsafe, lost,
    \* SessionStore
    now, skew, seq, objects, next, unsure

-----------------------------------------------------------------------------
(* The components.                                                         *)

Control == INSTANCE ControlQueue WITH MaxTurns <- QueueTurns, Fails <- CallsFail

Adopt == INSTANCE Adoption WITH
    Procs <- AdoptProcs, MaxTurns <- AdoptTurns, Faults <- AdoptFaults, worker <- a_worker

Fields == {"harness", "repos", "tools", "schema", "env", "later"}

\* Revisions of the client and of the image that differ, and a choice for one of them.
Config == INSTANCE SessionConfigs WITH
    Procs <- ConfigProcs, Baked <- Versions, Harnesses <- Images,
    SessionChoices <- LaterChoices, MaxTurns <- ConfigTurns, MaxFaults <- ConfigFaults,
    Reaps <- FALSE, Records <- {TRUE}, Local <- FALSE, run <- g_run

KnowsAll == [v \in DOMAIN Versions |-> Fields]

\* The session outlives its config.
ReapedConfig == INSTANCE SessionConfigs WITH
    Procs <- ConfigProcs, Baked <- Versions, Harnesses <- Images,
    ClientKnows <- [p \in ConfigProcs |-> Fields], ImageKnows <- KnowsAll,
    TurnChoices <- ReapedTurnChoices, MaxTurns <- ConfigTurns, MaxFaults <- 0,
    Reaps <- TRUE, Records <- {TRUE}, Local <- FALSE, run <- g_run

\* In the local runtime, whose turns end with their process.
LocalConfig == INSTANCE SessionConfigs WITH
    Procs <- ConfigProcs, Baked <- Versions, Harnesses <- Images,
    ClientKnows <- [p \in ConfigProcs |-> Fields], ImageKnows <- KnowsAll,
    MaxTurns <- ConfigTurns, MaxFaults <- ConfigFaults,
    Reaps <- FALSE, Records <- {TRUE}, Local <- TRUE, run <- g_run

\* Coroutines that use a session; Reading: beside a reader of its events.
Local == INSTANCE LocalSession WITH
    MaxRuns <- LocalRuns, Readers <- {}, Faults <- {},
    pc <- l_pc, inbox <- l_inbox, sent <- l_sent, result <- l_result

Reading == INSTANCE LocalSession WITH
    Callers <- ReadingCallers, MaxRuns <- LocalRuns, MaxSends <- ReadingSends, MaxInbox <- ReadingInbox,
    Faults <- ReadingFaults,
    pc <- l_pc, inbox <- l_inbox, sent <- l_sent, result <- l_result

Saving == INSTANCE Checkpoint WITH
    Harnesses <- Agents, MaxTurns <- SavedTurns, MaxFaults <- SaveFaults,
    turn <- k_turn, ready <- k_ready, faults <- k_faults

Store == INSTANCE SessionStore WITH Entries <- 1..4, Unnamed <- {3}, Skews <- {0}, MaxTime <- 4

ASSUME SessionAssumption ==
    /\ Control!ControlAssumption /\ Adopt!AdoptionAssumption
    /\ Config!SessionConfigsAssumption /\ ReapedConfig!SessionConfigsAssumption /\ LocalConfig!SessionConfigsAssumption
    /\ ReapedTurnChoices \subseteq TurnChoices
    /\ Local!LocalSessionAssumption /\ Reading!LocalSessionAssumption
    /\ Saving!CheckpointAssumption /\ Store!SessionStoreAssumption

-----------------------------------------------------------------------------
(* One part moves, the others rest.                                        *)

control ==
    <<turn, busy, sandbox, ready, pending, flushing, pc, msg, target, worker, inbox, sent, told,
      logged, warned, moot, stops>>
adoption ==
    <<last, a_worker, gone, shown, latest, rec, run, adopted, foreign, refresher, minted, result, jobs,
      unlooked, blind>>
config == <<recorded, opened, stored, handle, session, g_run, turns, snapshot, read, faults>>
local ==
    <<cur, sess, task, status, harness, preparing, l_inbox, first, l_result, note, queue, l_pc, on,
      reads, l_sent, heard>>
saving ==
    <<setup, k_turn, phase, resumed, dir, memory, thread, snap, transcript, meta, rollout, k_ready,
      kept, end, saved, k_faults, unsafe, lost>>
store == <<now, skew, seq, objects, next, unsure>>

vars == <<part, control, adoption, config, local, saving, store>>

Init ==
    /\ part \in Parts
    /\ Control!Init /\ Adopt!Init /\ Config!Init /\ Saving!Init /\ Store!Init
    /\ IF part = "reading" THEN Reading!Init ELSE Local!Init
    /\ part # "saving" => setup = [harness |-> "claude", place |-> "sandbox", store |-> "gcs", repos |-> "none"]

Next ==
    /\ UNCHANGED part
    /\ \/ part = "control" /\ Control!Next /\ UNCHANGED <<adoption, config, local, saving, store>>
       \/ part = "adoption" /\ Adopt!Next /\ UNCHANGED <<control, config, local, saving, store>>
       \/ part = "config" /\ Config!Next /\ UNCHANGED <<control, adoption, local, saving, store>>
       \/ part = "reaped_config" /\ ReapedConfig!Next /\ UNCHANGED <<control, adoption, local, saving, store>>
       \/ part = "local_config" /\ LocalConfig!Next /\ UNCHANGED <<control, adoption, local, saving, store>>
       \/ part = "local" /\ Local!Next /\ UNCHANGED <<control, adoption, config, saving, store>>
       \/ part = "reading" /\ Reading!Next /\ UNCHANGED <<control, adoption, config, saving, store>>
       \/ part = "saving" /\ Saving!Next /\ UNCHANGED <<control, adoption, config, local, store>>
       \/ part = "store" /\ Store!Next /\ UNCHANGED <<control, adoption, config, local, saving>>

Spec == Init /\ [][Next]_vars

FairSpec ==
    /\ Spec
    /\ \/ part = "control" /\ Control!Fairness
       \/ part = "adoption" /\ Adopt!Fairness
       \/ part = "local" /\ Local!Fairness

-----------------------------------------------------------------------------
(* What the runs check: the components' properties, by what they are about. *)

\* Every component's variables have their types.
TypesHold ==
    CASE part = "control"       -> Control!TypeOK
      [] part = "adoption"      -> Adopt!TypeOK
      [] part = "config"        -> Config!TypeOK
      [] part = "reaped_config" -> ReapedConfig!TypeOK
      [] part = "local_config"  -> LocalConfig!TypeOK
      [] part = "local"         -> Local!TypeOK
      [] part = "reading"       -> Reading!TypeOK
      [] part = "saving"        -> Saving!TypeOK
      [] OTHER                  -> Store!TypeOK

\* A worker takes a message once, though two flushers may post it
\* (_flush_control, send_threadsafe).
TakenOnce == part = "control" => Control!TakenOnce

\* A session runs one turn at a time, in whichever process, across crashes
\* and detach(), but for a turn started after a look that failed (_attach,
\* _find_running_turn).
OneTurn == part = "adoption" => Adopt!OneTurn

\* A session's config is bound for good, the worker honours it or refuses the
\* turn, its repos stay those of the workspace, and its owner parses the
\* result with the schema the worker used (start_session, run_turn,
\* _resolve_session_config).
ConfigHolds ==
    /\ part \in {"config", "reaped_config"} => Config!BoundForGood /\ Config!WorldStays
    /\ part = "config" => Config!Honoured
    /\ part \in {"reaped_config", "local_config"} => LocalConfig!Honoured
    /\ part \in {"config", "reaped_config", "local_config"} => Config!OwnerReadsItRight

\* A local session is that of its last turn, and a turn that of its result:
\* one harness at a time, messages where they were sent, an end for readers
\* (_finalize, _on_complete, __aiter__).
LocalTurnsHold ==
    /\ part \in {"local", "reading"} =>
         Local!ResultIsKept /\ Local!SessionIsItsLastTurn /\ Local!OneHarness /\ Local!HeardWhereSent
    /\ part = "reading" => Reading!ReaderReachesTheEnd

\* A turn that resumes after one that was saved remembers it and has its
\* files, or does not run, but for transcript appends that failed and an
\* edited path; no snapshot holds a token (finalize_checkpoint, restore,
\* scrub_repo_tokens).
WhatIsSavedIsResumed ==
    part = "saving" =>
        Saving!SavedIsWhole /\ Saving!SavedTurnIsResumed /\ Saving!NoTokenInSnapshot /\ Saving!CleanFallback

\* A transcript loads as it was written (append, load).
TranscriptLoads == part = "store" => Store!LoadIsTheTranscript

\* Within a turn messages reach the worker in their order and none is
\* forgotten; once the worker listens the queue is emptied (_post_control,
\* _flush_control, _observe).
QueueDrains ==
    /\ part = "control" => Control!QueueDrains
    /\ [](part = "control" => Control!InOrder /\ Control!NoneLost)

\* A turn that a process follows has its token record, or gets one again, and
\* its sandbox goes when it is over, whoever adopted it (_attach, the refresh
\* thread, _on_complete). An interrupt of a local turn ends, though the model
\* never listens, and leaves the session idle (interrupt, _cancel_and_settle).
TurnsAreTended ==
    /\ part = "adoption" => Adopt!RecordComesBack /\ Adopt!SandboxGoes
    /\ part = "local" => Local!InterruptEnds
    /\ Local!InterruptLeavesIdle

-----------------------------------------------------------------------------
(* Values for the runs: two versions of an engine, the second of which      *)
(* bakes another CLI as its default, and other tools.                      *)

Deployed(cli, tools) ==
    [f \in Fields |-> CASE f = "harness" -> cli [] f = "repos" -> "r1" [] f = "tools" -> tools
                        [] f = "env" -> {"BASE"} [] OTHER -> "none"]

Setting(values) == [f \in Fields |-> IF f \in DOMAIN values THEN values[f] ELSE Inherit]
Plain  == Setting(<<>>)
Bound  == Setting([harness |-> "claude", repos |-> "r3", env |-> {"EXTRA"}])
\* A field of the newer revision: the opener and the second image have it.
Newer  == Setting([later |-> "on"])
Schema == Setting([schema |-> "report"])

TwoVersions == <<Deployed("claude", "all"), Deployed("codex", "few")>>
TwoImages   == <<{"claude", "codex"}, {"codex"}>>
OlderSecond == [p1 |-> Fields, p2 |-> Fields \ {"later"}]
OlderFirst  == <<Fields \ {"later"}, Fields>>
PlainOrBound  == {Plain, Bound}
BoundOrNewer  == {Bound, Newer}
PlainOrSchema == {Plain, Schema}
OnlyPlain     == {Plain}
=============================================================================
