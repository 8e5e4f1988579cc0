--------------------------- MODULE SessionConfigs ---------------------------
(***************************************************************************)
(* What a turn is configured with, and who knows it: the deployed spec of  *)
(* a version, the SessionConfig bound when the session starts, and the     *)
(* TurnConfig of one turn (config.py; backend.py get_engine, _bind_config, *)
(* _resolve_session_config, _client_spec, _attach; handoff.py; worker.py   *)
(* run_turn; local.py).  One session, several processes that open it, come *)
(* back to it and read its results, new versions of the engine, reads that *)
(* fail, and the rule that reaps old configs.  The hand-over is HandOver's *)
(* and the mirror shows a start at once (Adoption has it late): a turn is  *)
(* with its worker the moment it is submitted.                             *)
(***************************************************************************)
EXTENDS Integers, Sequences, FiniteSets

CONSTANTS Procs,
          Fields,          \* of a spec that an overlay can set
          Inherit,         \* INHERIT
          Nothing,         \* no config object
          Baked,           \* the spec of each version, in the order deployed
          Harnesses,       \* the CLIs in the image of each version
          ClientKnows,     \* the fields the revision of each process understands
          ImageKnows,      \* ... and the worker of each version
          SessionChoices, TurnChoices,   \* overlays the callers use
          MaxTurns,        \* bound
          MaxFaults,       \* reads of the bucket that fail, at most
          Reaps,           \* the session may outlive CONFIG_LIFECYCLE_DAYS
          Records,         \* a deploy writes its record: {TRUE}, or BOOLEAN if it may be cut short
          Local            \* runtime/local.py in place of the sandbox

\* What the constants have to satisfy.
SessionConfigsAssumption ==
  /\ {"harness", "repos", "schema"} \subseteq Fields /\ Nothing \notin SessionChoices
  /\ {MaxTurns, MaxFaults} \subseteq Nat
  /\ Reaps \in BOOLEAN /\ Local \in BOOLEAN /\ Records \subseteq BOOLEAN
  /\ Len(Baked) \in Nat \ {0} /\ Len(Harnesses) = Len(Baked) /\ Len(ImageKnows) = Len(Baked)

VARIABLES
  recorded,   \* versions so far: whether each has its deploy record
  opened,     \* the config the session was opened with, or Nothing before
  stored,     \* session-config/<sid>.json, or Nothing
  handle,     \* of each process: the version it addresses, and whether it knows its spec
  session,    \* of each process: what its session object holds
  run,        \* of each process: the turn it follows, and the schema it will read its result with
  turns,      \* every turn handed to a worker
  snapshot,   \* the repos of the checkpointed workspace, or "none"
  read,       \* the runs whose results were built
  faults

vars == <<recorded, opened, stored, handle, session, run, turns, snapshot, read, faults>>

NoHandle == [version |-> 0, known |-> FALSE]
NoSession == [open |-> FALSE, resolved |-> FALSE, foreign |-> FALSE, config |-> Nothing]
NoRun == [turn |-> 0, adopted |-> FALSE, schema |-> "none", informed |-> FALSE]

\* An overlay that sets nothing: None, or a config without set fields.
Unset == [f \in Fields |-> Inherit]

SetFields(c) == {f \in Fields : c[f] # Inherit}

\* apply_session_config, apply_turn_config: extra_env alone is added to what is there.
Apply(spec, c) ==
  [f \in Fields |-> IF c[f] = Inherit THEN spec[f]
                    ELSE IF f = "env" THEN spec[f] \cup c[f] ELSE c[f]]

\* from_dict: a field this revision does not have is refused.
Understands(known, c) == SetFields(c) \subseteq known

\* validate_harness_choice.
HarnessBaked(v, spec) == spec["harness"] \in Harnesses[v]

\* _fallback_spec: all that a handle without the deploy record knows is the name.
FallbackSpec == [f \in Fields |-> IF f = "env" THEN {} ELSE "none"]

ClientSpec(p, session_config, turn_config) ==
  LET h == handle[p]
  IN Apply(Apply(IF h.known THEN Baked[h.version] ELSE FallbackSpec, session_config), turn_config)

\* The DrivenRun of a turn: the schema it will parse the result with.
Follows(p, t, adopted, session_config, turn_config) ==
  [turn |-> t, adopted |-> adopted, schema |-> ClientSpec(p, session_config, turn_config)["schema"],
   informed |-> handle[p].known]

Init ==
  /\ recorded \in {<<k>> : k \in Records}
  /\ opened = Nothing /\ stored = Nothing /\ snapshot = "none"
  /\ handle = [p \in Procs |-> NoHandle]
  /\ session = [p \in Procs |-> NoSession]
  /\ run = [p \in Procs |-> NoRun]
  /\ turns = <<>> /\ read = {} /\ faults = 0

\* deploy() of a spec that differs: one more template, and its record unless it is cut short.
Deploy ==
  /\ Len(recorded) < Len(Baked)
  /\ \E k \in Records : recorded' = Append(recorded, k)
  /\ UNCHANGED <<opened, stored, handle, session, run, turns, snapshot, read, faults>>

MayFail == faults < MaxFaults /\ faults' = faults + 1

\* get_engine without a version: the newest; a record that cannot be read counts as none.
GetEngine(p) ==
  /\ handle[p] = NoHandle
  /\ LET v == Len(recorded)
     IN \/ handle' = [handle EXCEPT ![p] = [version |-> v, known |-> recorded[v]]] /\ faults' = faults
        \/ handle' = [handle EXCEPT ![p] = [version |-> v, known |-> FALSE]] /\ MayFail /\ ~Local
  /\ UNCHANGED <<recorded, opened, stored, session, run, turns, snapshot, read>>

\* A local session checks its harness when it is made.
Admits(p, c) == Local => HarnessBaked(handle[p].version, Apply(Baked[handle[p].version], c))

\* start_session: the config is stored before the session exists, and nothing for an empty one.
StartSession(p) ==
  /\ handle[p] # NoHandle /\ opened = Nothing
  /\ \E c \in SessionChoices :
       /\ Understands(ClientKnows[p], c) /\ Admits(p, c)
       /\ opened' = c
       /\ stored' = IF c = Unset THEN stored ELSE c
       /\ session' = [session EXCEPT ![p] = [open |-> TRUE, resolved |-> TRUE, foreign |-> FALSE, config |-> c]]
  /\ UNCHANGED <<recorded, handle, run, turns, snapshot, read, faults>>

\* What is stored, read by p: only a missing object says that the session has none.
Found == IF stored = Nothing THEN Unset ELSE stored

\* _load_persisted_config of a local session, made by get_session: any failure says so.
LoadLocally(p) ==
  \E c \in {Found, Unset} :
    /\ Understands(ClientKnows[p], c) /\ Admits(p, c)
    /\ c = Found \/ MayFail
    /\ c = Found => faults' = faults
    /\ session' = [session EXCEPT ![p] = [open |-> TRUE, resolved |-> TRUE, foreign |-> FALSE, config |-> c]]

\* get_session in a process that does not have the session.
GetSession(p) ==
  /\ handle[p] # NoHandle /\ opened # Nothing /\ ~session[p].open
  /\ IF Local THEN LoadLocally(p)
     ELSE /\ session' = [session EXCEPT ![p] = [open |-> TRUE, resolved |-> FALSE, foreign |-> TRUE, config |-> Nothing]]
          /\ faults' = faults
  /\ UNCHANGED <<recorded, opened, stored, handle, run, turns, snapshot, read>>

\* _resolve_session_config, when it raises: the bucket, or a field this revision does not know.
ResolveRaises(p) ==
  /\ ~session[p].resolved
  /\ MayFail \/ (~Understands(ClientKnows[p], Found) /\ faults' = faults)

\* ... and when it does not.
Resolves(p) == (session[p].resolved \/ Understands(ClientKnows[p], Found)) /\ faults' = faults
ConfigOf(p) == IF session[p].resolved THEN session[p].config ELSE Found

\* The last start on the mirror without a result, or 0.
FindRunning ==
  LET on == {t \in 1..Len(turns) : turns[t].state = "running"}
  IN IF Len(turns) \in on THEN Len(turns) ELSE 0

\* Wrong on purpose: resolved before it is read.
AttachResolvedEarly(p) ==
  /\ session[p].open /\ session[p].foreign /\ run[p] = NoRun
  /\ \/ /\ ResolveRaises(p)
        /\ session' = [session EXCEPT ![p] = [@ EXCEPT !.foreign = FALSE, !.resolved = TRUE, !.config = Unset]]
        /\ run' = run
     \/ /\ Resolves(p)
        /\ session' = [session EXCEPT ![p] = [@ EXCEPT !.foreign = FALSE, !.resolved = TRUE, !.config = ConfigOf(p)]]
        /\ run' = run
  /\ UNCHANGED <<recorded, opened, stored, handle, turns, snapshot, read>>

\* _attach, on the first call of a re-attached session: the look is over before it begins.
Attach(p) ==
  /\ session[p].open /\ session[p].foreign /\ run[p] = NoRun
  /\ \/ /\ ResolveRaises(p)
        /\ session' = [session EXCEPT ![p].foreign = FALSE]
        /\ run' = run
     \/ /\ Resolves(p)
        /\ session' = [session EXCEPT ![p] = [@ EXCEPT !.foreign = FALSE, !.resolved = TRUE, !.config = ConfigOf(p)]]
        /\ run' = IF FindRunning = 0 THEN run
                  ELSE [run EXCEPT ![p] = Follows(p, FindRunning, TRUE, ConfigOf(p), Unset)]
  /\ UNCHANGED <<recorded, opened, stored, handle, turns, snapshot, read>>

\* run_turn up to the harness: the merge and its refusals, then the workspace.
WorkerTurn(v, p, session_config, turn_config, resume) ==
  LET spec == Apply(Apply(Baked[v], session_config), turn_config)
      ok == /\ Understands(ImageKnows[v], session_config) /\ Understands(ImageKnows[v], turn_config)
            /\ HarnessBaked(v, spec)
      restored == resume /\ snapshot # "none"
  IN [version |-> v, by |-> p, config |-> session_config, turn_config |-> turn_config,
      state |-> IF ok THEN "running" ELSE "refused", spec |-> spec,
      workspace |-> IF restored THEN snapshot ELSE spec["repos"]]

\* run() and send() of an idle session: _submit.
Submit(p) ==
  /\ session[p].open /\ ~session[p].foreign /\ run[p] = NoRun
  /\ Len(turns) < MaxTurns
  /\ Resolves(p)
  /\ session' = [session EXCEPT ![p] = [@ EXCEPT !.resolved = TRUE, !.config = ConfigOf(p)]]
  /\ \E c \in TurnChoices, resume \in BOOLEAN :
       /\ turns' = Append(turns, WorkerTurn(handle[p].version, p, ConfigOf(p), c, resume))
       /\ run' = [run EXCEPT ![p] = Follows(p, Len(turns) + 1, FALSE, ConfigOf(p), c)]
  /\ UNCHANGED <<recorded, opened, stored, handle, snapshot, read>>

\* The harness is done and the workspace checkpointed.
WorkerEnds(t) ==
  /\ turns[t].state = "running"
  /\ turns' = [turns EXCEPT ![t].state = "done"]
  /\ snapshot' = turns[t].workspace
  /\ UNCHANGED <<recorded, opened, stored, handle, session, run, read, faults>>

\* build_result, under the spec the follower had when it began.
ClientEnds(p) ==
  /\ run[p] # NoRun /\ turns[run[p].turn].state # "running"
  /\ read' = read \cup {run[p]}
  /\ run' = [run EXCEPT ![p] = NoRun]
  /\ UNCHANGED <<recorded, opened, stored, handle, session, turns, snapshot, faults>>

\* The process ends; another takes its place.  A local turn ends with it.
Restart(p) ==
  /\ handle[p] # NoHandle
  /\ handle' = [handle EXCEPT ![p] = NoHandle]
  /\ session' = [session EXCEPT ![p] = NoSession]
  /\ run' = [run EXCEPT ![p] = NoRun]
  /\ turns' = [t \in 1..Len(turns) |-> IF Local /\ t = run[p].turn /\ turns[t].state = "running"
                                       THEN [turns[t] EXCEPT !.state = "dead"] ELSE turns[t]]
  /\ UNCHANGED <<recorded, opened, stored, snapshot, read, faults>>

\* The lifecycle rule, CONFIG_LIFECYCLE_DAYS after the session started.
Reap ==
  /\ Reaps /\ stored # Nothing /\ ~Local
  /\ stored' = Nothing
  /\ UNCHANGED <<recorded, opened, handle, session, run, turns, snapshot, read, faults>>

Next ==
  \/ Deploy \/ Reap
  \/ \E p \in Procs : \/ GetEngine(p) \/ StartSession(p) \/ GetSession(p) \/ Attach(p)
                      \/ Submit(p) \/ ClientEnds(p) \/ Restart(p)
  \/ \E t \in 1..Len(turns) : WorkerEnds(t)

Spec == Init /\ [][Next]_vars

(***************************************************************************)
(* Properties                                                              *)
(***************************************************************************)

TypeOK ==
  /\ Len(recorded) \in 1..Len(Baked)
  /\ opened \in SessionChoices \cup {Nothing} /\ stored \in (SessionChoices \ {Unset}) \cup {Nothing}
  /\ \A p \in Procs :
       /\ handle[p].version \in 0..Len(recorded)
       /\ run[p].turn \in 0..Len(turns)
       /\ run[p] # NoRun => session[p].open /\ session[p].resolved /\ handle[p] # NoHandle
  /\ Len(turns) <= MaxTurns /\ faults \in 0..MaxFaults

\* A session's config is bound once: every turn, whichever process submits it and however many
\* reads failed before, carries the config the session was opened with, until it is reaped.
Reaped == stored = Nothing /\ opened \notin {Nothing, Unset}
BoundForGood == \A t \in 1..Len(turns) : turns[t].config = opened \/ (Reaped /\ turns[t].config = Unset)

\* Fail closed: a turn that was not refused has the value of its own overlay, else of its
\* session's, for every field either sets, and a harness that is in its image.
Honoured ==
  \A t \in 1..Len(turns) : turns[t].state # "refused" =>
    LET turn == turns[t]
        Has(f, value) == IF f = "env" THEN value \subseteq turn.spec[f] ELSE turn.spec[f] = value
    IN /\ turn.spec["harness"] \in Harnesses[turn.version]
       /\ \A f \in SetFields(turn.turn_config) : f \in ImageKnows[turn.version] /\ Has(f, turn.turn_config[f])
       /\ \A f \in SetFields(turn.config) \ SetFields(turn.turn_config) :
            f \in ImageKnows[turn.version] /\ Has(f, turn.config[f])

\* The world of a session stays: the spec a turn runs under declares the repos its workspace
\* was made from, however many turns and versions ago that was, until its config is reaped.
WorldStays == Reaped \/ \A t \in 1..Len(turns) : turns[t].state # "refused" => turns[t].workspace = turns[t].spec["repos"]

\* What the client parses a result with is what the worker asked of the harness: for the
\* process that started the turn, when its handle has the deploy record ...
ReadRight(r) == turns[r.turn].state = "done" => r.schema = turns[r.turn].spec["schema"]
OwnerReadsItRight == \A r \in read : (r.informed /\ ~r.adopted) => ReadRight(r)
=============================================================================
