------------------------------ MODULE MCEngine ------------------------------
(***************************************************************************)
(* The engine's components for TLC: the ready pool, deploy(), the teardown *)
(* of an engine, the set-up of a project, the tokens of a turn and exec(). *)
(* They share no state, so a behaviour moves one of them, its part, and    *)
(* the others rest in an initial state of theirs: a run explores the sum   *)
(* of their state spaces, not the product.                                 *)
(***************************************************************************)
EXTENDS Naturals, Sequences, TLC

CONSTANTS
    Parts,                                  \* the components that a run explores
    PoolClients, PoolBoxes, PoolIdle, Attempts,
    Deployers, Images, MaxTemplates, MaxDeploys, NoImage,
    Users, Handle, Boxes, Own, Other, Pooled, MaxUses, CallsFail, Deadline,
    Setups, Operator, Verify, Starts, Others,
    Lifetime, Cadence, Retry, Horizon, RetrySoon, Early, CliEarly, MaxDispatch, TokensTime,
    StorageFaults, ModelFaults, ReadFaults, AdoptWithin, LeftTime,
    ExecTurns, Children,
    None,
    s1, t1, t2, b1, b2, b3, v1, v2, w1      \* model values, for the values of PoolIdle, Handle and Pooled

VARIABLES
    part,
    \* ReadyPool
    roster, created, stale, box, pc, rows, dated, got, pruned, tries, consumed, owed, filling,
    jobs, mislaid,
    \* EngineDeploy
    state, image, record, d_pc, built, existing, known, own, target, chosen, retiring, deploys,
    written, deployed,
    \* EngineTeardown
    up, t_box, tpl, t_roster, t_got, warm, t_filling, t_owed, turns, phase, targets,
    t_rows, cleared, toClear, before, t_mislaid,
    \* ProjectSetup
    enabled, lagging, made, fresh, granted, rules, perms, terms, s_phase, round, todo, open, seen,
    policy, engine, deployer,
    \* RunTokens
    now, turn, follower, since, due, step, minted, k_record, held, shown, asked, served, cli, faults,
    \* Exec
    cur, done, sandbox, worker, x_pc, x_asked, x_target, id, x_phase, within, shell, child, x_due, rc

-----------------------------------------------------------------------------
(* The components.                                                         *)

\* One sandbox in the pool.
OneIdle == <<s1>>

Pool == INSTANCE ReadyPool WITH Clients <- PoolClients, Sandboxes <- PoolBoxes, Initial <- PoolIdle

Deploy == INSTANCE EngineDeploy WITH pc <- d_pc

\* A client on an old version, another on the engine with the longer name.
HandleTwo == (t1 :> v1) @@ (t2 :> w1)
PooledThree == (b1 :> v1) @@ (b2 :> v2) @@ (b3 :> w1)

Teardown == INSTANCE EngineTeardown WITH
    Clients <- Users, MaxTurns <- MaxUses, Fails <- CallsFail,
    box <- t_box, roster <- t_roster, got <- t_got, filling <- t_filling, owed <- t_owed,
    rows <- t_rows, mislaid <- t_mislaid

\* Projects to run the set-up on: all or none of the services, or no gate;
\* what somebody made by hand or an earlier run left behind.
Projects(by, es, ms, gs, rs, ps, ts) ==
    [by : by, enabled : es, made : ms, granted : gs, rules : rs, perms : ps, terms : ts]

AllServices == {"gate", "aiplatform", "artifactregistry"}
AllThings   == {"bucket", "repo", "role", "agent", "modelSA", "operatorSA"}
WantedRules == {[prefixes |-> {"secrets"}, age |-> 1, plain |-> TRUE],
                [prefixes |-> {"configs"}, age |-> 30, plain |-> TRUE]}
OtherRule   == [prefixes |-> {"other"}, age |-> 7, plain |-> TRUE]

AnyProject ==
    Projects({{"p1"}},
             {{}, {"aiplatform"}, {"aiplatform", "artifactregistry"}, AllServices},
             {{}} \cup {{t} : t \in AllThings} \cup {AllThings \ {t} : t \in AllThings},
             {{}, {"agentReads"}, {"operatorRoles", "operatorRepo", "modelRoles"}},
             {{}, {OtherRule}}, {{}, {"other"}}, BOOLEAN)

\* For liveness: one thing there or one missing, without what others may add
\* meanwhile; an empty project whose model has no terms accepted; one whose
\* services but Artifact Registry's are on; and two who run it at the same time
\* where an earlier run did most of it, but for the calls' account and its
\* grants, or for the agent, its grant and the rules.
AnyLive ==
    Projects({{"p1"}},
             {{}, {"aiplatform"}, {"aiplatform", "artifactregistry"}, AllServices},
             {{}} \cup {{t} : t \in AllThings} \cup {AllThings \ {t} : t \in AllThings},
             {{}}, {{}}, {{}}, {TRUE})
        \cup Projects({{"p1"}}, {{}}, {{}}, {{}}, {{}}, {{}}, {FALSE})
        \cup Projects({{"p1"}}, {{"gate", "aiplatform"}}, {{}}, {{}}, {{}}, {{}}, {TRUE})
        \cup Projects({{"p1", "p2"}}, {AllServices}, {AllThings \ {"modelSA"}},
                      {{"agentReads", "operatorRoles", "operatorBucket", "operatorRepo", "impersonation"}},
                      {WantedRules}, {{"predict", "other"}}, {TRUE})
        \cup Projects({{"p1", "p2"}}, {AllServices}, {AllThings \ {"agent"}},
                      {{"modelRoles", "operatorRoles", "operatorBucket", "operatorRepo", "impersonation", "modelTokens"}},
                      {{OtherRule}}, {{"predict", "other"}}, {TRUE})

Setup == INSTANCE ProjectSetup WITH phase <- s_phase

\* Tokens: a turn whose process stays, and calls that fail. Left: a process
\* detaches, or dies, and another adopts the turn within some minutes.
Tokens == INSTANCE RunTokens WITH
    MayDetach <- FALSE, AdoptWithin <- 0, Sampling <- TRUE, MaxTime <- TokensTime, record <- k_record

Left == INSTANCE RunTokens WITH
    MayDetach <- TRUE, Sampling <- TRUE, StorageFaults <- 0, ModelFaults <- 0, ReadFaults <- 0,
    MaxTime <- LeftTime, record <- k_record

Call == INSTANCE Exec WITH
    MaxTurns <- ExecTurns, pc <- x_pc, asked <- x_asked, target <- x_target, phase <- x_phase,
    due <- x_due

ASSUME EngineAssumption ==
    /\ Pool!PoolAssumption /\ Deploy!DeployAssumption /\ Teardown!TeardownAssumption
    /\ Setup!SetupAssumption
    /\ Tokens!RunTokensAssumption /\ Left!RunTokensAssumption /\ Call!ExecAssumption

-----------------------------------------------------------------------------
(* One part moves, the others rest.                                        *)

pool ==
    <<roster, created, stale, box, pc, rows, dated, got, pruned, tries, consumed, owed, filling,
      jobs, mislaid>>
deploy ==
    <<state, image, record, d_pc, built, existing, known, own, target, chosen, retiring, deploys,
      written, deployed>>
teardown ==
    <<up, t_box, tpl, t_roster, t_got, warm, t_filling, t_owed, turns, phase, targets,
      t_rows, cleared, toClear, before, t_mislaid>>
setup ==
    <<enabled, lagging, made, fresh, granted, rules, perms, terms, s_phase, round, todo, open, seen,
      policy, engine, deployer>>
tokens ==
    <<now, turn, follower, since, due, step, minted, k_record, held, shown, asked, served, cli, faults>>
call ==
    <<cur, done, sandbox, worker, x_pc, x_asked, x_target, id, x_phase, within, shell, child, x_due, rc>>

Init ==
    /\ part \in Parts
    /\ Pool!Init /\ Deploy!Init /\ Teardown!Init /\ Setup!Init /\ Tokens!Init /\ Call!Init
    /\ part # "setup" => enabled = {} /\ ~terms

Next ==
    /\ UNCHANGED part
    /\ \/ part = "pool" /\ Pool!Next /\ UNCHANGED <<deploy, teardown, setup, tokens, call>>
       \/ part = "deploy" /\ Deploy!Next /\ UNCHANGED <<pool, teardown, setup, tokens, call>>
       \/ part = "teardown" /\ Teardown!Next /\ UNCHANGED <<pool, deploy, setup, tokens, call>>
       \/ part = "setup" /\ Setup!Next /\ UNCHANGED <<pool, deploy, teardown, tokens, call>>
       \/ part = "tokens" /\ Tokens!Next /\ UNCHANGED <<pool, deploy, teardown, setup, call>>
       \/ part = "left" /\ Left!Next /\ UNCHANGED <<pool, deploy, teardown, setup, call>>
       \/ part = "exec" /\ Call!Next /\ UNCHANGED <<pool, deploy, teardown, setup, tokens>>

vars == <<part, pool, deploy, teardown, setup, tokens, call>>

Spec == Init /\ [][Next]_vars

FairSpec ==
    /\ Spec
    /\ \/ part = "pool" /\ Pool!Fairness
       \/ part = "teardown" /\ Teardown!Fairness
       \/ part = "setup" /\ Setup!Fairness
       \/ part = "exec" /\ Call!Fairness

-----------------------------------------------------------------------------
(* What the runs check: the components' properties, by what they are about. *)

\* Every component's variables have their types.
TypesHold ==
    CASE part = "pool"     -> Pool!TypeOK
      [] part = "deploy"   -> Deploy!TypeOK
      [] part = "teardown" -> Teardown!TypeOK
      [] part = "setup"    -> Setup!TypeOK
      [] part = "exec"     -> Call!TypeOK
      [] part = "left"     -> Left!TypeOK
      [] OTHER             -> Tokens!TypeOK

\* A sandbox always belongs to one place: a roster entry, a client, or what a
\* failed call lost, through claims, prunings, refills and crashes, and it
\* serves one claim (roster.py, _claim_sandbox); the sweep and the clearing of
\* a teardown leave none behind (delete, PoolRoster.clear).
SandboxesAreOwned ==
    /\ [](part = "pool" => Pool!OneHolder /\ Pool!NoneForgotten)
    /\ [](part = "teardown" => Teardown!NothingSurvives /\ Teardown!ClearedAreDeleted)
    /\ Pool!ServedOnceSpec

\* A deploy that went through leaves its version served, with a record that
\* fits it; once there was a version to serve there always is (deploy,
\* create_template, _retire_templates).
DeployServes ==
    part = "deploy" => Deploy!RecordFits /\ Deploy!DeployIsServed /\ Deploy!AlwaysServed

\* A teardown spares the other engine and the turns of clients; the set-up
\* takes nobody's grant away and verifies only what is ready (_owns_sandbox,
\* PoolRoster.clear, _grant, verify_blockers).
OthersAreSpared ==
    /\ Teardown!OtherIsLeftAlone /\ Teardown!TurnsAreSpared
    /\ Setup!GrantsKept /\ Setup!VerifiesWhatIsReady

\* A running turn always has a storage token and a model token that work,
\* whatever single failure the refresh meets, and across an adoption within
\* a few minutes (_start_refresh, worker_credentials).
TokensLive == Tokens!StorageLives /\ Tokens!ModelLives

\* A command runs in the workspace of the turn its caller named (exec).
RunsWhereNamed == Call!RunsWhereNamed

\* Sandboxes off the roster are deleted, or put on it, in the end, unless a
\* failure lost them; a version that is retired goes, unless its pool is
\* refilled after the clearing (_release_sandbox, _schedule_delete,
\* _retire_templates).
SandboxesGo ==
    /\ part = "pool" => Pool!ReleasedInTheEnd
    /\ part = "teardown" => Teardown!VersionGoes

\* The set-up makes the project ready in the end, one who runs it or two at
\* once, beside other grants and a deploy(), if the model's terms are accepted
\* and Artifact Registry is not off where the gate's services are on; nobody's
\* grant is taken away on the way (audit, _apply_rounds, _grant).
BecomesReady ==
    /\ part = "setup" => Setup!BecomesReady
    /\ Setup!GrantsKept

\* exec() returns or raises; a command that stays in its process group is over
\* at its timeout, with all it started (run_shell).
ProbesEnd ==
    /\ part = "exec" => Call!ExecReturns /\ Call!TimeoutFreesTheWorker
    /\ []Call!NothingLeftAtTheTimeout
=============================================================================
