---------------------------- MODULE ProjectSetup ----------------------------
(***************************************************************************)
(* harness-run-gcp-setup (project_setup.py): audit a cloud project, ask,   *)
(* apply what is missing, audit again until nothing is left, verify with a *)
(* throwaway engine. Several people may run it, or change the project      *)
(* otherwise, at the same time; deploy() ensures the lifecycle rules too.  *)
(*                                                                         *)
(* An audit changes nothing and is one step. A fix is one call, but for a  *)
(* grant, which reads a policy and writes it. Names, locations, the text   *)
(* of the report and how a request is sent are left out.                   *)
(***************************************************************************)
EXTENDS Naturals, Sequences, SequencesExt

CONSTANTS
    Setups,     \* those who run the tool
    Operator,   \* whether it manages an operator account (--no-operator-sa)
    Verify,     \* whether it is asked to verify
    Starts,     \* the projects it may be run on, and by whom:
                \* [by, enabled, made, granted, rules, perms, terms]
    Others      \* what other people do meanwhile, of AllOthers

AllOthers == {"grant", "rule", "permission", "deploy"}

Gate     == {"gate"}                \* resource manager, IAM and storage
Services == Gate \cup {"aiplatform", "artifactregistry"}

Accounts == {"modelSA", "operatorSA"}
Things   == {"bucket", "repo", "role", "agent"} \cup Accounts
Grants   == {"agentReads", "modelRoles", "operatorRoles", "operatorBucket",
             "operatorRepo", "impersonation", "modelTokens"}

\* What the constants have to satisfy.
SetupAssumption ==
    \A s \in Starts :
        /\ s.by \subseteq Setups /\ s.by # {}
        /\ s.enabled \subseteq Services /\ s.made \subseteq Things

\* The policy a grant is in, whom it names, and what audit() must find first.
On == [agentReads |-> "repo", modelRoles |-> "project", operatorRoles |-> "project",
       operatorBucket |-> "bucket", operatorRepo |-> "repo",
       impersonation |-> "operatorSA", modelTokens |-> "modelSA"]
Named == [agentReads |-> {"agent"}, modelRoles |-> {"modelSA"}, operatorRoles |-> {"operatorSA"},
          operatorBucket |-> {"operatorSA"}, operatorRepo |-> {"operatorSA"},
          impersonation |-> {}, modelTokens |-> IF Operator THEN {"operatorSA"} ELSE {}]
Needs == [agent |-> {"repo"}, agentReads |-> {"repo"}, lifecycle |-> {"bucket"},
          permissions |-> {"role"}, modelRoles |-> {"role"}, operatorBucket |-> {"bucket"},
          operatorRepo |-> {"repo"}, impersonation |-> {"operatorSA"},
          modelTokens |-> {"modelSA"} \cup IF Operator THEN {"operatorSA"} ELSE {}]

\* The rows of the report, in its order: fixes are applied in it.
OrderGrantFirst ==
    <<"APIs", "models", "bucket", "lifecycle", "repo", "agentReads", "agent",
      "modelSA", "role", "permissions", "modelRoles", "operatorSA", "operatorRoles",
      "operatorBucket", "operatorRepo", "impersonation", "modelTokens">>

Order == <<"APIs", "models", "bucket", "lifecycle", "repo", "agent", "agentReads",
           "modelSA", "role", "permissions", "modelRoles", "operatorSA", "operatorRoles",
           "operatorBucket", "operatorRepo", "impersonation", "modelTokens">>
OfOperator == {"operatorSA", "operatorRoles", "operatorBucket", "operatorRepo", "impersonation"}
Rows == ToSet(Order) \ IF Operator THEN {} ELSE OfOperator

\* A lifecycle rule deletes objects under its prefixes once they have an age,
\* on a further condition if it is not plain.
Wanted   == {[prefixes |-> {"secrets"}, age |-> 1, plain |-> TRUE],
             [prefixes |-> {"configs"}, age |-> 30, plain |-> TRUE]}
SomeRule == [prefixes |-> {"other"}, age |-> 7, plain |-> TRUE]

MaxRounds == 5

VARIABLES
    enabled,    \* the enabled services
    lagging,    \* those whose calls still fail
    made,       \* the things that exist
    fresh,      \* the accounts no policy can name yet
    granted,    \* the grants of all policies; "others" is in the project's
    rules,      \* the lifecycle rules of the output bucket
    perms,      \* the permissions of the custom role
    terms,      \* the model's terms are accepted: by hand
    phase,      \* where each run of the tool is
    round,      \* its rounds of fixes
    todo,       \* the fixes left of its round
    open,       \* the rows that were not OK in its last audit
    seen,       \* the rules and permissions it saw there
    policy,     \* the grants of the policy it is changing
    engine,     \* its throwaway engine: "none", "up", "deleted"
    deployer    \* what a deploy() has read: no or one set of rules

project == <<enabled, lagging, made, fresh, granted, rules, perms, terms>>
tool    == <<phase, round, todo, open, seen, policy, engine>>
vars    == <<project, tool, deployer>>

-----------------------------------------------------------------------------
(* What an audit sees.                                                     *)

\* lifecycle_missing: the wanted rules with a prefix no rule deletes.
Uncovered(rs) == {w \in Wanted : \E f \in w.prefixes : \A r \in rs : f \notin r.prefixes}

\* ensure_handoff_lifecycle: only a plain rule that deletes soon enough counts.
Unreaped(rs) ==
    {w \in Wanted : \E f \in w.prefixes :
        \A r \in rs : ~r.plain \/ f \notin r.prefixes \/ r.age > w.age}

\* A model's probe: somebody accepted its terms.
ModelAnswers == terms /\ "aiplatform" \in enabled

Present(row) ==
    CASE row = "APIs"        -> Services \subseteq enabled
      [] row = "models"      -> ModelAnswers
      [] row = "lifecycle"   -> Uncovered(rules) = {}
      [] row = "permissions" -> "predict" \in perms
      [] row = "agent"       -> "agentReads" \in granted
      [] row \in Grants      -> row \in granted
      [] OTHER               -> row \in made

\* The rows that have a fix now: the others wait, or are done by hand.
Fixable(row) ==
    /\ ~Present(row) /\ row # "models"
    /\ row = "APIs" \/ Gate \subseteq enabled
    /\ row \in DOMAIN Needs => Needs[row] \subseteq made

\* Past the gate, an audit reads the repository too, whose service it has not
\* asked about; a call of a service that is off, or new, fails.
AuditRaises ==
    /\ Gate \subseteq enabled
    /\ (Gate \cup {"artifactregistry"}) \cap (lagging \cup (Services \ enabled)) # {}

Fixes == {row \in Rows : Fixable(row)}
Open  == {row \in Rows : ~Present(row)}
Ready == Open = {}

-----------------------------------------------------------------------------
\* Resources need their service; grants, what they are on and whom they name.
Possible(s) ==
    /\ s.made # {} => Gate \subseteq s.enabled
    /\ "repo" \in s.made => "artifactregistry" \in s.enabled
    /\ s.rules # {} => "bucket" \in s.made
    /\ s.perms # {} => "role" \in s.made
    /\ \A g \in s.granted : Named[g] \cup (IF g \in DOMAIN Needs THEN Needs[g] ELSE {}) \subseteq s.made

Init ==
    /\ \E s \in {t \in Starts : Possible(t)} :
         /\ enabled = s.enabled /\ made = s.made /\ granted = s.granted
         /\ rules = s.rules /\ perms = s.perms /\ terms = s.terms
         /\ phase = [p \in Setups |-> IF p \in s.by THEN "audit" ELSE "away"]
    /\ lagging = {} /\ fresh = {}
    /\ round = [p \in Setups |-> 0]
    /\ todo = [p \in Setups |-> {}]
    /\ open = [p \in Setups |-> Rows]
    /\ seen = [p \in Setups |-> [rules |-> {}, perms |-> {}]]
    /\ policy = [p \in Setups |-> {}]
    /\ engine = [p \in Setups |-> "none"]
    /\ deployer = {}

Goto(p, to) == phase' = [phase EXCEPT ![p] = to]

\* What follows an audit: main() asks, or _apply_rounds goes on or stops.
Report(p) ==
    /\ todo' = [todo EXCEPT ![p] = Fixes]
    /\ open' = [open EXCEPT ![p] = Open]
    /\ seen' = [seen EXCEPT ![p] = [rules |-> rules, perms |-> perms]]

\* The first audit.
FirstAudit(p) ==
    /\ phase[p] = "audit"
    /\ round' = [round EXCEPT ![p] = 0]
    /\ IF AuditRaises
       THEN Goto(p, "failed") /\ UNCHANGED <<todo, open, seen>>
       ELSE Report(p) /\ Goto(p, IF Open \subseteq {"models"} THEN "final" ELSE "ask")
    /\ UNCHANGED <<project, policy, engine, deployer>>

\* The prompt is answered.
Agree(p) ==
    /\ phase[p] = "ask" /\ Goto(p, "fix")
    /\ UNCHANGED <<project, round, todo, open, seen, policy, engine, deployer>>

Decline(p) ==
    /\ phase[p] = "ask" /\ Goto(p, "declined")
    /\ UNCHANGED <<project, round, todo, open, seen, policy, engine, deployer>>

\* The round is applied: audit again. _audit_with_retry repeats an audit that
\* raises (the step is not taken), and fails when it has waited long enough.
NextAudit(p) ==
    /\ phase[p] = "fix" /\ todo[p] = {}
    /\ IF AuditRaises
       THEN Goto(p, "failed") /\ UNCHANGED <<round, todo, open, seen>>
       ELSE /\ round' = [round EXCEPT ![p] = @ + 1]
            /\ Report(p)
            /\ Goto(p, IF Fixes = {} \/ round'[p] = MaxRounds THEN "final" ELSE "fix")
    /\ UNCHANGED <<project, policy, engine, deployer>>

-----------------------------------------------------------------------------
(* The fixes.                                                              *)

Row(p) ==
    Order[CHOOSE i \in DOMAIN Order :
            Order[i] \in todo[p] /\ \A j \in 1..(i - 1) : Order[j] \notin todo[p]]
Fixing(p)  == phase[p] = "fix" /\ todo[p] # {}
Applied(p) == todo' = [todo EXCEPT ![p] = @ \ {Row(p)}]
Fails(p)   == Goto(p, "failed") /\ UNCHANGED <<project, todo>>

Enable(p) ==
    /\ Fixing(p) /\ Row(p) = "APIs"
    /\ enabled' = enabled \cup Services
    /\ lagging' = lagging \cup (Services \ enabled)
    /\ Applied(p)
    /\ UNCHANGED <<made, fresh, granted, rules, perms, terms, phase, round, open, seen, policy, engine, deployer>>

\* What exists already is not created again: the call fails.
Create(p) ==
    /\ Fixing(p) /\ Row(p) \in Things \ {"agent"}
    /\ IF Row(p) \in made
       THEN Fails(p)
       ELSE /\ made' = made \cup {Row(p)}
            /\ fresh' = fresh \cup ({Row(p)} \cap Accounts)
            /\ rules' = IF Row(p) = "bucket" THEN Wanted ELSE rules
            /\ perms' = IF Row(p) = "role" THEN {"predict"} ELSE perms
            /\ Applied(p)
            /\ UNCHANGED <<enabled, lagging, granted, terms, phase>>
    /\ UNCHANGED <<round, open, seen, policy, engine, deployer>>

\* generate_service_identity may be repeated.
Provision(p) ==
    /\ Fixing(p) /\ Row(p) = "agent"
    /\ made' = made \cup {"agent"}
    /\ fresh' = fresh \cup ({"agent"} \ made)
    /\ Applied(p)
    /\ UNCHANGED <<enabled, lagging, granted, rules, perms, terms, phase, round, open, seen, policy, engine, deployer>>

\* set_bucket_lifecycle and add_role_permissions write what the audit saw,
\* and what it missed.
Extend(p) ==
    /\ Fixing(p) /\ Row(p) \in {"lifecycle", "permissions"}
    /\ IF Row(p) = "lifecycle"
       THEN rules' = seen[p].rules \cup Uncovered(seen[p].rules) /\ UNCHANGED perms
       ELSE perms' = seen[p].perms \cup {"predict"} /\ UNCHANGED rules
    /\ Applied(p)
    /\ UNCHANGED <<enabled, lagging, made, fresh, granted, terms, phase, round, open, seen, policy, engine, deployer>>

PolicyOf(r) == {g \in granted : (g = "others" /\ r = "project") \/ (g # "others" /\ On[g] = r)}

\* _grant reads the policy; a grant that is there needs nothing.
ReadPolicy(p) ==
    /\ Fixing(p) /\ Row(p) \in Grants
    /\ IF Row(p) \in granted
       THEN Applied(p) /\ UNCHANGED <<phase, policy>>
       ELSE /\ policy' = [policy EXCEPT ![p] = PolicyOf(On[Row(p)])]
            /\ Goto(p, "write")
            /\ UNCHANGED todo
    /\ UNCHANGED <<project, round, open, seen, engine, deployer>>

SetPolicy(p) ==
    LET r == On[Row(p)]
    IN  granted' = (granted \ PolicyOf(r)) \cup policy[p] \cup {Row(p)}

\* ...and writes it, with its etag: a policy that has changed is read again,
\* and so is one that cannot name the member yet, until the deadline.
WritePolicy(p) ==
    /\ phase[p] = "write"
    /\ LET changed  == PolicyOf(On[Row(p)]) # policy[p]
           nameable == Named[Row(p)] \subseteq made \ fresh
       IN  \/ changed /\ Goto(p, "fix") /\ UNCHANGED <<granted, todo>>
           \/ ~changed /\ nameable /\ SetPolicy(p) /\ Applied(p) /\ Goto(p, "fix")
           \/ ~changed /\ ~nameable /\ (Goto(p, "fix") \/ Goto(p, "failed")) /\ UNCHANGED <<granted, todo>>
    /\ UNCHANGED <<enabled, lagging, made, fresh, rules, perms, terms, round, open, seen, policy, engine, deployer>>

-----------------------------------------------------------------------------
(* After the rounds.                                                       *)

\* verify() refuses, fails to deploy, or deploys.
Deploy(p) ==
    /\ phase[p] = "final" /\ Verify /\ engine[p] = "none"
    /\ \/ Goto(p, "end") /\ UNCHANGED engine
       \/ /\ open[p] \subseteq {"impersonation", "modelTokens"}
          /\ Goto(p, "turn") /\ engine' = [engine EXCEPT ![p] = "up"]
    /\ UNCHANGED <<project, round, todo, open, seen, policy, deployer>>

\* The turn runs or fails; the engine is deleted in any case.
TearDown(p) ==
    /\ phase[p] = "turn"
    /\ Goto(p, "end") /\ engine' = [engine EXCEPT ![p] = "deleted"]
    /\ UNCHANGED <<project, round, todo, open, seen, policy, deployer>>

\* The tool is run again while the project is not ready.
Rerun(p) ==
    /\ phase[p] \in {"failed", "declined", "end"} \cup IF Verify THEN {} ELSE {"final"}
    /\ ~Ready /\ engine[p] = "none"
    /\ Goto(p, "audit")
    /\ UNCHANGED <<project, round, todo, open, seen, policy, engine, deployer>>

Tool(p) ==
    \/ FirstAudit(p) \/ NextAudit(p)
    \/ Enable(p) \/ Create(p) \/ Provision(p) \/ Extend(p)
    \/ ReadPolicy(p) \/ WritePolicy(p)
    \/ Deploy(p) \/ TearDown(p)

-----------------------------------------------------------------------------
(* The cloud, and other people.                                            *)

\* Enabled services and new accounts get known everywhere.
Settle ==
    /\ lagging # {} \/ fresh # {}
    /\ lagging' = {} /\ fresh' = {}
    /\ UNCHANGED <<enabled, made, granted, rules, perms, terms, tool, deployer>>

OtherGrant ==
    /\ "grant" \in Others /\ Gate \subseteq enabled
    /\ granted' = granted \cup {"others"}
    /\ UNCHANGED <<enabled, lagging, made, fresh, rules, perms, terms, tool, deployer>>

OtherRule ==
    /\ "rule" \in Others /\ "bucket" \in made
    /\ rules' = rules \cup {SomeRule}
    /\ UNCHANGED <<enabled, lagging, made, fresh, granted, perms, terms, tool, deployer>>

OtherPermission ==
    /\ "permission" \in Others /\ "role" \in made
    /\ perms' = perms \cup {"other"}
    /\ UNCHANGED <<enabled, lagging, made, fresh, granted, rules, terms, tool, deployer>>

\* ensure_handoff_lifecycle reads the rules...
DeployerReads ==
    /\ "deploy" \in Others /\ "bucket" \in made /\ deployer = {} /\ Unreaped(rules) # {}
    /\ deployer' = {rules}
    /\ UNCHANGED <<project, tool>>

\* ...and patches them.
DeployerWrites ==
    /\ \E read \in deployer : rules' = read \cup Unreaped(read)
    /\ deployer' = {}
    /\ UNCHANGED <<enabled, lagging, made, fresh, granted, perms, terms, tool>>

World == Settle \/ OtherGrant \/ OtherRule \/ OtherPermission \/ DeployerReads \/ DeployerWrites

Next == World \/ \E p \in Setups : Tool(p) \/ Agree(p) \/ Decline(p) \/ Rerun(p)

Spec == Init /\ [][Next]_vars

\* The tool runs on; people agree in the end, and run it again.
Fairness ==
    /\ WF_vars(Settle)
    /\ \A p \in Setups : WF_vars(Tool(p)) /\ SF_vars(Agree(p)) /\ WF_vars(Rerun(p))

FairSpec == Spec /\ Fairness

-----------------------------------------------------------------------------
\* The variables have their types; what is granted or new is there.
TypeOK ==
    /\ lagging \subseteq enabled /\ enabled \subseteq Services
    /\ fresh \subseteq made /\ made \subseteq Things
    /\ \A g \in granted \cap Grants : Named[g] \subseteq made
    /\ \A p \in Setups : round[p] \in 0..MaxRounds /\ open[p] \subseteq Rows /\ todo[p] \subseteq Rows

\* verify() deploys on a project that has all it needs, but for the token
\* grants, which it cannot always express (verify_blockers).
VerifiesWhatIsReady ==
    [][\A p \in Setups : engine[p] = "none" /\ engine'[p] = "up" => Open \subseteq {"impersonation", "modelTokens"}]_vars

\* The tool removes nobody's grant: it is additive only.
GrantsKept == [][granted \subseteq granted']_vars

\* Run until it reports nothing, the tool makes the project ready in the end,
\* beside others who run it or change the project: if the model's terms are
\* accepted, and Artifact Registry is not off where the gate's services are on.
BecomesReady ==
    terms /\ (Gate \subseteq enabled => "artifactregistry" \in enabled) => <>[]Ready

\* The docstring: it "applies what is missing, and re-audits until the project
\* is ready", on any project. Where only Artifact Registry is off an audit reads
\* the repository before a fix enables its service, and raises each time.
ReadyFromAnyProject == terms => <>[]Ready
=============================================================================
