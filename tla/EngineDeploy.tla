---------------------------- MODULE EngineDeploy ----------------------------
(***************************************************************************)
(* deploy() of one engine name, by several deployers: the templates        *)
(* (versions) of that name, their deploy records and the cut-over from the *)
(* old versions to the new one (backend.py, provider.py, handoff.py).      *)
(*                                                                         *)
(* A template is a number, a larger one being newer. What a template pins  *)
(* (image, resources, egress) is one value, the image each deployer builds *)
(* from its spec.                                                          *)
(***************************************************************************)
EXTENDS Naturals, FiniteSets, FiniteSetsExt

CONSTANTS
    Deployers,      \* the processes that call deploy()
    Images,         \* what a template can pin
    MaxTemplates,   \* bound: templates the platform can create
    MaxDeploys,     \* bound: calls of deploy() by each process
    NoImage         \* no record

\* What the constants have to satisfy.
DeployAssumption ==
    /\ NoImage \notin Images
    /\ {MaxTemplates, MaxDeploys} \subseteq Nat \ {0}

Templates  == 1..MaxTemplates
NoTemplate == 0

VARIABLES
    state,      \* of each template on the platform
    image,      \* what it pins
    record,     \* its deploy record: the image of the spec in it
    pc,         \* where each deployer stands
    built,      \* the image of its deploy
    existing,   \* the versions it listed first
    known,      \* those create_template listed
    own,        \* the template its create made, by the operation
    target,     \* the template it polls
    chosen,     \* the template it deploys to
    retiring,   \* the versions its background thread has yet to delete
    deploys,    \* calls of deploy() so far
    written,    \* the deployers whose last record write succeeded (history)
    deployed    \* a deploy has had a version to serve (history)

platform == <<state, image, record>>
creation == <<known, own, target>>
deployer == <<built, existing, chosen, deploys, written>>
vars     == <<platform, pc, creation, deployer, retiring, deployed>>

Live(T)  == {t \in T : state[t] \in {"provisioning", "active", "failed"}}
Newest(T) == IF T = {} THEN NoTemplate ELSE Max(T)
Goto(d, where) ==
    /\ pc' = [pc EXCEPT ![d] = where]
    /\ deployed' = (deployed \/ where = "record")

Init ==
    /\ state = [t \in Templates |-> "none"]
    /\ image = [t \in Templates |-> NoImage]
    /\ record = [t \in Templates |-> NoImage]
    /\ pc = [d \in Deployers |-> "idle"]
    /\ built = [d \in Deployers |-> NoImage]
    /\ existing = [d \in Deployers |-> {}]
    /\ known = [d \in Deployers |-> {}]
    /\ own = [d \in Deployers |-> NoTemplate]
    /\ target = [d \in Deployers |-> NoTemplate]
    /\ chosen = [d \in Deployers |-> NoTemplate]
    /\ retiring = [d \in Deployers |-> {}]
    /\ deploys = [d \in Deployers |-> 0]
    /\ written = {}
    /\ deployed = FALSE

-----------------------------------------------------------------------------
(* deploy(): reuse the newest version, or make one.                        *)

\* Cutting over before the new template is up.
DeployRetiringFirst(d) ==
    /\ pc[d] = "idle" /\ deploys[d] < MaxDeploys
    /\ deploys' = [deploys EXCEPT ![d] = @ + 1]
    /\ \E i \in Images :
         /\ built' = [built EXCEPT ![d] = i]
         /\ existing' = [existing EXCEPT ![d] = Live(Templates)]
    /\ retiring' = [retiring EXCEPT ![d] = Live(Templates)]
    /\ Goto(d, "list")
    /\ UNCHANGED <<platform, creation, chosen, written>>

\* deploy() up to the template: the newest version is reused if it matches.
Deploy(d) ==
    /\ pc[d] = "idle" /\ deploys[d] < MaxDeploys
    /\ deploys' = [deploys EXCEPT ![d] = @ + 1]
    /\ \E i \in Images :
         LET seen == Live(Templates)
             newest == Newest(seen)
         IN  /\ built' = [built EXCEPT ![d] = i]
             /\ existing' = [existing EXCEPT ![d] = seen]
             /\ IF newest # NoTemplate /\ image[newest] = i /\ state[newest] = "active"
                THEN chosen' = [chosen EXCEPT ![d] = newest] /\ Goto(d, "record")
                ELSE Goto(d, "list") /\ UNCHANGED chosen
    /\ UNCHANGED <<platform, creation, retiring, written>>

\* create_template lists what there is.
ListKnown(d) ==
    /\ pc[d] = "list"
    /\ known' = [known EXCEPT ![d] = {t \in Templates : state[t] # "none"}]
    /\ Goto(d, "create")
    /\ UNCHANGED <<platform, own, target, deployer, retiring>>

\* It deletes the failed ones it listed, as far as the platform lets it,
\* and creates its own. The operation may not name the template yet.
Create(d) ==
    /\ pc[d] = "create"
    /\ \E t \in Templates, reaped \in SUBSET {s \in known[d] : state[s] = "failed"} :
         /\ state[t] = "none" /\ \A s \in Templates : s < t => state[s] # "none"
         /\ state' = [s \in Templates |->
                        IF s = t THEN "provisioning" ELSE IF s \in reaped THEN "deleted" ELSE state[s]]
         /\ image' = [image EXCEPT ![t] = built[d]]
         /\ own' = [own EXCEPT ![d] = t]
         /\ \E named \in {t, NoTemplate} : target' = [target EXCEPT ![d] = named]
    /\ Goto(d, "poll")
    /\ UNCHANGED <<record, known, deployer, retiring>>

\* The listing fails, or the create is refused: deploy() raises.
CreateFails(d) ==
    /\ pc[d] \in {"list", "create"}
    /\ Goto(d, "idle")
    /\ UNCHANGED <<platform, creation, deployer, retiring>>

\* The rows of one poll: those under the name that were not known before,
\* or the one that is the target if it is among them.
Rows(d) ==
    LET fresh == Live(Templates) \ known[d]
    IN  IF target[d] \in fresh THEN {target[d]} ELSE fresh

PolledRow(d) == Newest(Rows(d))

Poll(d) ==
    /\ pc[d] = "poll" /\ PolledRow(d) # NoTemplate
    /\ target' = [target EXCEPT ![d] = PolledRow(d)]
    /\ CASE state[PolledRow(d)] = "active" ->
              chosen' = [chosen EXCEPT ![d] = PolledRow(d)] /\ Goto(d, "record")
         [] state[PolledRow(d)] = "failed" -> Goto(d, "reap") /\ UNCHANGED chosen
         [] OTHER -> UNCHANGED <<pc, chosen, deployed>>
    /\ UNCHANGED <<platform, known, own, built, existing, deploys, written, retiring>>

\* The operation is done: it names the template, or it has an error.
CheckOperation(d) ==
    /\ pc[d] = "poll" /\ state[own[d]] # "provisioning"
    /\ \/ /\ state[own[d]] = "failed" /\ Goto(d, "reap") /\ UNCHANGED target
       \/ /\ target[d] = NoTemplate
          /\ target' = [target EXCEPT ![d] = own[d]]
          /\ UNCHANGED <<pc, deployed>>
    /\ UNCHANGED <<platform, known, own, deployer, retiring>>

\* Past TEMPLATE_TIMEOUT_S.
TimesOut(d) ==
    /\ pc[d] = "poll"
    /\ Goto(d, "reap")
    /\ UNCHANGED <<platform, creation, deployer, retiring>>

\* _reap of the target, best-effort; the create raises, and so does deploy().
Reap(d) ==
    /\ pc[d] = "reap"
    /\ \/ target[d] # NoTemplate /\ state' = [state EXCEPT ![target[d]] = "deleted"]
       \/ UNCHANGED state
    /\ Goto(d, "idle")
    /\ UNCHANGED <<image, record, creation, deployer, retiring>>

\* write_deploy_record; a failure is only a warning.
WriteRecord(d) ==
    /\ pc[d] = "record"
    /\ \/ /\ record' = [record EXCEPT ![chosen[d]] = built[d]]
          /\ written' = written \cup {d}
       \/ /\ written' = written \ {d}
          /\ UNCHANGED record
    /\ Goto(d, "fill")
    /\ UNCHANGED <<state, image, creation, built, existing, chosen, deploys, retiring>>

\* The ready pool is filled, or that raises and nothing is retired.
CutOver(d) ==
    /\ pc[d] = "fill"
    /\ retiring' = [retiring EXCEPT ![d] = @ \cup (existing[d] \ {chosen[d]})]
    /\ Goto(d, "idle")
    /\ UNCHANGED <<platform, creation, deployer>>

FillFails(d) ==
    /\ pc[d] = "fill"
    /\ Goto(d, "idle")
    /\ UNCHANGED <<platform, creation, deployer, retiring>>

-----------------------------------------------------------------------------
(* The background retirement, the platform and crashes.                    *)

\* _retire_templates: the platform deletes a template without sandboxes.
Retire(d) ==
    /\ \E t \in retiring[d] :
         /\ state' = [state EXCEPT ![t] = "deleted"]
         /\ retiring' = [retiring EXCEPT ![d] = @ \ {t}]
    /\ UNCHANGED <<image, record, pc, creation, deployer, deployed>>

\* Sandboxes kept them in use until the deadline.
GiveUp(d) ==
    /\ retiring[d] # {}
    /\ retiring' = [retiring EXCEPT ![d] = {}]
    /\ UNCHANGED <<platform, pc, creation, deployer, deployed>>

\* The platform brings the template up, or fails to.
Provision(t) ==
    /\ state[t] = "provisioning"
    /\ \E outcome \in {"active", "failed"} : state' = [state EXCEPT ![t] = outcome]
    /\ UNCHANGED <<image, record, pc, creation, deployer, retiring, deployed>>

\* The deploying process dies; deploy() is called again later.
Crash(d) ==
    /\ pc[d] # "idle" \/ retiring[d] # {}
    /\ Goto(d, "idle")
    /\ retiring' = [retiring EXCEPT ![d] = {}]
    /\ written' = written \ {d}
    /\ UNCHANGED <<platform, creation, built, existing, chosen, deploys>>

Creating(d)  == ListKnown(d) \/ Create(d) \/ CreateFails(d) \/ Poll(d) \/ CheckOperation(d) \/ TimesOut(d) \/ Reap(d)
Deploying(d) == Deploy(d) \/ Creating(d) \/ WriteRecord(d) \/ CutOver(d) \/ FillFails(d)

Next ==
    \/ \E d \in Deployers : Deploying(d) \/ Retire(d) \/ GiveUp(d) \/ Crash(d)
    \/ \E t \in Templates : Provision(t)

Spec == Init /\ [][Next]_vars

-----------------------------------------------------------------------------
\* The variables have their types (the platform's listing, deploy()'s
\* locals); a template exists before it is chosen or retired.
TypeOK ==
    /\ state \in [Templates -> {"none", "provisioning", "active", "failed", "deleted"}]
    /\ {image[t] : t \in Templates} \cup {record[t] : t \in Templates} \subseteq Images \cup {NoImage}
    /\ pc \in [Deployers -> {"idle", "list", "create", "poll", "reap", "record", "fill"}]
    /\ \A d \in Deployers :
         /\ {own[d], target[d], chosen[d]} \subseteq Templates \cup {NoTemplate}
         /\ existing[d] \cup known[d] \cup retiring[d] \subseteq {t \in Templates : state[t] # "none"}
         /\ pc[d] \in {"record", "fill"} => chosen[d] # NoTemplate /\ image[chosen[d]] # NoImage

\* get_engine's choice: the newest ACTIVE version.
Resolved == Newest({t \in Templates : state[t] = "active"})

\* Once a deploy had a version to serve, there always is one: the old ones go only after the
\* new one is up, whatever fails or crashes on the way.
AlwaysServed == deployed => Resolved # NoTemplate

\* A record describes what its template pins (write_deploy_record is given
\* the template that create_template returned).
RecordFits == \A t \in Templates : record[t] \in {NoImage, image[t]}

\* A deploy that went through leaves the version it was asked for, with its
\* record, unless the write of the record failed.
DeployIsServed ==
    \A d \in Deployers :
        pc[d] = "fill" /\ d \in written
        => image[chosen[d]] = built[d] /\ record[chosen[d]] = built[d] /\ chosen[d] >= Resolved
=============================================================================
