--------------------------- MODULE EngineTeardown ---------------------------
(***************************************************************************)
(* Retiring a version and deleting an engine (backend.py: _retire_         *)
(* templates, delete, delete_version; roster.py: clear) while clients of   *)
(* its versions run turns and refill their pools.                          *)
(*                                                                         *)
(* One engine is torn down; another one whose name extends its name shares *)
(* the host instance. What a claim does to the roster is in ReadyPool.     *)
(***************************************************************************)
EXTENDS Naturals

CONSTANTS
    Clients,        \* processes with a handle
    Handle,         \* the version each client's handle addresses
    Boxes,          \* the sandboxes the platform can create
    Own,            \* the versions of the engine
    Other,          \* the versions of the engine with the longer name
    Pooled,         \* the sandboxes in a pool at first, with their version
    MaxTurns,       \* bound: turns of each client
    Fails,          \* whether a call of the platform or the store may fail
    Deadline,       \* whether turns may outlast the deadline of the teardown
    None

\* What the constants have to satisfy.
TeardownAssumption ==
    /\ Own \cap Other = {}
    /\ Handle \in [Clients -> Own \cup Other]
    /\ DOMAIN Pooled \subseteq Boxes /\ \A b \in DOMAIN Pooled : Pooled[b] \in Own \cup Other
    /\ MaxTurns \in Nat /\ {Fails, Deadline} \subseteq BOOLEAN /\ None \notin Boxes \cup Own \cup Other

Versions == Own \cup Other

VARIABLES
    up,         \* the versions whose template exists
    box,        \* each sandbox: "absent", "live", "gone"
    tpl,        \* the version it was created from
    roster,     \* the sandboxes with an entry
    got,        \* the sandbox of each client's turn
    warm,       \* whether it came from the pool
    filling,    \* the sandbox each client's refill has created
    owed,       \* whether a refill is due
    turns,      \* turns of each client so far
    phase,      \* where the teardown stands
    targets,    \* the versions it takes down
    rows,       \* the listed sandboxes or entries it has yet to look at
    cleared,    \* the entries clear() has removed
    toClear,    \* the versions whose roster it has yet to clear
    before,     \* the engine's sandboxes when delete() began (history)
    mislaid     \* sandboxes a failed call left behind (history)

client   == <<got, warm, filling, owed, turns>>
teardown == <<phase, targets, rows, cleared, toClear, before, mislaid>>
vars     == <<up, box, tpl, roster, client, teardown>>

Live(V)  == {b \in Boxes : box[b] = "live" /\ tpl[b] \in V}
Listed(V) == {b \in roster : tpl[b] \in V}

Init ==
    /\ up = Versions
    /\ box = [b \in Boxes |-> IF b \in DOMAIN Pooled THEN "live" ELSE "absent"]
    /\ tpl = [b \in Boxes |-> IF b \in DOMAIN Pooled THEN Pooled[b] ELSE None]
    /\ roster = DOMAIN Pooled
    /\ got = [c \in Clients |-> None]
    /\ warm = [c \in Clients |-> FALSE]
    /\ filling = [c \in Clients |-> None]
    /\ owed = [c \in Clients |-> FALSE]
    /\ turns = [c \in Clients |-> 0]
    /\ phase = "idle"
    /\ targets = {} /\ rows = {} /\ cleared = {} /\ toClear = {}
    /\ before = {} /\ mislaid = {}

-----------------------------------------------------------------------------
(* Clients.                                                                *)

\* Creation without a look at the template.
BornAnyway(b, v) ==
    /\ box[b] = "absent"
    /\ box' = [box EXCEPT ![b] = "live"]
    /\ tpl' = [tpl EXCEPT ![b] = v]

\* The platform creates a sandbox of a version it has.
Born(b, v) ==
    /\ v \in up /\ box[b] = "absent"
    /\ box' = [box EXCEPT ![b] = "live"]
    /\ tpl' = [tpl EXCEPT ![b] = v]

MayStart(c) == got[c] = None /\ turns[c] < MaxTurns

\* _claim_sandbox from the pool of the handle's version.
ClaimWarm(c) ==
    /\ MayStart(c)
    /\ \E b \in Listed({Handle[c]}) :
         /\ roster' = roster \ {b}
         /\ got' = [got EXCEPT ![c] = b]
    /\ warm' = [warm EXCEPT ![c] = TRUE]
    /\ UNCHANGED <<up, box, tpl, filling, owed, turns, teardown>>

\* No entry: a sandbox is created, unless the version's template is gone.
ClaimCold(c) ==
    /\ MayStart(c) /\ Listed({Handle[c]}) = {}
    /\ IF Handle[c] \in up
       THEN /\ \E b \in Boxes : Born(b, Handle[c]) /\ got' = [got EXCEPT ![c] = b]
            /\ warm' = [warm EXCEPT ![c] = FALSE]
            /\ UNCHANGED turns
       ELSE /\ turns' = [turns EXCEPT ![c] = @ + 1]
            /\ UNCHANGED <<box, tpl, got, warm>>
    /\ UNCHANGED <<up, roster, filling, owed, teardown>>

\* The turn ends, its sandbox goes; a pool entry it used up is replaced.
EndTurn(c) ==
    /\ got[c] # None
    /\ box' = [box EXCEPT ![got[c]] = "gone"]
    /\ got' = [got EXCEPT ![c] = None]
    /\ turns' = [turns EXCEPT ![c] = @ + 1]
    /\ owed' = [owed EXCEPT ![c] = @ \/ warm[c]]
    /\ UNCHANGED <<up, tpl, roster, warm, filling, teardown>>

\* fill_pool creates a sandbox...
Refill(c) ==
    /\ owed[c] /\ filling[c] = None
    /\ \E b \in Boxes : Born(b, Handle[c]) /\ filling' = [filling EXCEPT ![c] = b]
    /\ owed' = [owed EXCEPT ![c] = FALSE]
    /\ UNCHANGED <<up, roster, got, warm, turns, teardown>>

\* ...and records it, whether its version is being retired or not.
Record(c) ==
    /\ filling[c] # None
    /\ roster' = roster \cup {filling[c]}
    /\ filling' = [filling EXCEPT ![c] = None]
    /\ UNCHANGED <<up, box, tpl, got, warm, owed, turns, teardown>>

-----------------------------------------------------------------------------
(* delete, delete_version and the cut-over.                                *)

\* _release_sandbox is best-effort.
Release(b) ==
    \/ box' = [box EXCEPT ![b] = IF @ = "live" THEN "gone" ELSE @] /\ UNCHANGED mislaid
    \/ Fails /\ mislaid' = mislaid \cup {b} /\ UNCHANGED box

\* delete() lists the versions.
BeginDelete ==
    /\ phase = "idle"
    /\ targets' = Own \cap up
    /\ toClear' = Own \cap up
    /\ before' = Live(Own)
    /\ phase' = "list"
    /\ UNCHANGED <<up, box, tpl, roster, client, rows, cleared, mislaid>>

\* delete_version(), or the cut-over of a deploy.
BeginRetire ==
    /\ phase = "idle"
    /\ \E v \in Own \cap up : targets' = {v} /\ toClear' = {v}
    /\ phase' = "clear"
    /\ UNCHANGED <<up, box, tpl, roster, client, rows, cleared, before, mislaid>>

\* _owns_sandbox: of those, the ones made from the engine's templates.
Sweep == Live(targets)

\* delete() lists the sandboxes; a listing that fails skips the sweep.
SweepList ==
    /\ phase = "list"
    /\ \/ rows' = Sweep /\ phase' = "sweep" /\ UNCHANGED mislaid
       \/ /\ Fails
          /\ phase' = "clear" /\ mislaid' = mislaid \cup before
          /\ UNCHANGED rows
    /\ UNCHANGED <<up, box, tpl, roster, client, targets, cleared, toClear, before>>

SweepOne ==
    /\ phase = "sweep"
    /\ \E b \in rows : Release(b) /\ rows' = rows \ {b}
    /\ UNCHANGED <<up, tpl, roster, client, phase, targets, cleared, toClear, before>>

SweepEnds ==
    /\ phase = "sweep" /\ rows = {}
    /\ phase' = "clear"
    /\ UNCHANGED <<up, box, tpl, roster, client, targets, rows, cleared, toClear, before, mislaid>>

\* roster.clear of the next version reads the entries...
ClearList ==
    /\ phase = "clear"
    /\ \E v \in toClear : rows' = Listed({v}) /\ toClear' = toClear \ {v}
    /\ phase' = "rows"
    /\ UNCHANGED <<up, box, tpl, roster, client, targets, cleared, before, mislaid>>

\* Every listed entry is handed to the caller.
ClearRowUnchecked ==
    /\ phase = "rows"
    /\ \E b \in rows :
         /\ rows' = rows \ {b}
         /\ roster' = roster \ {b}
         /\ cleared' = cleared \cup {b}
    /\ UNCHANGED <<up, box, tpl, client, phase, targets, toClear, before, mislaid>>

\* ...and removes those that are still there.
ClearRow ==
    /\ phase = "rows"
    /\ \E b \in rows :
         /\ rows' = rows \ {b}
         /\ roster' = roster \ {b}
         /\ cleared' = IF b \in roster THEN cleared \cup {b} ELSE cleared
    /\ UNCHANGED <<up, box, tpl, client, phase, targets, toClear, before, mislaid>>

\* A delete raises, with or without having deleted: clear() returns nothing
\* of what it has removed.
ClearFails ==
    /\ phase = "rows" /\ Fails
    /\ \E b \in rows, deleted \in BOOLEAN :
         LET gone == IF deleted THEN roster \cap {b} ELSE {}
         IN  roster' = roster \ gone /\ mislaid' = mislaid \cup cleared \cup gone
    /\ rows' = {} /\ cleared' = {}
    /\ phase' = "clear"
    /\ UNCHANGED <<up, box, tpl, client, targets, toClear, before>>

ClearEnds ==
    /\ phase = "rows" /\ rows = {}
    /\ phase' = "release"
    /\ UNCHANGED <<up, box, tpl, roster, client, targets, rows, cleared, toClear, before, mislaid>>

\* The sandboxes of the cleared entries are deleted...
ReleaseCleared ==
    /\ phase = "release"
    /\ \E b \in cleared : Release(b) /\ cleared' = cleared \ {b}
    /\ UNCHANGED <<up, tpl, roster, client, phase, targets, rows, toClear, before>>

\* ...until none is left.
ReleasesEnd ==
    /\ phase = "release" /\ cleared = {}
    /\ phase' = "clear"
    /\ UNCHANGED <<up, box, tpl, roster, client, targets, rows, cleared, toClear, before, mislaid>>

\* A template without sandboxes is deleted; the others are tried again.
DeleteTemplate ==
    /\ phase = "clear" /\ toClear = {}
    /\ \E v \in targets :
         /\ Live({v}) = {}
         /\ up' = up \ {v}
         /\ targets' = targets \ {v}
    /\ UNCHANGED <<box, tpl, roster, client, phase, rows, cleared, toClear, before, mislaid>>

\* The deadline passes while sandboxes are left, or all is done.
EndTeardown ==
    /\ phase = "clear" /\ toClear = {}
    /\ \/ targets = {}
       \/ Deadline /\ \A v \in targets : Live({v}) # {}
    /\ phase' = "done"
    /\ UNCHANGED <<up, box, tpl, roster, client, targets, rows, cleared, toClear, before, mislaid>>

Using(c) == ClaimWarm(c) \/ ClaimCold(c) \/ EndTurn(c) \/ Refill(c) \/ Record(c)
Sweeping == SweepList \/ SweepOne \/ SweepEnds
Clearing == ClearList \/ ClearRow \/ ClearFails \/ ClearEnds \/ ReleaseCleared \/ ReleasesEnd
Ending   == DeleteTemplate \/ EndTeardown

Next == (\E c \in Clients : Using(c)) \/ BeginDelete \/ BeginRetire \/ Sweeping \/ Clearing \/ Ending

Spec == Init /\ [][Next]_vars

\* The teardown runs on, clients end their turns and refills.
Fairness ==
    /\ WF_vars(Sweeping \/ Clearing \/ Ending)
    /\ \A c \in Clients : WF_vars(EndTurn(c) \/ Record(c))

FairSpec == Spec /\ Fairness

-----------------------------------------------------------------------------
\* The variables have their types (the platform's and the roster's listings,
\* the teardown's locals); a live sandbox has a template that exists.
TypeOK ==
    /\ up \subseteq Versions /\ targets \subseteq Own /\ toClear \subseteq targets
    /\ box \in [Boxes -> {"absent", "live", "gone"}]
    /\ \A b \in Boxes : box[b] = "live" => tpl[b] \in up
    /\ roster \cup rows \cup cleared \cup before \cup mislaid \subseteq Boxes
    /\ \A c \in Clients : {got[c], filling[c]} \subseteq Boxes \cup {None}
    /\ roster \cap {got[c] : c \in Clients} = {}

\* The teardown never deletes a sandbox of the other engine, although its
\* display name has the same prefix (_owns_sandbox).
OtherIsLeftAlone ==
    [][\A b \in Boxes : box[b] = "live" /\ box'[b] = "gone" /\ tpl[b] \in Other
          => \E c \in Clients : got[c] = b]_vars

\* When delete() has ended, no sandbox is left of those the engine had when
\* it began: pooled, claimed, orphaned or not yet recorded (delete's sweep).
NothingSurvives == phase = "done" => \A b \in before : box[b] = "gone" \/ b \in mislaid

\* An entry that clear() takes off the roster is handed to the caller, who
\* deletes its sandbox: no client holds it, and no other will find it.
ClearedAreDeleted ==
    phase = "done" => \A b \in Live(Own) :
        b \in roster \cup mislaid \/ \E c \in Clients : b \in {got[c], filling[c]}

\* A refill has put an entry on a roster that was cleared: nobody clears it
\* again, and its sandbox keeps the template until its time is over.
Refilled(v) == phase = "clear" /\ v \notin toClear /\ roster \cap Live({v}) # {}

\* The version that is retired goes, once the turns of its clients are over,
\* unless one of them refills its pool after the clearing; its deadline has
\* not passed before (_retire_templates tries again).
VersionGoes ==
    \A v \in Own : (phase = "clear" /\ v \in targets) ~> (v \notin up \/ Refilled(v))

\* A cut-over or delete_version() deletes no sandbox under a turn: clear()
\* hands over only the entries it has won.
TurnsAreSpared ==
    [][\A c \in Clients :
          got[c] # None /\ got'[c] = got[c] /\ box[got[c]] = "live" /\ box'[got[c]] = "gone"
          => phase = "sweep"]_vars
=============================================================================
