---------------------------- MODULE EngineProofs ----------------------------
(***************************************************************************)
(* Proofs about the engine's components as MCEngine puts them together,    *)
(* for every value of the constants. A part that rests keeps its           *)
(* invariant, so each component's is proved from its own Next alone.       *)
(***************************************************************************)
EXTENDS MCEngine, WellFoundedInduction, TLAPS

-----------------------------------------------------------------------------
(* exec(): the turn that a command runs in.                                *)

\* Once a command has run, the call has read both names and keeps them, and
\* they named the turn whose worker took it.
NamesKept ==
    /\ within # 0 => x_pc \in {"posted", "answered", "raised"} /\ within = id
    /\ x_pc = "posted" => x_target # 0
    /\ x_phase # "off" => within # 0

\* While it drains at its timeout, what was in its process group is gone.
GroupKilled ==
    /\ child \in {"none", "group", "session", "quiet", "killed"}
    /\ x_phase = "draining" => shell # "up" /\ child \notin {"group", "quiet"}
    /\ rc = 124 => x_phase = "ended" /\ shell # "up" /\ child \in {"none", "killed"}

ExecInv == NamesKept /\ GroupKilled

\* A step of the whole is a step of exec(), or leaves it alone.
LEMMA ExecMoves == [Next]_vars => [Call!Next]_(Call!vars)
<1>1. part = "exec" /\ Next => Call!Next
  BY DEF Next
<1>2. part # "exec" /\ Next => UNCHANGED call
  BY DEF Next
<1>3. UNCHANGED vars => UNCHANGED call
  BY DEF vars
<1>4. UNCHANGED call => UNCHANGED Call!vars
  BY DEF call, Call!vars, Call!session, Call!client, Call!command
<1>5. QED
  BY <1>1, <1>2, <1>3, <1>4

LEMMA ExecInvInit == Call!Init => ExecInv
BY DEF Call!Init, ExecInv, NamesKept, GroupKilled

\* A command is taken for the turn that was named, and only once; the names
\* are read before the call is posted.
LEMMA NamesStep == NamesKept /\ [Call!Next]_(Call!vars) => NamesKept'
<1> SUFFICES ASSUME NamesKept, [Call!Next]_(Call!vars) PROVE NamesKept'
  OBVIOUS
<1> USE DEF NamesKept, Call!session, Call!client, Call!command
<1>1. CASE Call!Run \/ Call!Dispatched \/ Call!RunEnds
  BY <1>1 DEF Call!Run, Call!Dispatched, Call!RunEnds
<1>2. CASE \E t \in Call!Turns : Call!WorkerEnds(t) \/ Call!SandboxGoes(t)
  BY <1>2 DEF Call!WorkerEnds, Call!SandboxGoes
<1>3. CASE Call!Call \/ Call!StopsWaiting \/ Call!ReadsSandbox \/ Call!ReadsTurn
  BY <1>3 DEF Call!Call, Call!StopsWaiting, Call!ReadsSandbox, Call!ReadsTurn
<1>4. CASE Call!Answered \/ Call!CallCut \/ Call!WorkerRefuses
  BY <1>4 DEF Call!Answered, Call!CallCut, Call!WorkerRefuses
<1>5. CASE Call!WorkerTakes
  BY <1>5 DEF Call!WorkerTakes, Call!Names
<1>6. CASE Call!ShellExits \/ Call!ChildExits \/ Call!TimePasses
  BY <1>6 DEF Call!ShellExits, Call!ChildExits, Call!TimePasses
<1>7. CASE Call!Communicated \/ Call!KillGroup \/ Call!Drained
  BY <1>7 DEF Call!Communicated, Call!KillGroup, Call!Drained
<1>8. CASE UNCHANGED Call!vars
  BY <1>8 DEF Call!vars
<1>9. QED
  BY <1>1, <1>2, <1>3, <1>4, <1>5, <1>6, <1>7, <1>8 DEF Call!Next

\* killpg takes the shell and its group; only a drained command answers 124.
LEMMA GroupStep == NamesKept /\ GroupKilled /\ [Call!Next]_(Call!vars) => GroupKilled'
<1> SUFFICES ASSUME NamesKept, GroupKilled, [Call!Next]_(Call!vars) PROVE GroupKilled'
  OBVIOUS
<1> USE DEF NamesKept, GroupKilled, Call!session, Call!client, Call!command
<1>1. CASE Call!Run \/ Call!Dispatched \/ Call!RunEnds
  BY <1>1 DEF Call!Run, Call!Dispatched, Call!RunEnds
<1>2. CASE \E t \in Call!Turns : Call!WorkerEnds(t) \/ Call!SandboxGoes(t)
  BY <1>2 DEF Call!WorkerEnds, Call!SandboxGoes
<1>3. CASE Call!Call \/ Call!StopsWaiting \/ Call!ReadsSandbox \/ Call!ReadsTurn
  BY <1>3 DEF Call!Call, Call!StopsWaiting, Call!ReadsSandbox, Call!ReadsTurn
<1>4. CASE Call!Answered \/ Call!CallCut \/ Call!WorkerRefuses
  BY <1>4 DEF Call!Answered, Call!CallCut, Call!WorkerRefuses
<1>5. CASE Call!WorkerTakes
  BY <1>5, EngineAssumption DEF Call!WorkerTakes, Call!ExecAssumption
<1>6. CASE Call!ShellExits \/ Call!ChildExits \/ Call!TimePasses
  BY <1>6 DEF Call!ShellExits, Call!ChildExits, Call!TimePasses
<1>7. CASE Call!Communicated \/ Call!KillGroup \/ Call!Drained
  BY <1>7 DEF Call!Communicated, Call!KillGroup, Call!Drained, Call!PipesClosed
<1>8. CASE UNCHANGED Call!vars
  BY <1>8 DEF Call!vars
<1>9. QED
  BY <1>1, <1>2, <1>3, <1>4, <1>5, <1>6, <1>7, <1>8 DEF Call!Next

LEMMA ExecInvariant == Spec => []ExecInv
<1>1. Init => ExecInv
  BY ExecInvInit DEF Init
<1>2. ExecInv /\ [Next]_vars => ExecInv'
  BY ExecMoves, NamesStep, GroupStep DEF ExecInv
<1>3. QED
  BY <1>1, <1>2, PTL DEF Spec

\* However the session moves on while exec() reads the sandbox and the turn's
\* id, the command runs in the workspace of the turn it named, or nowhere.
THEOREM CommandRunsWhereNamed == Spec => []RunsWhereNamed
<1>1. ExecInv => RunsWhereNamed
  BY DEF ExecInv, NamesKept, RunsWhereNamed, Call!RunsWhereNamed
<1>2. QED
  BY <1>1, ExecInvariant, PTL

\* A command that answers 124 left nothing of its process group behind,
\* whatever it had started.
THEOREM NothingIsLeft == Spec => []Call!NothingLeftAtTheTimeout
<1>1. ExecInv => Call!NothingLeftAtTheTimeout
  BY DEF ExecInv, GroupKilled, Call!NothingLeftAtTheTimeout
<1>2. QED
  BY <1>1, ExecInvariant, PTL

-----------------------------------------------------------------------------
(* The pool: ReadyPoolProofs has the invariant and its proof.              *)

PoolP == INSTANCE ReadyPoolProofs WITH
    Clients <- PoolClients, Sandboxes <- PoolBoxes, Initial <- PoolIdle

\* Both instances of ReadyPool have the same actions.
LEMMA SamePool == (Pool!Init => PoolP!Init) /\ ([Pool!Next]_(Pool!vars) => [PoolP!Next]_(PoolP!vars))
<1>1. Pool!Init => PoolP!Init
  BY DEF Pool!Init, PoolP!Init, Pool!Occurs, PoolP!Occurs
<1>2. ASSUME NEW c \in PoolClients, Pool!Claiming(c) PROVE PoolP!Claiming(c)
  BY <1>2 DEF Pool!Claiming, PoolP!Claiming, Pool!List, PoolP!List, Pool!PruneRow, PoolP!PruneRow,
         Pool!TakeRow, PoolP!TakeRow, Pool!SkipRow, PoolP!SkipRow, Pool!RowFails,
         PoolP!RowFails, Pool!ClaimWarm, PoolP!ClaimWarm, Pool!ClaimCold, PoolP!ClaimCold,
         Pool!ClaimFails, PoolP!ClaimFails, Pool!Row, PoolP!Row, Pool!Walking, PoolP!Walking,
         Pool!NextRow, PoolP!NextRow, Pool!EndDispatch,
         PoolP!EndDispatch, Pool!Born, PoolP!Born, Pool!SchedulePruned, PoolP!SchedulePruned,
         Pool!Goto, PoolP!Goto, Pool!held, PoolP!held, Pool!walk, PoolP!walk, Pool!engine,
         PoolP!engine
<1>3. ASSUME NEW c \in PoolClients, Pool!Running(c) PROVE PoolP!Running(c)
  BY <1>3 DEF Pool!Running, PoolP!Running, Pool!TurnStarts, PoolP!TurnStarts, Pool!TurnRefused,
         PoolP!TurnRefused, Pool!TurnOver, PoolP!TurnOver, Pool!EndDispatch, PoolP!EndDispatch,
         Pool!Release, PoolP!Release, Pool!MayTryAgain, PoolP!MayTryAgain, Pool!Goto,
         PoolP!Goto, Pool!held, PoolP!held, Pool!walk, PoolP!walk, Pool!engine, PoolP!engine
<1>4. ASSUME NEW c \in PoolClients, Pool!Background(c) PROVE PoolP!Background(c)
  BY <1>4 DEF Pool!Background, PoolP!Background, Pool!RefillFails, PoolP!RefillFails, Pool!Refill,
         PoolP!Refill, Pool!Record, PoolP!Record, Pool!RecordFails, PoolP!RecordFails,
         Pool!RunDelete, PoolP!RunDelete, Pool!Born, PoolP!Born, Pool!Release, PoolP!Release,
         Pool!held, PoolP!held, Pool!walk, PoolP!walk, Pool!engine, PoolP!engine
<1>5. ASSUME NEW c \in PoolClients, Pool!Waiting(c) PROVE PoolP!Waiting(c)
  BY <1>5 DEF Pool!Waiting, PoolP!Waiting, Pool!Look, PoolP!Look, Pool!Answers, PoolP!Answers,
         Pool!DoesNotAnswer, PoolP!DoesNotAnswer, Pool!DropRow, PoolP!DropRow, Pool!EndLook,
         PoolP!EndLook, Pool!NextRow, PoolP!NextRow, Pool!Row, PoolP!Row, Pool!Goto, PoolP!Goto, Pool!held, PoolP!held, Pool!walk, PoolP!walk,
         Pool!engine, PoolP!engine
<1>6. ASSUME NEW c \in PoolClients, Pool!Crash(c) PROVE PoolP!Crash(c)
  BY <1>6 DEF Pool!Crash, PoolP!Crash, Pool!Goto, PoolP!Goto
<1>7. (\E i \in DOMAIN created : Pool!Expire(i)) => \E i \in DOMAIN created : PoolP!Expire(i)
  BY DEF Pool!Expire, PoolP!Expire, Pool!walk, PoolP!walk, Pool!held, PoolP!held, Pool!engine,
         PoolP!engine
<1>8. (\E s \in PoolBoxes : Pool!Vanish(s)) => \E s \in PoolBoxes : PoolP!Vanish(s)
  BY DEF Pool!Vanish, PoolP!Vanish, Pool!walk, PoolP!walk, Pool!held, PoolP!held, Pool!engine,
         PoolP!engine
<1>9. UNCHANGED Pool!vars => UNCHANGED PoolP!vars
  BY DEF Pool!vars, PoolP!vars, Pool!walk, PoolP!walk, Pool!held, PoolP!held, Pool!engine,
         PoolP!engine
<1>10. QED
  BY <1>1, <1>2, <1>3, <1>4, <1>5, <1>6, <1>7, <1>8, <1>9 DEF Pool!Next, PoolP!Next

LEMMA PoolAssumed == PoolP!PoolAssumption
  BY EngineAssumption DEF Pool!PoolAssumption, PoolP!PoolAssumption

LEMMA PoolMoves == [Next]_vars => [PoolP!Next]_(PoolP!vars)
<1>1. [Next]_vars => [Pool!Next]_(Pool!vars)
  <2>1. Next => Pool!Next \/ UNCHANGED pool
    BY DEF Next
  <2>2. UNCHANGED vars => UNCHANGED pool
    BY DEF vars
  <2>3. UNCHANGED pool => UNCHANGED Pool!vars
    BY DEF pool, Pool!vars, Pool!walk, Pool!held, Pool!engine
  <2>4. QED
    BY <2>1, <2>2, <2>3
<1>2. QED
  BY <1>1, SamePool

LEMMA PoolStarts == Init => PoolP!Init
  BY SamePool DEF Init

\* The invariant of the pool, whatever part moves.
LEMMA PoolInvariant == Spec => []PoolP!RosterInv
<1>1. Init => PoolP!RosterInv
  BY PoolAssumed, PoolStarts, PoolP!RosterInvInit
<1>2. PoolP!RosterInv /\ [Next]_vars => PoolP!RosterInv'
  BY PoolAssumed, PoolMoves, PoolP!RosterInvStep
<1>3. QED
  BY <1>1, <1>2, PTL DEF Spec

\* A step of the whole is a step of what the pool promises, or leaves it.
Stages == [s \in PoolBoxes |-> PoolP!Stage(s)]
Hands  == [s \in PoolBoxes |-> {c \in PoolClients : s \in PoolP!InHand(c)}]

LEMMA SameStages ==
    /\ [s \in PoolBoxes |-> Pool!Stage(s)] = Stages
    /\ [s \in PoolBoxes |-> {c \in PoolClients : s \in Pool!InHand(c)}] = Hands
  BY DEF Stages, Hands, Pool!Stage, PoolP!Stage, Pool!InHand, PoolP!InHand

LEMMA PoolServes == Spec => Pool!ServedOnceSpec
<1>1. Init => PoolP!Service!Init
  BY PoolAssumed, PoolStarts, PoolP!ServesInit
<1>2. PoolP!RosterInv => PoolP!StagesAgree
  BY PoolAssumed, PoolP!StagesAreSeen DEF PoolP!RosterInv
<1>3. PoolP!RosterInv /\ PoolP!RosterInv' /\ PoolP!StagesAgree /\ PoolP!StagesAgree' /\ [Next]_vars
        => [PoolP!Service!Next]_<<Stages, Hands>>
  BY PoolAssumed, PoolMoves, PoolP!ServesStep DEF Stages, Hands
<1>4. PoolP!Service!Init => Pool!Service!Init
  BY SameStages DEF PoolP!Service!Init, Pool!Service!Init, Stages, Hands
<1>5. [PoolP!Service!Next]_<<Stages, Hands>>
        => [Pool!Service!Next]_<<[s \in PoolBoxes |-> Pool!Stage(s)],
                                 [s \in PoolBoxes |-> {c \in PoolClients : s \in Pool!InHand(c)}]>>
  BY DEF Stages, Hands, PoolP!Service!Next, Pool!Service!Next, PoolP!Service!Step, Pool!Service!Step,
         PoolP!Service!Move, Pool!Service!Move, PoolP!Service!Moves, Pool!Service!Moves,
         PoolP!Service!Held, Pool!Service!Held, PoolP!Service!Stages, Pool!Service!Stages,
         Pool!Stage, PoolP!Stage, Pool!InHand, PoolP!InHand
<1>6. QED
  BY <1>1, <1>2, <1>3, <1>4, <1>5, PoolInvariant, PTL DEF Spec, Pool!ServedOnceSpec, Pool!Service!Spec

-----------------------------------------------------------------------------
(* The teardown of an engine.                                              *)

TeardownTypes ==
    /\ up \subseteq Own \cup Other
    /\ t_box \in [Boxes -> {"absent", "live", "gone"}]
    /\ tpl \in [Boxes -> Own \cup Other \cup {None}]
    /\ t_roster \subseteq Boxes
    /\ t_got \in [Users -> Boxes \cup {None}]
    /\ t_filling \in [Users -> Boxes \cup {None}]
    /\ phase \in {"idle", "list", "sweep", "clear", "rows", "release", "done"}
    /\ targets \subseteq Own /\ toClear \subseteq targets
    /\ t_rows \subseteq Boxes /\ cleared \subseteq Boxes /\ before \subseteq Boxes /\ t_mislaid \subseteq Boxes

\* A live sandbox has a template that exists.
TemplatesStand == \A b \in Boxes : t_box[b] = "live" => tpl[b] \in up

\* What is listed or held was created, so it keeps its template; what the
\* teardown looks at is the engine's own.
ListedWereCreated ==
    /\ \A b \in t_roster \cup t_rows \cup cleared \cup before : t_box[b] # "absent"
    /\ \A b \in t_rows \cup cleared \cup before : tpl[b] \in Own
    /\ \A c \in Users : t_got[c] # None => t_box[t_got[c]] # "absent"
    /\ \A c \in Users : t_filling[c] # None => t_box[t_filling[c]] # "absent"

\* A sandbox is in one place: on the roster, cleared, a turn's, a refill's.
OnePlace ==
    /\ t_roster \cap cleared = {}
    /\ \A c \in Users : {t_got[c], t_filling[c]} \cap (t_roster \cup cleared) = {}
    /\ \A c, d \in Users : t_got[c] = t_filling[d] => t_got[c] = None
    /\ \A c, d \in Users : c # d /\ t_got[c] = t_got[d] => t_got[c] = None
    /\ \A c, d \in Users : c # d /\ t_filling[c] = t_filling[d] => t_filling[c] = None

\* What the entries cleared so far belong to is deleted before the next
\* version is cleared.
ClearedIsReleased == phase \notin {"rows", "release"} => cleared = {}

\* How far the sweep of delete() has come with the sandboxes of its beginning.
SweptSoFar ==
    /\ phase = "idle" => before = {}
    /\ phase = "list" => Own \cap up \subseteq targets
    /\ phase = "sweep" => \A b \in before : t_box[b] = "gone" \/ b \in t_mislaid \/ b \in t_rows
    /\ phase \notin {"idle", "list", "sweep"} => \A b \in before : t_box[b] = "gone" \/ b \in t_mislaid

\* A live sandbox of the engine is in one of the places.
SomePlace ==
    \A b \in Boxes : t_box[b] = "live" =>
        b \in t_roster \cup t_mislaid \cup cleared \/ \E c \in Users : b \in {t_got[c], t_filling[c]}

TeardownInv ==
    TeardownTypes /\ TemplatesStand /\ ListedWereCreated /\ OnePlace /\ ClearedIsReleased
    /\ SweptSoFar /\ SomePlace

\* What the proofs need of the constants.
LEMMA NoneIsNoBox == None \notin Boxes /\ Handle \in [Users -> Own \cup Other] /\ Own \cap Other = {}
BY EngineAssumption DEF Teardown!TeardownAssumption

\* The types.
LEMMA TeardownTypesStep == TeardownTypes /\ [Teardown!Next]_(Teardown!vars) => TeardownTypes'
<1> SUFFICES ASSUME TeardownTypes, [Teardown!Next]_(Teardown!vars) PROVE TeardownTypes'
  OBVIOUS
<1> USE DEF TeardownTypes, Teardown!client, Teardown!teardown
<1>1. CASE \E c \in Users : Teardown!ClaimWarm(c)
  BY <1>1, NoneIsNoBox DEF Teardown!ClaimWarm, Teardown!MayStart,
         Teardown!Listed
<1>2. CASE \E c \in Users : Teardown!ClaimCold(c)
  BY <1>2, EngineAssumption DEF Teardown!ClaimCold, Teardown!MayStart,
         Teardown!Listed, Teardown!Born
<1>3. CASE \E c \in Users : Teardown!EndTurn(c)
  BY <1>3, EngineAssumption DEF Teardown!EndTurn
<1>4. CASE \E c \in Users : Teardown!Refill(c)
  BY <1>4, EngineAssumption DEF Teardown!Refill, Teardown!Born
<1>5. CASE \E c \in Users : Teardown!Record(c)
  BY <1>5, EngineAssumption DEF Teardown!Record
<1>6. CASE Teardown!BeginDelete
  BY <1>6, EngineAssumption DEF Teardown!BeginDelete, Teardown!Live
<1>7. CASE Teardown!BeginRetire
  BY <1>7, EngineAssumption DEF Teardown!BeginRetire
<1>8. CASE Teardown!SweepList
  BY <1>8, EngineAssumption DEF Teardown!SweepList, Teardown!Sweep,
         Teardown!Live
<1>9. CASE Teardown!SweepOne
  BY <1>9, EngineAssumption DEF Teardown!SweepOne, Teardown!Release
<1>10. CASE Teardown!SweepEnds
  BY <1>10, EngineAssumption DEF Teardown!SweepEnds
<1>11. CASE Teardown!ClearList
  BY <1>11, EngineAssumption DEF Teardown!ClearList, Teardown!Listed
<1>12. CASE Teardown!ClearRow
  BY <1>12, EngineAssumption DEF Teardown!ClearRow
<1>13. CASE Teardown!ClearFails
  BY <1>13, EngineAssumption DEF Teardown!ClearFails
<1>14. CASE Teardown!ClearEnds
  BY <1>14, EngineAssumption DEF Teardown!ClearEnds
<1>15. CASE Teardown!ReleaseCleared
  BY <1>15, EngineAssumption DEF Teardown!ReleaseCleared, Teardown!Release
<1>16. CASE Teardown!ReleasesEnd
  BY <1>16, EngineAssumption DEF Teardown!ReleasesEnd
<1>17. CASE Teardown!DeleteTemplate
  BY <1>17, EngineAssumption DEF Teardown!DeleteTemplate, Teardown!Live
<1>18. CASE Teardown!EndTeardown
  BY <1>18, EngineAssumption DEF Teardown!EndTeardown, Teardown!Live
<1>19. CASE UNCHANGED Teardown!vars
  BY <1>19 DEF Teardown!vars
<1>20. QED
  BY <1>1, <1>2, <1>3, <1>4, <1>5, <1>6, <1>7, <1>8, <1>9, <1>10, <1>11,
         <1>12, <1>13, <1>14, <1>15, <1>16, <1>17, <1>18, <1>19
     DEF Teardown!Next, Teardown!Using, Teardown!Sweeping, Teardown!Clearing, Teardown!Ending

LEMMA TemplatesStep == TeardownInv /\ [Teardown!Next]_(Teardown!vars) => TemplatesStand'
<1> SUFFICES ASSUME TeardownInv, [Teardown!Next]_(Teardown!vars) PROVE TemplatesStand'
  OBVIOUS
<1> USE DEF TeardownInv, TeardownTypes, TemplatesStand, Teardown!client,
         Teardown!teardown
<1>1. CASE \E c \in Users : Teardown!ClaimWarm(c)
  BY <1>1 DEF Teardown!ClaimWarm, Teardown!MayStart, Teardown!Listed
<1>2. CASE \E c \in Users : Teardown!ClaimCold(c)
  BY <1>2 DEF Teardown!ClaimCold, Teardown!MayStart, Teardown!Listed,
         Teardown!Born
<1>3. CASE \E c \in Users : Teardown!EndTurn(c)
  BY <1>3 DEF Teardown!EndTurn
<1>4. CASE \E c \in Users : Teardown!Refill(c)
  BY <1>4 DEF Teardown!Refill, Teardown!Born
<1>5. CASE \E c \in Users : Teardown!Record(c)
  BY <1>5 DEF Teardown!Record
<1>6. CASE Teardown!BeginDelete
  BY <1>6 DEF Teardown!BeginDelete, Teardown!Live
<1>7. CASE Teardown!BeginRetire
  BY <1>7 DEF Teardown!BeginRetire
<1>8. CASE Teardown!SweepList
  BY <1>8 DEF Teardown!SweepList, Teardown!Sweep, Teardown!Live
<1>9. CASE Teardown!SweepOne
  BY <1>9 DEF Teardown!SweepOne, Teardown!Release
<1>10. CASE Teardown!SweepEnds
  BY <1>10 DEF Teardown!SweepEnds
<1>11. CASE Teardown!ClearList
  BY <1>11 DEF Teardown!ClearList, Teardown!Listed
<1>12. CASE Teardown!ClearRow
  BY <1>12 DEF Teardown!ClearRow
<1>13. CASE Teardown!ClearFails
  BY <1>13 DEF Teardown!ClearFails
<1>14. CASE Teardown!ClearEnds
  BY <1>14 DEF Teardown!ClearEnds
<1>15. CASE Teardown!ReleaseCleared
  BY <1>15 DEF Teardown!ReleaseCleared, Teardown!Release
<1>16. CASE Teardown!ReleasesEnd
  BY <1>16 DEF Teardown!ReleasesEnd
<1>17. CASE Teardown!DeleteTemplate
  BY <1>17 DEF Teardown!DeleteTemplate, Teardown!Live
<1>18. CASE Teardown!EndTeardown
  BY <1>18 DEF Teardown!EndTeardown, Teardown!Live
<1>19. CASE UNCHANGED Teardown!vars
  BY <1>19 DEF Teardown!vars
<1>20. QED
  BY <1>1, <1>2, <1>3, <1>4, <1>5, <1>6, <1>7, <1>8, <1>9, <1>10, <1>11,
         <1>12, <1>13, <1>14, <1>15, <1>16, <1>17, <1>18, <1>19
     DEF Teardown!Next, Teardown!Using, Teardown!Sweeping, Teardown!Clearing, Teardown!Ending

LEMMA ListedStep == TeardownInv /\ [Teardown!Next]_(Teardown!vars) => ListedWereCreated'
<1> SUFFICES ASSUME TeardownInv, [Teardown!Next]_(Teardown!vars) PROVE ListedWereCreated'
  OBVIOUS
<1> USE DEF TeardownInv, TeardownTypes, ListedWereCreated, Teardown!client,
         Teardown!teardown
<1>1. CASE \E c \in Users : Teardown!ClaimWarm(c)
  BY <1>1 DEF Teardown!ClaimWarm, Teardown!MayStart, Teardown!Listed
<1>2. CASE \E c \in Users : Teardown!ClaimCold(c)
  BY <1>2 DEF Teardown!ClaimCold, Teardown!MayStart, Teardown!Listed,
         Teardown!Born
<1>3. CASE \E c \in Users : Teardown!EndTurn(c)
  BY <1>3 DEF Teardown!EndTurn
<1>4. CASE \E c \in Users : Teardown!Refill(c)
  BY <1>4 DEF Teardown!Refill, Teardown!Born
<1>5. CASE \E c \in Users : Teardown!Record(c)
  BY <1>5 DEF Teardown!Record
<1>6. CASE Teardown!BeginDelete
  BY <1>6 DEF Teardown!BeginDelete, Teardown!Live
<1>7. CASE Teardown!BeginRetire
  BY <1>7 DEF Teardown!BeginRetire
<1>8. CASE Teardown!SweepList
  BY <1>8 DEF Teardown!SweepList, Teardown!Sweep, Teardown!Live
<1>9. CASE Teardown!SweepOne
  BY <1>9 DEF Teardown!SweepOne, Teardown!Release
<1>10. CASE Teardown!SweepEnds
  BY <1>10 DEF Teardown!SweepEnds
<1>11. CASE Teardown!ClearList
  BY <1>11 DEF Teardown!ClearList, Teardown!Listed
<1>12. CASE Teardown!ClearRow
  BY <1>12 DEF Teardown!ClearRow
<1>13. CASE Teardown!ClearFails
  BY <1>13 DEF Teardown!ClearFails
<1>14. CASE Teardown!ClearEnds
  BY <1>14 DEF Teardown!ClearEnds
<1>15. CASE Teardown!ReleaseCleared
  BY <1>15 DEF Teardown!ReleaseCleared, Teardown!Release
<1>16. CASE Teardown!ReleasesEnd
  BY <1>16 DEF Teardown!ReleasesEnd
<1>17. CASE Teardown!DeleteTemplate
  BY <1>17 DEF Teardown!DeleteTemplate, Teardown!Live
<1>18. CASE Teardown!EndTeardown
  BY <1>18 DEF Teardown!EndTeardown, Teardown!Live
<1>19. CASE UNCHANGED Teardown!vars
  BY <1>19 DEF Teardown!vars
<1>20. QED
  BY <1>1, <1>2, <1>3, <1>4, <1>5, <1>6, <1>7, <1>8, <1>9, <1>10, <1>11,
         <1>12, <1>13, <1>14, <1>15, <1>16, <1>17, <1>18, <1>19
     DEF Teardown!Next, Teardown!Using, Teardown!Sweeping, Teardown!Clearing, Teardown!Ending

LEMMA OnePlaceStep == TeardownInv /\ [Teardown!Next]_(Teardown!vars) => OnePlace'
<1> SUFFICES ASSUME TeardownInv, [Teardown!Next]_(Teardown!vars) PROVE OnePlace'
  OBVIOUS
<1> USE DEF TeardownInv, TeardownTypes, ListedWereCreated, OnePlace,
         Teardown!client, Teardown!teardown
<1>1. CASE \E c \in Users : Teardown!ClaimWarm(c)
  BY <1>1 DEF Teardown!ClaimWarm, Teardown!MayStart, Teardown!Listed
<1>2. CASE \E c \in Users : Teardown!ClaimCold(c)
  BY <1>2 DEF Teardown!ClaimCold, Teardown!MayStart, Teardown!Listed,
         Teardown!Born
<1>3. CASE \E c \in Users : Teardown!EndTurn(c)
  BY <1>3, NoneIsNoBox DEF Teardown!EndTurn
<1>4. CASE \E c \in Users : Teardown!Refill(c)
  BY <1>4 DEF Teardown!Refill, Teardown!Born
<1>5. ASSUME NEW e \in Users, Teardown!Record(e) PROVE OnePlace'
  <2>1. \A c \in Users : t_filling'[c] = IF c = e THEN None ELSE t_filling[c]
    BY <1>5 DEF Teardown!Record
  <2>2. UNCHANGED <<t_got, cleared>> /\ t_roster' = t_roster \cup {t_filling[e]} /\ t_filling[e] # None
    BY <1>5 DEF Teardown!Record
  <2>3. (t_roster \cap cleared = {})'
    BY <2>2
  <2>4. ASSUME NEW c \in Users PROVE ({t_got[c], t_filling[c]} \cap (t_roster \cup cleared) = {})'
    BY <2>1, <2>2, NoneIsNoBox
  <2>5. ASSUME NEW c \in Users, NEW d \in Users
        PROVE  /\ (t_got[c] = t_filling[d] => t_got[c] = None)'
               /\ (c # d /\ t_got[c] = t_got[d] => t_got[c] = None)'
               /\ (c # d /\ t_filling[c] = t_filling[d] => t_filling[c] = None)'
    BY <2>1, <2>2
  <2>6. QED
    BY <2>3, <2>4, <2>5
<1>6. CASE Teardown!BeginDelete
  BY <1>6 DEF Teardown!BeginDelete, Teardown!Live
<1>7. CASE Teardown!BeginRetire
  BY <1>7 DEF Teardown!BeginRetire
<1>8. CASE Teardown!SweepList
  BY <1>8 DEF Teardown!SweepList, Teardown!Sweep, Teardown!Live
<1>9. CASE Teardown!SweepOne
  BY <1>9 DEF Teardown!SweepOne, Teardown!Release
<1>10. CASE Teardown!SweepEnds
  BY <1>10 DEF Teardown!SweepEnds
<1>11. CASE Teardown!ClearList
  BY <1>11 DEF Teardown!ClearList, Teardown!Listed
<1>12. CASE Teardown!ClearRow
  BY <1>12 DEF Teardown!ClearRow
<1>13. CASE Teardown!ClearFails
  BY <1>13 DEF Teardown!ClearFails
<1>14. CASE Teardown!ClearEnds
  BY <1>14 DEF Teardown!ClearEnds
<1>15. CASE Teardown!ReleaseCleared
  BY <1>15 DEF Teardown!ReleaseCleared, Teardown!Release
<1>16. CASE Teardown!ReleasesEnd
  BY <1>16 DEF Teardown!ReleasesEnd
<1>17. CASE Teardown!DeleteTemplate
  BY <1>17 DEF Teardown!DeleteTemplate, Teardown!Live
<1>18. CASE Teardown!EndTeardown
  BY <1>18 DEF Teardown!EndTeardown, Teardown!Live
<1>19. CASE UNCHANGED Teardown!vars
  BY <1>19 DEF Teardown!vars
<1>20. QED
  BY <1>1, <1>2, <1>3, <1>4, <1>5, <1>6, <1>7, <1>8, <1>9, <1>10, <1>11,
         <1>12, <1>13, <1>14, <1>15, <1>16, <1>17, <1>18, <1>19
     DEF Teardown!Next, Teardown!Using, Teardown!Sweeping, Teardown!Clearing, Teardown!Ending

LEMMA ClearedStep == TeardownInv /\ [Teardown!Next]_(Teardown!vars) => ClearedIsReleased'
<1> SUFFICES ASSUME TeardownInv, [Teardown!Next]_(Teardown!vars) PROVE ClearedIsReleased'
  OBVIOUS
<1> USE DEF TeardownInv, ClearedIsReleased, Teardown!client,
         Teardown!teardown
<1>1. CASE \E c \in Users : Teardown!ClaimWarm(c)
  BY <1>1 DEF Teardown!ClaimWarm, Teardown!MayStart, Teardown!Listed
<1>2. CASE \E c \in Users : Teardown!ClaimCold(c)
  BY <1>2 DEF Teardown!ClaimCold, Teardown!MayStart, Teardown!Listed,
         Teardown!Born
<1>3. CASE \E c \in Users : Teardown!EndTurn(c)
  BY <1>3 DEF Teardown!EndTurn
<1>4. CASE \E c \in Users : Teardown!Refill(c)
  BY <1>4 DEF Teardown!Refill, Teardown!Born
<1>5. CASE \E c \in Users : Teardown!Record(c)
  BY <1>5 DEF Teardown!Record
<1>6. CASE Teardown!BeginDelete
  BY <1>6 DEF Teardown!BeginDelete, Teardown!Live
<1>7. CASE Teardown!BeginRetire
  BY <1>7 DEF Teardown!BeginRetire
<1>8. CASE Teardown!SweepList
  BY <1>8 DEF Teardown!SweepList, Teardown!Sweep, Teardown!Live
<1>9. CASE Teardown!SweepOne
  BY <1>9 DEF Teardown!SweepOne, Teardown!Release
<1>10. CASE Teardown!SweepEnds
  BY <1>10 DEF Teardown!SweepEnds
<1>11. CASE Teardown!ClearList
  BY <1>11 DEF Teardown!ClearList, Teardown!Listed
<1>12. CASE Teardown!ClearRow
  BY <1>12 DEF Teardown!ClearRow
<1>13. CASE Teardown!ClearFails
  BY <1>13 DEF Teardown!ClearFails
<1>14. CASE Teardown!ClearEnds
  BY <1>14 DEF Teardown!ClearEnds
<1>15. CASE Teardown!ReleaseCleared
  BY <1>15 DEF Teardown!ReleaseCleared, Teardown!Release
<1>16. CASE Teardown!ReleasesEnd
  BY <1>16 DEF Teardown!ReleasesEnd
<1>17. CASE Teardown!DeleteTemplate
  BY <1>17 DEF Teardown!DeleteTemplate, Teardown!Live
<1>18. CASE Teardown!EndTeardown
  BY <1>18 DEF Teardown!EndTeardown, Teardown!Live
<1>19. CASE UNCHANGED Teardown!vars
  BY <1>19 DEF Teardown!vars
<1>20. QED
  BY <1>1, <1>2, <1>3, <1>4, <1>5, <1>6, <1>7, <1>8, <1>9, <1>10, <1>11,
         <1>12, <1>13, <1>14, <1>15, <1>16, <1>17, <1>18, <1>19
     DEF Teardown!Next, Teardown!Using, Teardown!Sweeping, Teardown!Clearing, Teardown!Ending

LEMMA SweptStep == TeardownInv /\ [Teardown!Next]_(Teardown!vars) => SweptSoFar'
<1> SUFFICES ASSUME TeardownInv, [Teardown!Next]_(Teardown!vars) PROVE SweptSoFar'
  OBVIOUS
<1> USE DEF TeardownInv, TeardownTypes, TemplatesStand, ListedWereCreated,
         SweptSoFar, Teardown!client, Teardown!teardown
<1>1. CASE \E c \in Users : Teardown!ClaimWarm(c)
  BY <1>1 DEF Teardown!ClaimWarm, Teardown!MayStart, Teardown!Listed
<1>2. CASE \E c \in Users : Teardown!ClaimCold(c)
  BY <1>2 DEF Teardown!ClaimCold, Teardown!MayStart, Teardown!Listed,
         Teardown!Born
<1>3. CASE \E c \in Users : Teardown!EndTurn(c)
  BY <1>3 DEF Teardown!EndTurn
<1>4. CASE \E c \in Users : Teardown!Refill(c)
  BY <1>4 DEF Teardown!Refill, Teardown!Born
<1>5. CASE \E c \in Users : Teardown!Record(c)
  BY <1>5 DEF Teardown!Record
<1>6. CASE Teardown!BeginDelete
  BY <1>6 DEF Teardown!BeginDelete, Teardown!Live
<1>7. CASE Teardown!BeginRetire
  BY <1>7 DEF Teardown!BeginRetire
<1>8. CASE Teardown!SweepList
  BY <1>8 DEF Teardown!SweepList, Teardown!Sweep, Teardown!Live
<1>9. CASE Teardown!SweepOne
  BY <1>9 DEF Teardown!SweepOne, Teardown!Release
<1>10. CASE Teardown!SweepEnds
  BY <1>10 DEF Teardown!SweepEnds
<1>11. CASE Teardown!ClearList
  BY <1>11 DEF Teardown!ClearList, Teardown!Listed
<1>12. CASE Teardown!ClearRow
  BY <1>12 DEF Teardown!ClearRow
<1>13. CASE Teardown!ClearFails
  BY <1>13 DEF Teardown!ClearFails
<1>14. CASE Teardown!ClearEnds
  BY <1>14 DEF Teardown!ClearEnds
<1>15. CASE Teardown!ReleaseCleared
  BY <1>15 DEF Teardown!ReleaseCleared, Teardown!Release
<1>16. CASE Teardown!ReleasesEnd
  BY <1>16 DEF Teardown!ReleasesEnd
<1>17. CASE Teardown!DeleteTemplate
  BY <1>17 DEF Teardown!DeleteTemplate, Teardown!Live
<1>18. CASE Teardown!EndTeardown
  BY <1>18 DEF Teardown!EndTeardown, Teardown!Live
<1>19. CASE UNCHANGED Teardown!vars
  BY <1>19 DEF Teardown!vars
<1>20. QED
  BY <1>1, <1>2, <1>3, <1>4, <1>5, <1>6, <1>7, <1>8, <1>9, <1>10, <1>11,
         <1>12, <1>13, <1>14, <1>15, <1>16, <1>17, <1>18, <1>19
     DEF Teardown!Next, Teardown!Using, Teardown!Sweeping, Teardown!Clearing, Teardown!Ending

LEMMA SomePlaceStep == TeardownInv /\ [Teardown!Next]_(Teardown!vars) => SomePlace'
<1> SUFFICES ASSUME TeardownInv, [Teardown!Next]_(Teardown!vars) PROVE SomePlace'
  OBVIOUS
<1> USE DEF TeardownInv, TeardownTypes, ClearedIsReleased, SomePlace,
         Teardown!client, Teardown!teardown
<1>1. ASSUME NEW e \in Users, Teardown!ClaimWarm(e) PROVE SomePlace'
  <2>1. UNCHANGED <<t_box, t_filling, t_mislaid, cleared>> /\ t_got[e] = None
    BY <1>1 DEF Teardown!ClaimWarm, Teardown!MayStart
  <2>2. PICK b \in Boxes : t_got' = [t_got EXCEPT ![e] = b] /\ t_roster' = t_roster \ {b}
    BY <1>1 DEF Teardown!ClaimWarm, Teardown!Listed
  <2>3. t_got'[e] = b /\ \A c \in Users : t_got[c] # None => t_got'[c] = t_got[c]
    BY <2>1, <2>2
  <2>4. QED
    BY <2>1, <2>2, <2>3, NoneIsNoBox
<1>2. ASSUME NEW e \in Users, Teardown!ClaimCold(e) PROVE SomePlace'
  <2>1. UNCHANGED <<t_roster, t_filling, t_mislaid, cleared>> /\ t_got[e] = None
    BY <1>2 DEF Teardown!ClaimCold, Teardown!MayStart
  <2>2. CASE UNCHANGED <<t_box, t_got>>
    BY <2>1, <2>2
  <2>3. CASE \E b \in Boxes : t_box' = [t_box EXCEPT ![b] = "live"] /\ t_got' = [t_got EXCEPT ![e] = b]
    <3>1. PICK b \in Boxes : t_box' = [t_box EXCEPT ![b] = "live"] /\ t_got' = [t_got EXCEPT ![e] = b]
      BY <2>3
    <3>2. t_got'[e] = b /\ \A c \in Users : t_got[c] # None => t_got'[c] = t_got[c]
      BY <2>1, <3>1
    <3>3. QED
      BY <2>1, <3>1, <3>2, NoneIsNoBox
  <2>4. QED
    BY <1>2, <2>2, <2>3 DEF Teardown!ClaimCold, Teardown!Born
<1>3. CASE \E c \in Users : Teardown!EndTurn(c)
  BY <1>3 DEF Teardown!EndTurn
<1>4. ASSUME NEW e \in Users, Teardown!Refill(e) PROVE SomePlace'
  <2>1. UNCHANGED <<t_roster, t_got, t_mislaid, cleared>> /\ t_filling[e] = None
    BY <1>4 DEF Teardown!Refill
  <2>2. PICK b \in Boxes : t_box' = [t_box EXCEPT ![b] = "live"] /\ t_filling' = [t_filling EXCEPT ![e] = b]
    BY <1>4 DEF Teardown!Refill, Teardown!Born
  <2>3. t_filling'[e] = b /\ \A c \in Users : t_filling[c] # None => t_filling'[c] = t_filling[c]
    BY <2>1, <2>2
  <2>4. QED
    BY <2>1, <2>2, <2>3, NoneIsNoBox
<1>5. CASE \E c \in Users : Teardown!Record(c)
  BY <1>5 DEF Teardown!Record
<1>6. CASE Teardown!BeginDelete
  BY <1>6 DEF Teardown!BeginDelete, Teardown!Live
<1>7. CASE Teardown!BeginRetire
  BY <1>7 DEF Teardown!BeginRetire
<1>8. CASE Teardown!SweepList
  BY <1>8 DEF Teardown!SweepList, Teardown!Sweep, Teardown!Live
<1>9. CASE Teardown!SweepOne
  BY <1>9 DEF Teardown!SweepOne, Teardown!Release
<1>10. CASE Teardown!SweepEnds
  BY <1>10 DEF Teardown!SweepEnds
<1>11. CASE Teardown!ClearList
  BY <1>11 DEF Teardown!ClearList, Teardown!Listed
<1>12. CASE Teardown!ClearRow
  BY <1>12 DEF Teardown!ClearRow
<1>13. CASE Teardown!ClearFails
  BY <1>13 DEF Teardown!ClearFails
<1>14. CASE Teardown!ClearEnds
  BY <1>14 DEF Teardown!ClearEnds
<1>15. CASE Teardown!ReleaseCleared
  BY <1>15 DEF Teardown!ReleaseCleared, Teardown!Release
<1>16. CASE Teardown!ReleasesEnd
  BY <1>16 DEF Teardown!ReleasesEnd
<1>17. CASE Teardown!DeleteTemplate
  BY <1>17 DEF Teardown!DeleteTemplate, Teardown!Live
<1>18. CASE Teardown!EndTeardown
  BY <1>18 DEF Teardown!EndTeardown, Teardown!Live
<1>19. CASE UNCHANGED Teardown!vars
  BY <1>19 DEF Teardown!vars
<1>20. QED
  BY <1>1, <1>2, <1>3, <1>4, <1>5, <1>6, <1>7, <1>8, <1>9, <1>10, <1>11,
         <1>12, <1>13, <1>14, <1>15, <1>16, <1>17, <1>18, <1>19
     DEF Teardown!Next, Teardown!Using, Teardown!Sweeping, Teardown!Clearing, Teardown!Ending

LEMMA TeardownInvInit == Teardown!Init => TeardownInv
<1> SUFFICES ASSUME Teardown!Init PROVE TeardownInv
  OBVIOUS
<1> USE DEF Teardown!Init, Teardown!Versions
<1>1. /\ DOMAIN Pooled \subseteq Boxes /\ \A b \in DOMAIN Pooled : Pooled[b] \in Own \cup Other
      /\ None \notin Boxes
  BY EngineAssumption DEF Teardown!TeardownAssumption
<1>2. TeardownTypes
  BY <1>1 DEF TeardownTypes
<1>3. TemplatesStand /\ ListedWereCreated
  BY <1>1 DEF TemplatesStand, ListedWereCreated
<1>4. OnePlace
  BY <1>1 DEF OnePlace
<1>5. ClearedIsReleased /\ SweptSoFar /\ SomePlace
  BY <1>1 DEF ClearedIsReleased, SweptSoFar, SomePlace
<1>6. QED
  BY <1>2, <1>3, <1>4, <1>5 DEF TeardownInv

\* A step of the whole is a step of the teardown, or leaves it alone.
LEMMA TeardownMoves == [Next]_vars => [Teardown!Next]_(Teardown!vars)
<1>1. Next => Teardown!Next \/ UNCHANGED teardown
  BY DEF Next
<1>2. UNCHANGED vars => UNCHANGED teardown
  BY DEF vars
<1>3. UNCHANGED teardown => UNCHANGED Teardown!vars
  BY DEF teardown, Teardown!vars, Teardown!client, Teardown!teardown
<1>4. QED
  BY <1>1, <1>2, <1>3

LEMMA TeardownInvariant == Spec => []TeardownInv
<1>1. Init => TeardownInv
  BY TeardownInvInit DEF Init
<1>2. TeardownInv /\ [Next]_vars => TeardownInv'
  <2> SUFFICES ASSUME TeardownInv, [Teardown!Next]_(Teardown!vars) PROVE TeardownInv'
    BY TeardownMoves
  <2>1. TeardownTypes'
    BY TeardownTypesStep DEF TeardownInv
  <2>2. QED
    BY <2>1, TemplatesStep, ListedStep, OnePlaceStep, ClearedStep, SweptStep, SomePlaceStep
       DEF TeardownInv
<1>3. QED
  BY <1>1, <1>2, PTL DEF Spec

\* Whatever the claims, prunings, refills and crashes of any number of
\* clients, and wherever a delete() or a cut-over meets them, a sandbox is in
\* one place, none of the engine's is lost but by a failing call, and each
\* serves one claim.
THEOREM SandboxesOwned == Spec => SandboxesAreOwned
<1>1. PoolP!RosterInv => Pool!OneHolder /\ Pool!NoneForgotten
  BY DEF PoolP!RosterInv, PoolP!PoolInv, PoolP!OneHolder, Pool!OneHolder, PoolP!NoneForgotten, Pool!NoneForgotten,
         PoolP!InHand, Pool!InHand
<1>2. TeardownInv => Teardown!NothingSurvives
  BY DEF TeardownInv, SweptSoFar, Teardown!NothingSurvives
<1>3. TeardownInv => Teardown!ClearedAreDeleted
  BY DEF TeardownInv, ClearedIsReleased, SomePlace, Teardown!ClearedAreDeleted, Teardown!Live
<1>4. QED
  BY <1>1, <1>2, <1>3, PoolInvariant, PoolServes, TeardownInvariant, PTL DEF SandboxesAreOwned

-----------------------------------------------------------------------------
(* What a teardown and a set-up spare.                                     *)

\* Three steps delete a sandbox: the end of its turn, the sweep of delete(),
\* and the release of what clear() has taken off the roster.
LEMMA WhoDeletes ==
    TeardownTypes /\ [Teardown!Next]_(Teardown!vars) =>
        \A b \in Boxes : t_box[b] = "live" /\ t_box'[b] = "gone" =>
            \/ \E c \in Users : t_got[c] = b /\ t_got'[c] = None
            \/ phase = "sweep" /\ b \in t_rows
            \/ phase = "release" /\ b \in cleared
<1> SUFFICES ASSUME TeardownTypes, [Teardown!Next]_(Teardown!vars),
                    NEW b \in Boxes, t_box[b] = "live", t_box'[b] = "gone"
             PROVE  \/ \E c \in Users : t_got[c] = b /\ t_got'[c] = None
                    \/ phase = "sweep" /\ b \in t_rows
                    \/ phase = "release" /\ b \in cleared
  OBVIOUS
<1> USE DEF TeardownTypes
<1>1. CASE \E c \in Users : Teardown!ClaimWarm(c) \/ Teardown!ClaimCold(c) \/ Teardown!Refill(c) \/ Teardown!Record(c)
  BY <1>1 DEF Teardown!ClaimWarm, Teardown!ClaimCold, Teardown!Refill, Teardown!Record, Teardown!Born
<1>2. CASE \E c \in Users : Teardown!EndTurn(c)
  BY <1>2 DEF Teardown!EndTurn
<1>3. CASE Teardown!SweepOne \/ Teardown!ReleaseCleared
  BY <1>3 DEF Teardown!SweepOne, Teardown!ReleaseCleared, Teardown!Release
<1>4. CASE UNCHANGED t_box
  BY <1>4
<1>5. QED
  BY <1>1, <1>2, <1>3, <1>4
     DEF Teardown!Next, Teardown!Using, Teardown!Sweeping, Teardown!Clearing, Teardown!Ending, Teardown!vars,
         Teardown!BeginDelete, Teardown!BeginRetire, Teardown!SweepList, Teardown!SweepEnds,
         Teardown!ClearList, Teardown!ClearRow, Teardown!ClearFails, Teardown!ClearEnds,
         Teardown!ReleasesEnd, Teardown!DeleteTemplate, Teardown!EndTeardown

\* What a project has it keeps: services, things, grants, rules for what is
\* to be deleted, the permission, the terms. A write of what an earlier audit
\* saw includes what that audit missed.
ProjectGrows ==
    /\ enabled \subseteq enabled' /\ made \subseteq made' /\ granted \subseteq granted'
    /\ Setup!Uncovered(rules) = {} => Setup!Uncovered(rules') = {}
    /\ "predict" \in perms => "predict" \in perms'
    /\ terms' = terms

LEMMA SetupGrows == [Setup!Next]_(Setup!vars) => ProjectGrows
<1> SUFFICES ASSUME [Setup!Next]_(Setup!vars) PROVE ProjectGrows
  OBVIOUS
<1> USE DEF ProjectGrows, Setup!project, Setup!tool
<1>1. \A rs : Setup!Uncovered(rs \cup Setup!Uncovered(rs)) = {} /\ Setup!Uncovered(rs \cup Setup!Unreaped(rs)) = {}
  BY DEF Setup!Uncovered, Setup!Unreaped
<1>2. Setup!Uncovered(Setup!Wanted) = {}
  BY DEF Setup!Uncovered
<1>3. \A rs, r : Setup!Uncovered(rs) = {} => Setup!Uncovered(rs \cup r) = {}
  BY DEF Setup!Uncovered
<1>4. CASE Setup!World
  BY <1>1, <1>3, <1>4 DEF Setup!World, Setup!Settle, Setup!OtherGrant, Setup!OtherRule, Setup!OtherPermission,
     Setup!DeployerReads, Setup!DeployerWrites
<1>5. ASSUME NEW p \in Setups, Setup!Tool(p) PROVE ProjectGrows
  <2>1. CASE Setup!FirstAudit(p) \/ Setup!NextAudit(p)
    BY <2>1 DEF Setup!FirstAudit, Setup!NextAudit
  <2>2. CASE Setup!Enable(p) \/ Setup!Create(p) \/ Setup!Provision(p)
    BY <1>2, <2>2 DEF Setup!Enable, Setup!Create, Setup!Provision, Setup!Fails
  <2>3. CASE Setup!Extend(p)
    BY <1>1, <2>3 DEF Setup!Extend
  <2>4. CASE Setup!ReadPolicy(p)
    BY <2>4 DEF Setup!ReadPolicy
  <2>5. CASE Setup!WritePolicy(p)
    BY <2>5 DEF Setup!WritePolicy, Setup!SetPolicy
  <2>6. CASE Setup!Deploy(p) \/ Setup!TearDown(p)
    BY <2>6 DEF Setup!Deploy, Setup!TearDown
  <2>7. QED
    BY <1>5, <2>1, <2>2, <2>3, <2>4, <2>5, <2>6 DEF Setup!Tool
<1>6. ASSUME NEW p \in Setups, Setup!Agree(p) \/ Setup!Decline(p) \/ Setup!Rerun(p) PROVE ProjectGrows
  BY <1>6 DEF Setup!Agree, Setup!Decline, Setup!Rerun
<1>7. CASE UNCHANGED Setup!vars
  BY <1>7 DEF Setup!vars
<1>8. QED
  BY <1>4, <1>5, <1>6, <1>7 DEF Setup!Next

\* So what was not open stays so...
LEMMA OpenShrinks == ProjectGrows => Setup!Open' \subseteq Setup!Open
<1> SUFFICES ASSUME ProjectGrows, NEW row \in Setup!Rows, Setup!Present(row) PROVE Setup!Present(row)'
  BY DEF Setup!Open
<1> QED
  BY DEF ProjectGrows, Setup!Present, Setup!ModelAnswers

\* ...and what is open now was open in every audit.
AuditsSaw ==
    /\ open \in [Setups -> SUBSET Setup!Rows]
    /\ engine \in [Setups -> {"none", "up", "deleted"}]
    /\ \A p \in Setups : Setup!Open \subseteq open[p]

LEMMA AuditsStep == AuditsSaw /\ [Setup!Next]_(Setup!vars) => AuditsSaw'
<1> SUFFICES ASSUME AuditsSaw, [Setup!Next]_(Setup!vars) PROVE AuditsSaw'
  OBVIOUS
<1>1. Setup!Open' \subseteq Setup!Open /\ Setup!Open \subseteq Setup!Rows
  BY SetupGrows, OpenShrinks DEF Setup!Open
<1>2. CASE UNCHANGED <<open, engine>>
  BY <1>1, <1>2 DEF AuditsSaw
<1>3. ASSUME NEW p \in Setups, Setup!FirstAudit(p) \/ Setup!NextAudit(p) PROVE AuditsSaw'
  <2>1. UNCHANGED engine /\ (UNCHANGED open \/ open' = [open EXCEPT ![p] = Setup!Open])
    BY <1>3 DEF Setup!FirstAudit, Setup!NextAudit, Setup!Report
  <2>2. QED
    BY <1>1, <2>1 DEF AuditsSaw
<1>4. ASSUME NEW p \in Setups, Setup!Deploy(p) \/ Setup!TearDown(p) PROVE AuditsSaw'
  BY <1>1, <1>4 DEF AuditsSaw, Setup!Deploy, Setup!TearDown
<1>5. QED
  BY <1>2, <1>3, <1>4
     DEF Setup!Next, Setup!vars, Setup!tool, Setup!World, Setup!Tool, Setup!Settle, Setup!OtherGrant, Setup!OtherRule,
         Setup!OtherPermission, Setup!DeployerReads, Setup!DeployerWrites, Setup!Enable, Setup!Create,
         Setup!Provision, Setup!Extend, Setup!ReadPolicy, Setup!WritePolicy, Setup!Agree, Setup!Decline, Setup!Rerun

LEMMA AuditsInit == Setup!Init => AuditsSaw
BY DEF Setup!Init, AuditsSaw, Setup!Open

\* A step of the whole is a step of the set-up, or leaves it alone.
LEMMA SetupMoves == [Next]_vars => [Setup!Next]_(Setup!vars)
<1>1. Next => Setup!Next \/ UNCHANGED setup
  BY DEF Next
<1>2. UNCHANGED vars => UNCHANGED setup
  BY DEF vars
<1>3. UNCHANGED setup => UNCHANGED Setup!vars
  BY DEF setup, Setup!vars, Setup!project, Setup!tool
<1>4. QED
  BY <1>1, <1>2, <1>3

\* A teardown deletes no sandbox of the engine with the longer name and none
\* under a turn but in the sweep of delete(); nobody loses a grant, and what
\* verify() deploys on is ready then, though others change the project.
THEOREM OthersSpared == Spec => OthersAreSpared
<1> DEFINE OtherLeft == \A b \in Boxes : t_box[b] = "live" /\ t_box'[b] = "gone" /\ tpl[b] \in Other
                            => \E c \in Users : t_got[c] = b
           TurnsLeft == \A c \in Users :
                            t_got[c] # None /\ t_got'[c] = t_got[c] /\ t_box[t_got[c]] = "live" /\ t_box'[t_got[c]] = "gone"
                            => phase = "sweep"
           ReadyThen == \A p \in Setups : engine[p] = "none" /\ engine'[p] = "up"
                            => Setup!Open \subseteq {"impersonation", "modelTokens"}
<1>1. ASSUME TeardownInv, [Next]_vars PROVE OtherLeft /\ TurnsLeft
  <2> USE <1>1 DEF TeardownInv
  <2>1. [Teardown!Next]_(Teardown!vars)
    BY TeardownMoves
  <2>2. OtherLeft
    BY <2>1, WhoDeletes, NoneIsNoBox DEF ListedWereCreated
  <2>3. ASSUME NEW c \in Users, t_got[c] # None, t_got'[c] = t_got[c], t_box[t_got[c]] = "live", t_box'[t_got[c]] = "gone"
        PROVE  phase = "sweep"
    <3>1. t_got[c] \in Boxes
      BY <2>3 DEF TeardownTypes
    <3>2. t_got[c] \notin cleared
      BY <2>3 DEF OnePlace
    <3>3. \A d \in Users : t_got[d] = t_got[c] => t_got'[d] # None
      BY <2>3 DEF OnePlace
    <3>4. QED
      BY <2>1, <2>3, <3>1, <3>2, <3>3, WhoDeletes
  <2>4. QED
    BY <2>2, <2>3
<1>2. ASSUME AuditsSaw, [Next]_vars PROVE granted \subseteq granted' /\ ReadyThen
  <2>1. [Setup!Next]_(Setup!vars)
    BY <1>2, SetupMoves
  <2>2. granted \subseteq granted'
    BY <2>1, SetupGrows DEF ProjectGrows
  <2>3. ASSUME NEW p \in Setups, engine[p] = "none", engine'[p] = "up"
        PROVE  Setup!Open \subseteq {"impersonation", "modelTokens"}
    <3>1. Setup!Deploy(p)
      BY <1>2, <2>1, <2>3
         DEF AuditsSaw, Setup!Next, Setup!vars, Setup!tool, Setup!World, Setup!Tool, Setup!Settle, Setup!OtherGrant,
             Setup!OtherRule, Setup!OtherPermission, Setup!DeployerReads, Setup!DeployerWrites, Setup!Enable,
             Setup!Create, Setup!Provision, Setup!Extend, Setup!ReadPolicy, Setup!WritePolicy, Setup!Agree,
             Setup!Decline, Setup!Rerun, Setup!FirstAudit, Setup!NextAudit, Setup!Deploy, Setup!TearDown
    <3>2. open[p] \subseteq {"impersonation", "modelTokens"}
      BY <1>2, <2>3, <3>1 DEF AuditsSaw, Setup!Deploy
    <3>3. QED
      BY <1>2, <3>2 DEF AuditsSaw
  <2>4. QED
    BY <2>2, <2>3
<1>3. Init => AuditsSaw
  BY AuditsInit DEF Init
<1>4. AuditsSaw /\ [Next]_vars => AuditsSaw'
  BY AuditsStep, SetupMoves
<1>5. TeardownInv /\ AuditsSaw /\ [Next]_vars =>
        /\ [OtherLeft]_(Teardown!vars) /\ [TurnsLeft]_(Teardown!vars)
        /\ [granted \subseteq granted']_(Setup!vars) /\ [ReadyThen]_(Setup!vars)
  BY <1>1, <1>2
<1>6. QED
  BY <1>3, <1>4, <1>5, TeardownInvariant, PTL
     DEF Spec, OthersAreSpared, Teardown!OtherIsLeftAlone, Teardown!TurnsAreSpared, Setup!GrantsKept,
         Setup!VerifiesWhatIsReady

-----------------------------------------------------------------------------
(* deploy(): one deployer of a name at a time. Two that create templates   *)
(* at once may take each other's (README, 6).                              *)

Made == {t \in Deploy!Templates : state[t] # "none"}

DeployTypes ==
    /\ state \in [Deploy!Templates -> {"none", "provisioning", "active", "failed", "deleted"}]
    /\ image \in [Deploy!Templates -> Images \cup {NoImage}]
    /\ record \in [Deploy!Templates -> Images \cup {NoImage}]
    /\ d_pc \in [Deployers -> {"idle", "list", "create", "poll", "reap", "record", "fill"}]
    /\ built \in [Deployers -> Images \cup {NoImage}]
    /\ existing \in [Deployers -> SUBSET Made]
    /\ known \in [Deployers -> SUBSET Deploy!Templates]
    /\ own \in [Deployers -> Deploy!Templates \cup {0}]
    /\ target \in [Deployers -> Deploy!Templates \cup {0}]
    /\ chosen \in [Deployers -> Made \cup {0}]
    /\ retiring \in [Deployers -> SUBSET Made]
    /\ deployed \in BOOLEAN

\* Templates are made in their order, and have a record only once made.
InOrderMade ==
    /\ \A t \in Made, s \in Deploy!Templates : s < t => s \in Made
    /\ \A t \in Deploy!Templates : record[t] # NoImage => t \in Made

\* While it creates, a deployer knows of every template but its own, which is
\* the newest.
OwnIsNew ==
    \A d \in Deployers :
        /\ d_pc[d] = "create" => Made \subseteq known[d]
        /\ d_pc[d] \in {"poll", "reap"} =>
             /\ Made \subseteq known[d] \cup {own[d]} /\ own[d] \in Made
             /\ target[d] \in {0, own[d]} /\ image[own[d]] = built[d] /\ chosen[d] # own[d]
             /\ \A t \in Made : t <= own[d]

\* The version deployed to last serves, and is newer than what is retired.
ChosenServes ==
    \A d \in Deployers :
        /\ deployed => chosen[d] # 0
        /\ chosen[d] # 0 => state[chosen[d]] = "active"
        /\ \A t \in retiring[d] : t < chosen[d]

\* It is what was asked for, and the newest.
ChosenFits ==
    \A d \in Deployers :
        /\ d_pc[d] \in {"record", "fill"} =>
             /\ chosen[d] # 0 /\ image[chosen[d]] = built[d]
             /\ \A t \in Made : state[t] \in {"provisioning", "active", "failed"} => t <= chosen[d]
             /\ \A t \in existing[d] : t <= chosen[d]
        /\ d_pc[d] = "fill" /\ d \in written => record[chosen[d]] = built[d]

DeployInv ==
    /\ DeployTypes /\ InOrderMade /\ OwnIsNew /\ ChosenServes /\ ChosenFits
    /\ Deploy!RecordFits
    /\ deployed => Deployers # {}

\* A set of templates has a newest one.
LEMMA NewestIsNewest ==
    ASSUME NEW S \in SUBSET Deploy!Templates, S # {}
    PROVE  Deploy!Newest(S) \in S /\ \A t \in S : t <= Deploy!Newest(S)
<1>1. MaxTemplates \in Nat
  BY EngineAssumption DEF Deploy!DeployAssumption
<1> DEFINE T == {MaxTemplates - t : t \in S}
<1>2. T \subseteq Nat
  BY <1>1 DEF Deploy!Templates
<1>3. T # {}
  OBVIOUS
<1>4. PICK n \in T : \A m \in T : ~(<<m, n>> \in OpToRel(<, Nat))
  BY ONLY <1>2, <1>3, NatLessThanWellFounded, WFMin
<1>5. \A m \in T : ~(m < n)
  BY <1>2, <1>4 DEF OpToRel
<1>6. PICK t \in S : n = MaxTemplates - t
  OBVIOUS
<1>7. ASSUME NEW s \in S PROVE t >= s
  <2>1. MaxTemplates - s \in T
    OBVIOUS
  <2>2. t \in 1..MaxTemplates /\ s \in 1..MaxTemplates
    BY DEF Deploy!Templates
  <2>3. ~(MaxTemplates - s < MaxTemplates - t)
    BY ONLY <1>5, <1>6, <2>1
  <2>4. QED
    BY ONLY <1>1, <2>2, <2>3
<1>8. Deploy!Max(S) \in S /\ \A s \in S : Deploy!Max(S) >= s
  BY <1>7 DEF Deploy!Max
<1>9. S \subseteq Int
  BY <1>1 DEF Deploy!Templates
<1>10. QED
  BY <1>8, <1>9 DEF Deploy!Newest

LEMMA MaxIsNat == MaxTemplates \in Nat
BY EngineAssumption DEF Deploy!DeployAssumption

\* No deployer but d.
LEMMA DeployStep ==
    ASSUME \A d, e \in Deployers : d = e, DeployInv, [Deploy!Next]_(Deploy!vars)
    PROVE  DeployInv'
<1> USE DEF DeployInv, Deploy!platform, Deploy!creation, Deploy!deployer, Made, Deploy!Templates
<1>1. ASSUME NEW d \in Deployers, Deploy!Deploy(d) PROVE DeployInv'
  <2> DEFINE listed == Deploy!Live(Deploy!Templates)
             newest == Deploy!Newest(listed)
  <2>1. /\ UNCHANGED <<state, image, record, known, own, target, retiring, written>>
        /\ d_pc[d] = "idle"
    BY <1>1 DEF Deploy!Deploy
  <2>2. PICK i \in Images :
          /\ built' = [built EXCEPT ![d] = i] /\ existing' = [existing EXCEPT ![d] = listed]
          /\ \/ /\ newest # 0 /\ image[newest] = i /\ state[newest] = "active"
                /\ chosen' = [chosen EXCEPT ![d] = newest] /\ d_pc' = [d_pc EXCEPT ![d] = "record"]
                /\ deployed' = TRUE
             \/ /\ d_pc' = [d_pc EXCEPT ![d] = "list"] /\ UNCHANGED <<chosen, deployed>>
    BY <1>1 DEF Deploy!Deploy, Deploy!Goto, Deploy!NoTemplate, DeployTypes
  <2>3. listed \in SUBSET Made /\ \A t \in Made : state[t] \in {"provisioning", "active", "failed"} => t \in listed
    BY DEF Deploy!Live
  <2>4. newest # 0 => newest \in listed /\ \A t \in listed : t <= newest
    <3>1. CASE listed = {}
      BY <3>1 DEF Deploy!Newest, Deploy!NoTemplate
    <3>2. CASE listed # {}
      BY <3>2, <2>3, NewestIsNewest
    <3>3. QED
      BY <3>1, <3>2
  <2>5. \A e \in Deployers : e = d
    OBVIOUS
  <2> HIDE DEF listed, newest
  <2>6. DeployTypes'
    <3>1. Made' = Made
      BY <2>1
    <3>2. existing' \in [Deployers -> SUBSET Made] /\ built' \in [Deployers -> Images \cup {NoImage}]
      BY <2>2, <2>3 DEF DeployTypes
    <3>3. chosen' \in [Deployers -> Made \cup {0}]
      <4>1. chosen \in [Deployers -> Made \cup {0}] /\ (newest # 0 => newest \in Made)
        BY <2>3, <2>4 DEF DeployTypes
      <4> HIDE DEF Made
      <4>2. CASE UNCHANGED chosen
        BY <4>1, <4>2
      <4>3. CASE chosen' = [chosen EXCEPT ![d] = newest] /\ newest # 0
        BY <4>1, <4>3
      <4>4. QED
        BY <2>2, <4>2, <4>3
    <3>4. /\ d_pc' \in [Deployers -> {"idle", "list", "create", "poll", "reap", "record", "fill"}]
          /\ deployed' \in BOOLEAN
      BY <2>2 DEF DeployTypes
    <3> HIDE DEF Made
    <3>5. QED
      BY <2>1, <3>1, <3>2, <3>3, <3>4 DEF DeployTypes
  <2>7. InOrderMade' /\ OwnIsNew' /\ Deploy!RecordFits'
    BY <2>1, <2>2, <2>5 DEF DeployTypes, InOrderMade, OwnIsNew, Deploy!RecordFits
  <2>8. ChosenServes'
    <3>1. CASE UNCHANGED <<chosen, deployed>>
      BY <2>1, <3>1 DEF ChosenServes
    <3>2. CASE chosen' = [chosen EXCEPT ![d] = newest] /\ newest # 0 /\ state[newest] = "active"
      <4>1. chosen[d] # 0 => chosen[d] <= newest
        BY <2>3, <2>4, <3>2 DEF ChosenServes, DeployTypes
      <4>2. \A t \in retiring[d] : t < chosen[d] /\ t \in 1..MaxTemplates
        BY DEF ChosenServes, DeployTypes
      <4>3. newest \in 1..MaxTemplates /\ chosen[d] \in 0..MaxTemplates
        <5>1. newest \in Made /\ chosen[d] \in Made \cup {0}
          BY <2>3, <2>4, <3>2 DEF DeployTypes
        <5>2. QED
          BY <5>1, MaxIsNat
      <4>4. \A t \in retiring[d] : t < newest
        BY <4>1, <4>2, <4>3, MaxIsNat
      <4>5. chosen'[d] = newest
        BY <3>2 DEF DeployTypes
      <4>6. QED
        BY <2>1, <2>5, <3>2, <4>4, <4>5 DEF ChosenServes
    <3>3. QED
      BY <2>2, <3>1, <3>2
  <2>9. ChosenFits'
    <3>1. d_pc'[d] \in {"list", "record"} /\ existing'[d] = listed /\ built'[d] \in Images
      BY <2>2 DEF DeployTypes
    <3>2. d_pc'[d] = "record" => chosen'[d] = newest /\ newest # 0 /\ image[newest] = built'[d]
      BY <2>2 DEF DeployTypes
    <3>3. \A t \in Made : state[t] \in {"provisioning", "active", "failed"} => (newest # 0 => t <= newest)
      BY <2>3, <2>4
    <3>4. Made' = Made /\ state' = state /\ image' = image
      BY <2>1
    <3> HIDE DEF Made
    <3>5. QED
      BY <2>4, <2>5, <3>1, <3>2, <3>3, <3>4 DEF ChosenFits
  <2>10. QED
    BY <2>6, <2>7, <2>8, <2>9
<1>2. ASSUME NEW d \in Deployers, Deploy!ListKnown(d) PROVE DeployInv'
  <2> USE <1>2 DEF Deploy!ListKnown, Deploy!Goto
  <2>1. DeployTypes'
    BY DEF DeployTypes
  <2>2. InOrderMade'
    BY DEF DeployTypes, InOrderMade
  <2>3. OwnIsNew'
    BY DEF DeployTypes, OwnIsNew
  <2>4. ChosenServes'
    BY DEF DeployTypes, ChosenServes
  <2>5. ChosenFits'
    BY DEF DeployTypes, ChosenFits
  <2>6. Deploy!RecordFits'
    BY DEF DeployTypes, Deploy!RecordFits
  <2>7. QED
    BY <2>1, <2>2, <2>3, <2>4, <2>5, <2>6
<1>3. ASSUME NEW d \in Deployers, Deploy!Create(d) PROVE DeployInv'
  <2>1. /\ UNCHANGED <<record, known, built, existing, chosen, written, retiring>>
        /\ d_pc[d] = "create" /\ d_pc' = [d_pc EXCEPT ![d] = "poll"] /\ UNCHANGED deployed
    BY <1>3 DEF Deploy!Create, Deploy!Goto, DeployTypes
  <2>2. PICK t \in Deploy!Templates, reaped \in SUBSET {s \in known[d] : state[s] = "failed"} :
          /\ state[t] = "none" /\ \A s \in Deploy!Templates : s < t => state[s] # "none"
          /\ state' = [s \in Deploy!Templates |->
                         IF s = t THEN "provisioning" ELSE IF s \in reaped THEN "deleted" ELSE state[s]]
          /\ image' = [image EXCEPT ![t] = built[d]]
          /\ own' = [own EXCEPT ![d] = t]
          /\ \E named \in {t, 0} : target' = [target EXCEPT ![d] = named]
    BY <1>3 DEF Deploy!Create, Deploy!NoTemplate
  <2>3. Made' = Made \cup {t} /\ t \notin Made
    BY <2>2 DEF DeployTypes
  <2>4. \A s \in Made : s < t
    BY <2>2, MaxIsNat DEF InOrderMade
  <2>5. \A s \in Deploy!Templates : s # t => state'[s] = IF s \in reaped THEN "deleted" ELSE state[s]
    BY <2>2
  <2>6. \A s \in reaped : state[s] = "failed"
    BY <2>2
  <2>7. state'[t] = "provisioning" /\ image'[t] = built[d] /\ own'[d] = t /\ target'[d] \in {0, t}
    BY <2>2 DEF DeployTypes
  <2>8. \A e \in Deployers : e = d
    OBVIOUS
  <2>9. \A s \in Made : image'[s] = image[s]
    BY <2>2, <2>3 DEF DeployTypes
  <2> HIDE DEF Made
  <2>10. DeployTypes'
    BY <2>1, <2>2, <2>3, <2>6 DEF DeployTypes
  <2>11. InOrderMade'
    BY <2>1, <2>2, <2>3, <2>4 DEF InOrderMade, Made
  <2>12. OwnIsNew'
    <3>1. Made \subseteq known[d] /\ chosen[d] \in Made \cup {0} /\ t # 0
      BY <2>1, MaxIsNat DEF OwnIsNew, DeployTypes
    <3>2. \A s \in Made' : s <= t
      BY <2>3, <2>4, MaxIsNat DEF Made
    <3>3. d_pc'[d] = "poll" /\ chosen'[d] # t /\ built'[d] = built[d] /\ known'[d] = known[d]
      BY <2>1, <2>3, <3>1 DEF DeployTypes
    <3>4. QED
      BY <2>3, <2>7, <2>8, <3>1, <3>2, <3>3 DEF OwnIsNew
  <2>13. ChosenServes' /\ ChosenFits'
    BY <2>1, <2>3, <2>5, <2>6, <2>8 DEF ChosenServes, ChosenFits, DeployTypes, Made
  <2>14. Deploy!RecordFits'
    BY <2>1, <2>3, <2>9 DEF Deploy!RecordFits, InOrderMade, DeployTypes
  <2>15. QED
    BY <2>8, <2>10, <2>11, <2>12, <2>13, <2>14
<1>4. ASSUME NEW d \in Deployers, Deploy!CreateFails(d) PROVE DeployInv'
  <2> USE <1>4 DEF Deploy!CreateFails, Deploy!Goto
  <2>1. DeployTypes'
    BY DEF DeployTypes
  <2>2. InOrderMade'
    BY DEF DeployTypes, InOrderMade
  <2>3. OwnIsNew'
    BY DEF DeployTypes, OwnIsNew
  <2>4. ChosenServes'
    BY DEF DeployTypes, ChosenServes
  <2>5. ChosenFits'
    BY DEF DeployTypes, ChosenFits
  <2>6. Deploy!RecordFits'
    BY DEF DeployTypes, Deploy!RecordFits
  <2>7. QED
    BY <2>1, <2>2, <2>3, <2>4, <2>5, <2>6
<1>5. ASSUME NEW d \in Deployers, Deploy!Poll(d) PROVE DeployInv'
  <2>1. d_pc[d] = "poll" /\ Deploy!PolledRow(d) # 0
    BY <1>5 DEF Deploy!Poll, Deploy!NoTemplate
  <2>2. Deploy!PolledRow(d) = own[d]
    <3>1. Deploy!Rows(d) # {} /\ Deploy!Rows(d) \subseteq {own[d]}
      BY <2>1 DEF Deploy!PolledRow, Deploy!Newest, Deploy!NoTemplate, Deploy!Rows, Deploy!Live, OwnIsNew
    <3>2. Deploy!Rows(d) \in SUBSET Deploy!Templates
      BY DEF Deploy!Rows, Deploy!Live, DeployTypes
    <3>3. QED
      BY <3>1, <3>2, NewestIsNewest DEF Deploy!PolledRow
  <2>3. /\ UNCHANGED <<state, image, record, known, own, built, existing, written, retiring>>
        /\ target' = [target EXCEPT ![d] = own[d]]
        /\ \/ /\ state[own[d]] = "active" /\ chosen' = [chosen EXCEPT ![d] = own[d]]
              /\ d_pc' = [d_pc EXCEPT ![d] = "record"] /\ deployed' = TRUE
           \/ d_pc' = [d_pc EXCEPT ![d] = "reap"] /\ UNCHANGED <<chosen, deployed>>
           \/ UNCHANGED <<d_pc, chosen, deployed>>
    BY <1>5, <2>2 DEF Deploy!Poll, Deploy!Goto, DeployTypes
  <2>4. \A e \in Deployers : e = d
    OBVIOUS
  <2>5. own[d] \in Made /\ image[own[d]] = built[d] /\ (\A t \in Made : t <= own[d]) /\ chosen[d] # own[d]
    BY <2>1 DEF OwnIsNew
  <2>6. \A t \in retiring[d] : t < own[d]
    BY <2>5, MaxIsNat DEF ChosenServes, DeployTypes
  <2>7. DeployTypes'
    BY <2>3, <2>5 DEF DeployTypes
  <2>8. InOrderMade' /\ Deploy!RecordFits'
    BY <2>3 DEF InOrderMade, Deploy!RecordFits
  <2>9. OwnIsNew'
    BY <2>1, <2>3, <2>4 DEF OwnIsNew, DeployTypes
  <2>10. ChosenServes'
    BY <2>3, <2>4, <2>5, <2>6, MaxIsNat DEF ChosenServes, DeployTypes
  <2>11. ChosenFits'
    BY <2>1, <2>3, <2>4, <2>5 DEF ChosenFits, DeployTypes
  <2>12. QED
    BY <2>4, <2>7, <2>8, <2>9, <2>10, <2>11
<1>6. ASSUME NEW d \in Deployers, Deploy!CheckOperation(d) PROVE DeployInv'
  <2> USE <1>6 DEF Deploy!CheckOperation, Deploy!Goto
  <2>1. DeployTypes'
    BY DEF DeployTypes
  <2>2. InOrderMade'
    BY DEF DeployTypes, InOrderMade
  <2>3. OwnIsNew'
    BY DEF DeployTypes, OwnIsNew
  <2>4. ChosenServes'
    BY DEF DeployTypes, ChosenServes
  <2>5. ChosenFits'
    BY DEF DeployTypes, ChosenFits
  <2>6. Deploy!RecordFits'
    BY DEF DeployTypes, Deploy!RecordFits
  <2>7. QED
    BY <2>1, <2>2, <2>3, <2>4, <2>5, <2>6
<1>7. ASSUME NEW d \in Deployers, Deploy!TimesOut(d) PROVE DeployInv'
  <2> USE <1>7 DEF Deploy!TimesOut, Deploy!Goto
  <2>1. DeployTypes'
    BY DEF DeployTypes
  <2>2. InOrderMade'
    BY DEF DeployTypes, InOrderMade
  <2>3. OwnIsNew'
    BY DEF DeployTypes, OwnIsNew
  <2>4. ChosenServes'
    BY DEF DeployTypes, ChosenServes
  <2>5. ChosenFits'
    BY DEF DeployTypes, ChosenFits
  <2>6. Deploy!RecordFits'
    BY DEF DeployTypes, Deploy!RecordFits
  <2>7. QED
    BY <2>1, <2>2, <2>3, <2>4, <2>5, <2>6
<1>8. ASSUME NEW d \in Deployers, Deploy!Reap(d) PROVE DeployInv'
  <2>1. /\ UNCHANGED <<image, record, known, own, target, built, existing, chosen, written, retiring, deployed>>
        /\ d_pc[d] = "reap" /\ d_pc' = [d_pc EXCEPT ![d] = "idle"]
        /\ \/ target[d] # 0 /\ state' = [state EXCEPT ![target[d]] = "deleted"]
           \/ UNCHANGED state
    BY <1>8 DEF Deploy!Reap, Deploy!Goto, Deploy!NoTemplate, DeployTypes
  <2>2. target[d] # 0 => target[d] \in Made /\ target[d] # chosen[d]
    BY <2>1 DEF OwnIsNew
  <2>3. \A e \in Deployers : e = d
    OBVIOUS
  <2>4. ASSUME NEW t \in Deploy!Templates
        PROVE  state'[t] = state[t] \/ (t = target[d] /\ state'[t] = "deleted" /\ t \in Made)
    <3>1. CASE UNCHANGED state
      BY <3>1
    <3>2. CASE target[d] # 0 /\ state' = [state EXCEPT ![target[d]] = "deleted"]
      BY <2>2, <3>2 DEF DeployTypes
    <3>3. QED
      BY <2>1, <3>1, <3>2
  <2>5. Made' = Made
    BY <2>4
  <2>6. state' \in [Deploy!Templates -> {"none", "provisioning", "active", "failed", "deleted"}]
    BY <2>1 DEF DeployTypes
  <2> HIDE DEF Made
  <2>7. DeployTypes'
    BY <2>1, <2>5, <2>6 DEF DeployTypes
  <2>8. InOrderMade' /\ Deploy!RecordFits'
    BY <2>1, <2>5 DEF InOrderMade, Deploy!RecordFits
  <2>9. OwnIsNew'
    BY <2>1, <2>3 DEF OwnIsNew, DeployTypes
  <2>10. ChosenServes'
    BY <2>1, <2>2, <2>3, <2>4 DEF ChosenServes, DeployTypes, Made
  <2>11. ChosenFits'
    BY <2>1, <2>3 DEF ChosenFits, DeployTypes
  <2>12. QED
    BY <2>3, <2>7, <2>8, <2>9, <2>10, <2>11
<1>9. ASSUME NEW d \in Deployers, Deploy!WriteRecord(d) PROVE DeployInv'
  <2>1. /\ UNCHANGED <<state, image, known, own, target, built, existing, chosen, retiring, deployed>>
        /\ d_pc[d] = "record" /\ d_pc' = [d_pc EXCEPT ![d] = "fill"]
        /\ \/ record' = [record EXCEPT ![chosen[d]] = built[d]] /\ written' = written \cup {d}
           \/ UNCHANGED record /\ written' = written \ {d}
    BY <1>9 DEF Deploy!WriteRecord, Deploy!Goto, DeployTypes
  <2>2. chosen[d] \in Made /\ image[chosen[d]] = built[d]
    BY <2>1 DEF ChosenFits, DeployTypes
  <2>3. \A e \in Deployers : e = d
    OBVIOUS
  <2>4. ASSUME NEW t \in Deploy!Templates
        PROVE  record'[t] = record[t] \/ (t = chosen[d] /\ record'[t] = built[d])
    <3>1. CASE UNCHANGED record
      BY <3>1
    <3>2. CASE record' = [record EXCEPT ![chosen[d]] = built[d]]
      BY <2>2, <3>2 DEF DeployTypes
    <3>3. QED
      BY <2>1, <3>1, <3>2
  <2>5. d \in written' => record'[chosen[d]] = built[d]
    BY <2>1, <2>2 DEF DeployTypes
  <2>6. DeployTypes'
    BY <2>1 DEF DeployTypes
  <2>7. InOrderMade' /\ Deploy!RecordFits'
    BY <2>1, <2>2, <2>4 DEF InOrderMade, Deploy!RecordFits
  <2>8. OwnIsNew' /\ ChosenServes'
    BY <2>1, <2>3 DEF OwnIsNew, ChosenServes, DeployTypes
  <2>9. ChosenFits'
    BY <2>1, <2>3, <2>5 DEF ChosenFits, DeployTypes
  <2>10. QED
    BY <2>3, <2>6, <2>7, <2>8, <2>9
<1>10. ASSUME NEW d \in Deployers, Deploy!CutOver(d) PROVE DeployInv'
  <2> USE <1>10 DEF Deploy!CutOver, Deploy!Goto
  <2>1. DeployTypes'
    BY DEF DeployTypes
  <2>2. InOrderMade'
    BY DEF DeployTypes, InOrderMade
  <2>3. OwnIsNew'
    BY DEF DeployTypes, OwnIsNew
  <2>4. ChosenServes'
    <3>1. \A e \in Deployers : e = d
      OBVIOUS
    <3>2. \A t \in existing[d] \ {chosen[d]} : t < chosen[d]
      BY MaxIsNat DEF ChosenFits, DeployTypes
    <3>3. QED
      BY <3>1, <3>2 DEF ChosenServes, DeployTypes
  <2>5. ChosenFits'
    BY DEF DeployTypes, ChosenFits
  <2>6. Deploy!RecordFits'
    BY DEF DeployTypes, Deploy!RecordFits
  <2>7. QED
    BY <2>1, <2>2, <2>3, <2>4, <2>5, <2>6
<1>11. ASSUME NEW d \in Deployers, Deploy!FillFails(d) PROVE DeployInv'
  <2> USE <1>11 DEF Deploy!FillFails, Deploy!Goto
  <2>1. DeployTypes'
    BY DEF DeployTypes
  <2>2. InOrderMade'
    BY DEF DeployTypes, InOrderMade
  <2>3. OwnIsNew'
    BY DEF DeployTypes, OwnIsNew
  <2>4. ChosenServes'
    BY DEF DeployTypes, ChosenServes
  <2>5. ChosenFits'
    BY DEF DeployTypes, ChosenFits
  <2>6. Deploy!RecordFits'
    BY DEF DeployTypes, Deploy!RecordFits
  <2>7. QED
    BY <2>1, <2>2, <2>3, <2>4, <2>5, <2>6
<1>12. ASSUME NEW d \in Deployers, Deploy!Retire(d) PROVE DeployInv'
  <2> USE <1>12 DEF Deploy!Retire
  <2>1. DeployTypes'
    BY DEF DeployTypes
  <2>2. InOrderMade'
    BY DEF DeployTypes, InOrderMade
  <2>3. OwnIsNew'
    BY DEF DeployTypes, OwnIsNew
  <2>4. ChosenServes'
    BY DEF DeployTypes, ChosenServes
  <2>5. ChosenFits'
    BY DEF DeployTypes, ChosenFits
  <2>6. Deploy!RecordFits'
    BY DEF DeployTypes, Deploy!RecordFits
  <2>7. QED
    BY <2>1, <2>2, <2>3, <2>4, <2>5, <2>6
<1>13. ASSUME NEW d \in Deployers, Deploy!GiveUp(d) PROVE DeployInv'
  <2> USE <1>13 DEF Deploy!GiveUp
  <2>1. DeployTypes'
    BY DEF DeployTypes
  <2>2. InOrderMade'
    BY DEF DeployTypes, InOrderMade
  <2>3. OwnIsNew'
    BY DEF DeployTypes, OwnIsNew
  <2>4. ChosenServes'
    BY DEF DeployTypes, ChosenServes
  <2>5. ChosenFits'
    BY DEF DeployTypes, ChosenFits
  <2>6. Deploy!RecordFits'
    BY DEF DeployTypes, Deploy!RecordFits
  <2>7. QED
    BY <2>1, <2>2, <2>3, <2>4, <2>5, <2>6
<1>14. ASSUME NEW d \in Deployers, Deploy!Crash(d) PROVE DeployInv'
  <2> USE <1>14 DEF Deploy!Crash, Deploy!Goto
  <2>1. DeployTypes'
    BY DEF DeployTypes
  <2>2. InOrderMade'
    BY DEF DeployTypes, InOrderMade
  <2>3. OwnIsNew'
    BY DEF DeployTypes, OwnIsNew
  <2>4. ChosenServes'
    BY DEF DeployTypes, ChosenServes
  <2>5. ChosenFits'
    BY DEF DeployTypes, ChosenFits
  <2>6. Deploy!RecordFits'
    BY DEF DeployTypes, Deploy!RecordFits
  <2>7. QED
    BY <2>1, <2>2, <2>3, <2>4, <2>5, <2>6
<1>15. ASSUME NEW t \in Deploy!Templates, Deploy!Provision(t) PROVE DeployInv'
  <2>1. DeployTypes'
    BY <1>15 DEF Deploy!Provision, DeployTypes
  <2>2. InOrderMade'
    BY <1>15 DEF Deploy!Provision, DeployTypes, InOrderMade
  <2>3. OwnIsNew'
    BY <1>15 DEF Deploy!Provision, DeployTypes, OwnIsNew
  <2>4. ChosenServes'
    BY <1>15 DEF Deploy!Provision, DeployTypes, ChosenServes
  <2>5. ChosenFits'
    BY <1>15 DEF Deploy!Provision, DeployTypes, ChosenFits
  <2>6. Deploy!RecordFits'
    BY <1>15 DEF Deploy!Provision, DeployTypes, Deploy!RecordFits
  <2>7. QED
    BY <1>15, <2>1, <2>2, <2>3, <2>4, <2>5, <2>6 DEF Deploy!Provision
<1>16. CASE UNCHANGED Deploy!vars
  BY <1>16 DEF Deploy!vars, DeployTypes, InOrderMade, OwnIsNew, ChosenServes, ChosenFits, Deploy!RecordFits
<1>17. QED
  BY <1>1, <1>2, <1>3, <1>4, <1>5, <1>6, <1>7, <1>8, <1>9, <1>10, <1>11,
         <1>12, <1>13, <1>14, <1>15, <1>16
     DEF Deploy!Next, Deploy!Deploying, Deploy!Creating

LEMMA DeployInvInit == Deploy!Init => DeployInv
<1> SUFFICES ASSUME Deploy!Init PROVE DeployInv
  OBVIOUS
<1> USE DEF Deploy!Init, Deploy!NoTemplate
<1>1. Made = {}
  BY DEF Made
<1>2. DeployTypes
  BY <1>1 DEF DeployTypes
<1>3. InOrderMade /\ OwnIsNew
  BY <1>1 DEF InOrderMade, OwnIsNew
<1>4. ChosenServes /\ ChosenFits /\ Deploy!RecordFits
  BY DEF ChosenServes, ChosenFits, Deploy!RecordFits
<1>5. QED
  BY <1>2, <1>3, <1>4 DEF DeployInv

\* A step of the whole is a step of deploy(), or leaves it alone.
LEMMA DeployMoves == [Next]_vars => [Deploy!Next]_(Deploy!vars)
<1>1. Next => Deploy!Next \/ UNCHANGED deploy
  BY DEF Next
<1>2. UNCHANGED vars => UNCHANGED deploy
  BY DEF vars
<1>3. UNCHANGED deploy => UNCHANGED Deploy!vars
  BY DEF deploy, Deploy!vars, Deploy!platform, Deploy!creation, Deploy!deployer
<1>4. QED
  BY <1>1, <1>2, <1>3

\* One deployer, who may crash anywhere and call deploy() again: every record
\* fits its version, a deploy that went through is the one resolved, and from
\* the first one on there always is a version that serves.
THEOREM OneDeployerServes ==
    ASSUME \A d, e \in Deployers : d = e
    PROVE  Spec => []DeployServes
<1>1. Init => DeployInv
  BY DeployInvInit DEF Init
<1>2. DeployInv /\ [Next]_vars => DeployInv'
  BY DeployStep, DeployMoves
<1>3. ASSUME DeployInv PROVE Deploy!RecordFits /\ Deploy!DeployIsServed /\ Deploy!AlwaysServed
  <2> USE <1>3 DEF DeployInv
  <2> DEFINE active == {t \in Deploy!Templates : state[t] = "active"}
  <2>1. active \in SUBSET Deploy!Templates /\ active \subseteq Made
    BY DEF Made
  <2>2. active # {} => Deploy!Resolved \in active
    BY <2>1, NewestIsNewest DEF Deploy!Resolved
  <2>3. active = {} => Deploy!Resolved = 0
    BY DEF Deploy!Resolved, Deploy!Newest, Deploy!NoTemplate
  <2>4. Deploy!AlwaysServed
    <3>1. deployed => active # {}
      BY DEF ChosenServes, DeployTypes, Made
    <3>2. QED
      BY <2>2, <3>1 DEF Deploy!AlwaysServed, Deploy!NoTemplate, Deploy!Templates
  <2>5. ASSUME NEW d \in Deployers, d_pc[d] = "fill", d \in written
        PROVE  image[chosen[d]] = built[d] /\ record[chosen[d]] = built[d] /\ chosen[d] >= Deploy!Resolved
    <3>1. /\ image[chosen[d]] = built[d] /\ record[chosen[d]] = built[d] /\ chosen[d] # 0
          /\ \A t \in active : t <= chosen[d]
      BY <2>1, <2>5 DEF ChosenFits
    <3>2. chosen[d] \in Nat /\ active \subseteq Nat
      BY <3>1, MaxIsNat DEF DeployTypes, Made, Deploy!Templates
    <3>3. QED
      BY <2>2, <2>3, <3>1, <3>2
  <2>6. QED
    BY <2>4, <2>5 DEF Deploy!DeployIsServed
<1>4. DeployInv => DeployServes
  BY <1>3 DEF DeployServes
<1>5. QED
  BY <1>1, <1>2, <1>4, PTL DEF Spec

-----------------------------------------------------------------------------
(* The tokens of a turn.                                                   *)

TokensP == INSTANCE RunTokensProofs WITH
    MayDetach <- FALSE, AdoptWithin <- 0, Sampling <- TRUE, MaxTime <- TokensTime, record <- k_record

LeftP == INSTANCE RunTokensProofs WITH
    MayDetach <- TRUE, Sampling <- TRUE, StorageFaults <- 0, ModelFaults <- 0, ReadFaults <- 0,
    MaxTime <- LeftTime, record <- k_record

TurnTokens == IF part = "left" THEN LeftP!TokenInv ELSE TokensP!TokenInv

\* The proofs are about the same steps.
LEMMA SameTokens ==
    /\ Tokens!Init => TokensP!Init /\ LeftP!Init
    /\ Tokens!Next => TokensP!Next
    /\ Left!Next => LeftP!Next
<1>1. Tokens!Init => TokensP!Init /\ LeftP!Init
  BY DEF Tokens!Init, Tokens!MintTokens, Tokens!StartRefresh, TokensP!Init, TokensP!MintTokens, TokensP!StartRefresh,
         LeftP!Init, LeftP!MintTokens, LeftP!StartRefresh
<1>2. Tokens!Next => TokensP!Next
  <2>1. Tokens!AcceptTurn => TokensP!AcceptTurn
    BY DEF Tokens!AcceptTurn, TokensP!AcceptTurn, Tokens!WithinHorizon, TokensP!WithinHorizon, Tokens!LowerOf, TokensP!LowerOf
  <2>2. Tokens!ServeToken => TokensP!ServeToken
    BY DEF Tokens!ServeToken, TokensP!ServeToken
  <2>3. Tokens!RefreshHandler => TokensP!RefreshHandler
    BY DEF Tokens!RefreshHandler, TokensP!RefreshHandler, Tokens!WithinHorizon, TokensP!WithinHorizon,
           Tokens!LowerOf, TokensP!LowerOf, Tokens!Stale, TokensP!Stale, Tokens!Fails, TokensP!Fails
  <2>4. Tokens!CliFetches => TokensP!CliFetches
    BY DEF Tokens!CliFetches, TokensP!CliFetches, Tokens!CliStale, TokensP!CliStale
  <2>5. Tokens!RefreshStorage => TokensP!RefreshStorage
    BY DEF Tokens!RefreshStorage, TokensP!RefreshStorage, Tokens!Wakes, TokensP!Wakes, Tokens!Fails, TokensP!Fails
  <2>6. Tokens!RefreshModelToken => TokensP!RefreshModelToken
    BY DEF Tokens!RefreshModelToken, TokensP!RefreshModelToken, Tokens!Wakes, TokensP!Wakes,
           Tokens!Fails, TokensP!Fails, Tokens!NextRound, TokensP!NextRound
  <2>7. Tokens!Detach => TokensP!Detach
    BY DEF Tokens!Detach, TokensP!Detach
  <2>8. Tokens!Attach => TokensP!Attach
    BY DEF Tokens!Attach, TokensP!Attach, Tokens!StartRefresh, TokensP!StartRefresh
  <2>9. Tokens!Tick => TokensP!Tick
    BY DEF Tokens!Tick, TokensP!Tick, Tokens!Wakes, TokensP!Wakes, Tokens!Stale, TokensP!Stale, Tokens!CliStale, TokensP!CliStale
  <2>10. QED
    BY <2>1, <2>2, <2>3, <2>4, <2>5, <2>6, <2>7, <2>8, <2>9 DEF Tokens!Next, TokensP!Next
<1>3. Left!Next => LeftP!Next
  <2>1. Left!AcceptTurn => LeftP!AcceptTurn
    BY DEF Left!AcceptTurn, LeftP!AcceptTurn, Left!WithinHorizon, LeftP!WithinHorizon, Left!LowerOf, LeftP!LowerOf
  <2>2. Left!ServeToken => LeftP!ServeToken
    BY DEF Left!ServeToken, LeftP!ServeToken
  <2>3. Left!RefreshHandler => LeftP!RefreshHandler
    BY DEF Left!RefreshHandler, LeftP!RefreshHandler, Left!WithinHorizon, LeftP!WithinHorizon,
           Left!LowerOf, LeftP!LowerOf, Left!Stale, LeftP!Stale, Left!Fails, LeftP!Fails
  <2>4. Left!CliFetches => LeftP!CliFetches
    BY DEF Left!CliFetches, LeftP!CliFetches, Left!CliStale, LeftP!CliStale
  <2>5. Left!RefreshStorage => LeftP!RefreshStorage
    BY DEF Left!RefreshStorage, LeftP!RefreshStorage, Left!Wakes, LeftP!Wakes, Left!Fails, LeftP!Fails
  <2>6. Left!RefreshModelToken => LeftP!RefreshModelToken
    BY DEF Left!RefreshModelToken, LeftP!RefreshModelToken, Left!Wakes, LeftP!Wakes,
           Left!Fails, LeftP!Fails, Left!NextRound, LeftP!NextRound
  <2>7. Left!Detach => LeftP!Detach
    BY DEF Left!Detach, LeftP!Detach
  <2>8. Left!Attach => LeftP!Attach
    BY DEF Left!Attach, LeftP!Attach, Left!StartRefresh, LeftP!StartRefresh
  <2>9. Left!Tick => LeftP!Tick
    BY DEF Left!Tick, LeftP!Tick, Left!Wakes, LeftP!Wakes, Left!Stale, LeftP!Stale, Left!CliStale, LeftP!CliStale
  <2>10. QED
    BY <2>1, <2>2, <2>3, <2>4, <2>5, <2>6, <2>7, <2>8, <2>9 DEF Left!Next, LeftP!Next
<1>4. QED
  BY <1>1, <1>2, <1>3

\* A step of the whole is a step of the tokens, or leaves them alone.
LEMMA TokensMove ==
    /\ part = "left" /\ [Next]_vars => [LeftP!Next]_(LeftP!vars)
    /\ part # "left" /\ [Next]_vars => [TokensP!Next]_(TokensP!vars)
    /\ [Next]_vars => UNCHANGED part
<1>1. part = "left" /\ Next => LeftP!Next
  BY SameTokens DEF Next
<1>2. part # "left" /\ Next => TokensP!Next \/ UNCHANGED tokens
  BY SameTokens DEF Next
<1>3. UNCHANGED vars => UNCHANGED <<part, tokens>>
  BY DEF vars
<1>4. UNCHANGED tokens => UNCHANGED LeftP!vars /\ UNCHANGED TokensP!vars
  BY DEF tokens, LeftP!vars, TokensP!vars
<1>5. Next => UNCHANGED part
  BY DEF Next
<1>6. QED
  BY <1>1, <1>2, <1>3, <1>4, <1>5

\* With slack enough for the failures, and for the time a turn is left alone,
\* the turn's storage token and its model token always work.
THEOREM TokensStayLive ==
    ASSUME TokensP!Timely, LeftP!Timely
    PROVE  Spec => []TokensLive
<1>1. Init => TurnTokens
  BY SameTokens, TokensP!TokenInvInit, LeftP!TokenInvInit DEF Init, TurnTokens
<1>2. TurnTokens /\ [Next]_vars => TurnTokens'
  <2>1. CASE part = "left"
    BY <2>1, TokensMove, LeftP!TokenInvStep DEF TurnTokens
  <2>2. CASE part # "left"
    BY <2>2, TokensMove, TokensP!TokenInvStep DEF TurnTokens
  <2>3. QED
    BY <2>1, <2>2
<1>3. TurnTokens => TokensLive
  BY TokensP!TokensLast, LeftP!TokensLast DEF TurnTokens, TokensLive, Tokens!StorageLives, Tokens!ModelLives
<1>4. QED
  BY <1>1, <1>2, <1>3, PTL DEF Spec

-----------------------------------------------------------------------------
(* The types of every component.                                           *)

\* exec(): the names that a call has read are of turns that were started.
LEMMA ExecTypesStep ==
    ASSUME NamesKept, Call!TypeOK, [Call!Next]_(Call!vars)
    PROVE  Call!TypeOK'
<1>1. ExecTurns \in Nat
  BY EngineAssumption DEF Call!ExecAssumption
<1> DEFINE SessionTypes == cur \in 0..ExecTurns /\ done \subseteq 1..cur /\ sandbox \in {0, cur}
           NameTypes    == x_asked \in 0..cur /\ x_target \in 0..cur /\ id \in 0..cur /\ within \in {0, x_target}
           CommandTypes == (rc # -1) = (x_phase = "ended") /\ (x_phase = "draining" => x_due)
<1> USE DEF Call!session, Call!client, Call!command
<1>2. SessionTypes /\ NameTypes /\ CommandTypes
  BY DEF Call!TypeOK
<1>3. cur \in Int
  BY <1>1, <1>2
<1>4. CASE Call!Run
  <2>1. cur' = cur + 1 /\ cur < ExecTurns /\ sandbox' = 0 /\ UNCHANGED <<done, x_asked, x_target, id, within, rc, x_phase, x_due>>
    BY <1>4 DEF Call!Run
  <2>2. 0..cur \subseteq 0..(cur + 1) /\ 1..cur \subseteq 1..(cur + 1) /\ cur + 1 \in 0..ExecTurns
    BY <1>1, <1>2, <1>3, <2>1
  <2>3. SessionTypes' /\ NameTypes' /\ CommandTypes'
    BY <1>2, <2>1, <2>2
  <2>4. QED
    BY <2>3 DEF Call!TypeOK
<1>5. CASE Call!Dispatched
  BY <1>2, <1>5 DEF Call!Dispatched, Call!TypeOK
<1>6. CASE Call!RunEnds
  <2>1. cur # 0 /\ done' = done \cup {cur} /\ sandbox' = 0 /\ UNCHANGED <<cur, x_asked, x_target, id, within, rc, x_phase, x_due>>
    BY <1>6 DEF Call!RunEnds
  <2>2. cur \in 1..cur
    BY <1>1, <1>2, <2>1
  <2>3. QED
    BY <1>2, <2>1, <2>2 DEF Call!TypeOK
<1>7. ASSUME NEW t \in Call!Turns, Call!WorkerEnds(t) PROVE Call!TypeOK'
  BY <1>2, <1>7 DEF Call!WorkerEnds, Call!TypeOK
<1>8. ASSUME NEW t \in Call!Turns, Call!SandboxGoes(t) PROVE Call!TypeOK'
  <2>1. /\ UNCHANGED <<cur, done, sandbox, x_asked, x_target, id, within, rc, x_due>>
        /\ UNCHANGED x_phase \/ (x_phase \in {"reading", "draining"} /\ x_phase' = "off")
    BY <1>8 DEF Call!SandboxGoes
  <2>2. CommandTypes'
    BY <1>2, <2>1
  <2>3. QED
    BY <1>2, <2>1, <2>2 DEF Call!TypeOK
<1>9. CASE Call!Call \/ Call!StopsWaiting \/ Call!ReadsSandbox \/ Call!ReadsTurn
  <2>1. UNCHANGED <<cur, done, sandbox, within, rc, x_phase, x_due>>
    BY <1>9 DEF Call!Call, Call!StopsWaiting, Call!ReadsSandbox, Call!ReadsTurn
  <2>2. /\ x_asked' \in {x_asked, cur} /\ id' \in {id, cur}
        /\ UNCHANGED x_target \/ (within = 0 /\ x_target' = sandbox)
    BY <1>9 DEF Call!Call, Call!StopsWaiting, Call!ReadsSandbox, Call!ReadsTurn, NamesKept
  <2>3. NameTypes'
    BY <1>1, <1>2, <1>3, <2>1, <2>2
  <2>4. QED
    BY <1>2, <2>1, <2>3 DEF Call!TypeOK
<1>10. CASE Call!Answered \/ Call!CallCut \/ Call!WorkerRefuses
  BY <1>2, <1>10 DEF Call!Answered, Call!CallCut, Call!WorkerRefuses, Call!TypeOK
<1>11. CASE Call!WorkerTakes
  BY <1>2, <1>11 DEF Call!WorkerTakes, Call!TypeOK
<1>12. CASE Call!ShellExits \/ Call!ChildExits \/ Call!TimePasses
  BY <1>2, <1>12 DEF Call!ShellExits, Call!ChildExits, Call!TimePasses, Call!TypeOK
<1>13. CASE Call!Communicated \/ Call!KillGroup \/ Call!Drained
  <2>1. /\ UNCHANGED <<cur, done, sandbox, x_asked, x_target, id, within, x_due>>
        /\ \/ x_phase' = "ended" /\ rc' \in {0, 124}
           \/ x_phase = "reading" /\ x_phase' = "draining" /\ x_due /\ UNCHANGED rc
    BY <1>13 DEF Call!Communicated, Call!KillGroup, Call!Drained
  <2>2. CommandTypes'
    BY <1>2, <2>1
  <2>3. QED
    BY <1>2, <2>1, <2>2 DEF Call!TypeOK
<1>14. CASE UNCHANGED Call!vars
  BY <1>2, <1>14 DEF Call!vars, Call!TypeOK
<1>15. QED
  BY <1>4, <1>5, <1>6, <1>7, <1>8, <1>9, <1>10, <1>11, <1>12, <1>13, <1>14 DEF Call!Next

LEMMA ExecTyped == Spec => []Call!TypeOK
<1>1. Init => Call!TypeOK
  <2>1. ExecTurns \in Nat
    BY EngineAssumption DEF Call!ExecAssumption
  <2>2. QED
    BY <2>1 DEF Init, Call!Init, Call!TypeOK
<1>2. Call!TypeOK /\ ExecInv /\ [Next]_vars => Call!TypeOK'
  BY ExecTypesStep, ExecMoves DEF ExecInv
<1>3. QED
  BY <1>1, <1>2, ExecInvariant, PTL DEF Spec

\* deploy(), with any number of deployers: what one has listed, made, polls or
\* retires was made, and pins an image.
Listings ==
    /\ known \in [Deployers -> SUBSET Made]
    /\ own \in [Deployers -> Made \cup {0}]
    /\ target \in [Deployers -> Made \cup {0}]
    /\ \A t \in Made : image[t] # NoImage

Asked ==
    /\ \A d \in Deployers : d_pc[d] # "idle" => built[d] # NoImage
    /\ \A d \in Deployers : d_pc[d] \in {"record", "fill"} => chosen[d] # 0

DeployTyped == DeployTypes /\ Listings /\ Asked

LEMMA ImagesAreSome == NoImage \notin Images
BY EngineAssumption DEF Deploy!DeployAssumption

\* deploy() up to the template.
LEMMA DeployCallTyped ==
    ASSUME DeployTyped, NEW d \in Deployers, Deploy!Deploy(d)
    PROVE  DeployTyped'
<1> DEFINE listed == Deploy!Live(Deploy!Templates)
           newest == Deploy!Newest(listed)
<1>1. UNCHANGED <<state, image, record, known, own, target, retiring>> /\ Made' = Made
  BY DEF Deploy!Deploy, Deploy!platform, Deploy!creation, Made
<1>2. PICK i \in Images :
        /\ built' = [built EXCEPT ![d] = i] /\ existing' = [existing EXCEPT ![d] = listed]
        /\ \/ /\ newest # 0 /\ chosen' = [chosen EXCEPT ![d] = newest]
              /\ d_pc' = [d_pc EXCEPT ![d] = "record"] /\ deployed' = TRUE
           \/ d_pc' = [d_pc EXCEPT ![d] = "list"] /\ UNCHANGED <<chosen, deployed>>
  BY DEF Deploy!Deploy, Deploy!Goto, Deploy!NoTemplate, DeployTyped, DeployTypes
<1>3. listed \in SUBSET Made /\ listed \in SUBSET Deploy!Templates
  BY DEF Deploy!Live, Made
<1>4. newest # 0 => newest \in Made
  <2>1. CASE listed = {}
    BY <2>1 DEF Deploy!Newest, Deploy!NoTemplate
  <2>2. CASE listed # {}
    BY <2>2, <1>3, NewestIsNewest
  <2>3. QED
    BY <2>1, <2>2
<1> HIDE DEF listed, newest
<1>5. DeployTypes'
  <2>1. DeployTypes
    BY DEF DeployTyped
  <2>2. existing' \in [Deployers -> SUBSET Made] /\ built' \in [Deployers -> Images \cup {NoImage}]
    BY <1>2, <1>3, <2>1 DEF DeployTypes
  <2>3. chosen' \in [Deployers -> Made \cup {0}]
    <3>1. chosen \in [Deployers -> Made \cup {0}]
      BY <2>1 DEF DeployTypes
    <3>2. QED
      BY <1>2, <1>4, <3>1
  <2>4. /\ d_pc' \in [Deployers -> {"idle", "list", "create", "poll", "reap", "record", "fill"}]
        /\ deployed' \in BOOLEAN
    BY <1>2, <2>1 DEF DeployTypes
  <2>5. QED
    BY <1>1, <2>1, <2>2, <2>3, <2>4 DEF DeployTypes
<1>6. Listings'
  BY <1>1 DEF DeployTyped, Listings
<1>7. Asked'
  BY <1>2, ImagesAreSome DEF DeployTyped, DeployTypes, Asked
<1>8. QED
  BY <1>5, <1>6, <1>7 DEF DeployTyped

\* What create_template does to the templates.
LEMMA CreateTyped ==
    ASSUME DeployTyped, NEW d \in Deployers, Deploy!Create(d)
    PROVE  DeployTyped'
<1>1. PICK t \in Deploy!Templates, reaped \in SUBSET {s \in known[d] : state[s] = "failed"} :
        /\ state[t] = "none"
        /\ state' = [s \in Deploy!Templates |->
                       IF s = t THEN "provisioning" ELSE IF s \in reaped THEN "deleted" ELSE state[s]]
        /\ image' = [image EXCEPT ![t] = built[d]] /\ own' = [own EXCEPT ![d] = t]
        /\ \E named \in {t, 0} : target' = [target EXCEPT ![d] = named]
  BY DEF Deploy!Create, Deploy!NoTemplate
<1>2. /\ UNCHANGED <<record, known, built, existing, chosen, retiring>>
      /\ d_pc[d] = "create" /\ d_pc' = [d_pc EXCEPT ![d] = "poll"] /\ deployed' \in BOOLEAN
  BY DEF Deploy!Create, Deploy!Goto, Deploy!deployer, DeployTyped, DeployTypes
<1>3. Made' = Made \cup {t}
  BY <1>1 DEF Made, DeployTyped, DeployTypes
<1>4. built[d] \in Images
  BY <1>2 DEF DeployTyped, DeployTypes, Asked
<1>5. DeployTypes'
  <2>1. state' \in [Deploy!Templates -> {"none", "provisioning", "active", "failed", "deleted"}]
    BY <1>1 DEF DeployTyped, DeployTypes
  <2>2. image' \in [Deploy!Templates -> Images \cup {NoImage}]
    BY <1>1, <1>4 DEF DeployTyped, DeployTypes
  <2>3. t \in Deploy!Templates
    OBVIOUS
  <2>4. own' \in [Deployers -> Deploy!Templates \cup {0}] /\ target' \in [Deployers -> Deploy!Templates \cup {0}]
    BY <1>1 DEF DeployTyped, DeployTypes
  <2>5. /\ existing' \in [Deployers -> SUBSET Made'] /\ retiring' \in [Deployers -> SUBSET Made']
        /\ chosen' \in [Deployers -> Made' \cup {0}]
    BY <1>2, <1>3 DEF DeployTyped, DeployTypes
  <2>6. d_pc' \in [Deployers -> {"idle", "list", "create", "poll", "reap", "record", "fill"}]
    BY <1>2 DEF DeployTyped, DeployTypes
  <2>7. QED
    BY <1>2, <2>1, <2>2, <2>4, <2>5, <2>6 DEF DeployTyped, DeployTypes
<1>6. Listings'
  <2>1. known' \in [Deployers -> SUBSET Made']
    BY <1>2, <1>3 DEF DeployTyped, Listings
  <2>2. own' \in [Deployers -> Made' \cup {0}] /\ target' \in [Deployers -> Made' \cup {0}]
    BY <1>1, <1>3 DEF DeployTyped, Listings
  <2>3. \A s \in Made' : image'[s] # NoImage
    <3>1. Made \subseteq Deploy!Templates
      BY DEF Made
    <3>2. QED
      BY <1>1, <1>3, <1>4, <3>1, ImagesAreSome DEF DeployTyped, DeployTypes, Listings
  <2>4. QED
    BY <2>1, <2>2, <2>3 DEF Listings
<1>7. Asked'
  BY <1>2 DEF DeployTyped, DeployTypes, Asked
<1>8. QED
  BY <1>5, <1>6, <1>7 DEF DeployTyped

\* A poll takes a row that it listed.
LEMMA PollTyped ==
    ASSUME DeployTyped, NEW d \in Deployers, Deploy!Poll(d)
    PROVE  DeployTyped'
<1> DEFINE row == Deploy!PolledRow(d)
<1>1. /\ UNCHANGED <<state, image, record, known, own, built, existing, retiring>> /\ Made' = Made
      /\ row # 0 /\ target' = [target EXCEPT ![d] = row] /\ d_pc[d] = "poll"
      /\ \/ chosen' = [chosen EXCEPT ![d] = row] /\ d_pc' = [d_pc EXCEPT ![d] = "record"] /\ deployed' \in BOOLEAN
         \/ d_pc' = [d_pc EXCEPT ![d] = "reap"] /\ UNCHANGED chosen /\ deployed' \in BOOLEAN
         \/ UNCHANGED <<d_pc, chosen, deployed>>
  BY DEF Deploy!Poll, Deploy!Goto, Deploy!NoTemplate, Deploy!platform, DeployTyped, DeployTypes, Made
<1>2. row \in Made
  <2> DEFINE listed == Deploy!Rows(d)
  <2>1. listed \in SUBSET Made /\ listed \in SUBSET Deploy!Templates
    BY DEF Deploy!Rows, Deploy!Live, Made
  <2>2. row = Deploy!Newest(listed)
    BY DEF Deploy!PolledRow
  <2> HIDE DEF row, listed
  <2>3. listed # {}
    BY <1>1, <2>2 DEF Deploy!Newest, Deploy!NoTemplate
  <2>4. QED
    BY <2>1, <2>2, <2>3, NewestIsNewest
<1> HIDE DEF row
<1>3. row \in Deploy!Templates
  BY <1>2 DEF Made
<1>4. DeployTypes'
  BY <1>1, <1>2, <1>3 DEF DeployTyped, DeployTypes
<1>5. Listings'
  BY <1>1, <1>2 DEF DeployTyped, Listings
<1>6. Asked'
  BY <1>1 DEF DeployTyped, DeployTypes, Asked
<1>7. QED
  BY <1>4, <1>5, <1>6 DEF DeployTyped

\* The steps that make nothing: a template that was made stays made.
LEMMA RestTyped ==
    ASSUME DeployTyped, Made' = Made, UNCHANGED image,
           state' \in [Deploy!Templates -> {"none", "provisioning", "active", "failed", "deleted"}],
           deployed' \in BOOLEAN,
           record' \in [Deploy!Templates -> Images \cup {NoImage}],
           d_pc' \in [Deployers -> {"idle", "list", "create", "poll", "reap", "record", "fill"}],
           UNCHANGED <<built, existing, own, chosen>>,
           known' \in [Deployers -> SUBSET Made],
           target' \in [Deployers -> Made \cup {0}],
           retiring' \in [Deployers -> SUBSET Made],
           \A d \in Deployers : d_pc'[d] # "idle" => d_pc[d] # "idle",
           \A d \in Deployers : d_pc'[d] \in {"record", "fill"} => d_pc[d] \in {"record", "fill"}
    PROVE  DeployTyped'
<1>1. Made \subseteq Deploy!Templates
  BY DEF Made
<1>2. DeployTypes'
  BY <1>1 DEF DeployTyped, DeployTypes
<1>3. Listings' /\ Asked'
  BY DEF DeployTyped, Listings, Asked
<1>4. QED
  BY <1>2, <1>3 DEF DeployTyped

LEMMA DeployTypedStep == DeployTyped /\ [Deploy!Next]_(Deploy!vars) => DeployTyped'
<1> SUFFICES ASSUME DeployTyped, [Deploy!Next]_(Deploy!vars) PROVE DeployTyped'
  OBVIOUS
<1>1. /\ state \in [Deploy!Templates -> {"none", "provisioning", "active", "failed", "deleted"}]
      /\ record \in [Deploy!Templates -> Images \cup {NoImage}]
      /\ d_pc \in [Deployers -> {"idle", "list", "create", "poll", "reap", "record", "fill"}]
      /\ built \in [Deployers -> Images \cup {NoImage}] /\ deployed \in BOOLEAN
      /\ existing \in [Deployers -> SUBSET Made] /\ chosen \in [Deployers -> Made \cup {0}]
      /\ retiring \in [Deployers -> SUBSET Made]
  BY DEF DeployTyped, DeployTypes
<1>2. known \in [Deployers -> SUBSET Made] /\ own \in [Deployers -> Made \cup {0}] /\ target \in [Deployers -> Made \cup {0}]
  BY DEF DeployTyped, Listings
<1> USE DEF Deploy!platform, Deploy!creation, Deploy!deployer, Deploy!Goto
<1>3. ASSUME NEW d \in Deployers, Deploy!ListKnown(d) PROVE DeployTyped'
  <2>1. known' = [known EXCEPT ![d] = Made] /\ Made' = Made
    BY <1>3 DEF Deploy!ListKnown, Made
  <2>2. known' \in [Deployers -> SUBSET Made]
    BY <1>2, <2>1
  <2>3. QED
    BY <1>1, <1>2, <1>3, <2>1, <2>2, RestTyped DEF Deploy!ListKnown
<1>4. ASSUME NEW d \in Deployers, Deploy!CreateFails(d) \/ Deploy!TimesOut(d) \/ Deploy!FillFails(d) PROVE DeployTyped'
  <2>1. Made' = Made
    BY <1>4 DEF Deploy!CreateFails, Deploy!TimesOut, Deploy!FillFails, Made
  <2>2. QED
    BY <1>1, <1>2, <1>4, <2>1, RestTyped DEF Deploy!CreateFails, Deploy!TimesOut, Deploy!FillFails
<1>5. ASSUME NEW d \in Deployers, Deploy!CheckOperation(d) PROVE DeployTyped'
  <2>1. Made' = Made
    BY <1>5 DEF Deploy!CheckOperation, Made
  <2>2. QED
    BY <1>1, <1>2, <1>5, <2>1, RestTyped DEF Deploy!CheckOperation
<1>6. ASSUME NEW d \in Deployers, Deploy!Reap(d) PROVE DeployTyped'
  <2>1. Made' = Made
    BY <1>1, <1>2, <1>6 DEF Deploy!Reap, Deploy!NoTemplate, Made
  <2>2. state' \in [Deploy!Templates -> {"none", "provisioning", "active", "failed", "deleted"}]
    BY <1>1, <1>6 DEF Deploy!Reap
  <2>3. QED
    BY <1>1, <1>2, <1>6, <2>1, <2>2, RestTyped DEF Deploy!Reap
<1>7. ASSUME NEW d \in Deployers, Deploy!WriteRecord(d) PROVE DeployTyped'
  <2>1. Made' = Made
    BY <1>7 DEF Deploy!WriteRecord, Made
  <2>2. record' \in [Deploy!Templates -> Images \cup {NoImage}]
    BY <1>1, <1>7 DEF Deploy!WriteRecord
  <2>3. QED
    BY <1>1, <1>2, <1>7, <2>1, <2>2, RestTyped DEF Deploy!WriteRecord
<1>8. ASSUME NEW d \in Deployers, Deploy!CutOver(d) PROVE DeployTyped'
  <2>1. Made' = Made
    BY <1>8 DEF Deploy!CutOver, Made
  <2>2. retiring' \in [Deployers -> SUBSET Made]
    BY <1>1, <1>8 DEF Deploy!CutOver
  <2>3. QED
    BY <1>1, <1>2, <1>8, <2>1, <2>2, RestTyped DEF Deploy!CutOver
<1>9. ASSUME NEW d \in Deployers, Deploy!Retire(d) PROVE DeployTyped'
  <2>1. PICK t \in retiring[d] :
          state' = [state EXCEPT ![t] = "deleted"] /\ retiring' = [retiring EXCEPT ![d] = @ \ {t}]
    BY <1>9 DEF Deploy!Retire
  <2>2. t \in Made
    BY <1>1
  <2>3. Made' = Made /\ state' \in [Deploy!Templates -> {"none", "provisioning", "active", "failed", "deleted"}]
    BY <1>1, <2>1, <2>2 DEF Made
  <2>4. retiring' \in [Deployers -> SUBSET Made]
    BY <1>1, <2>1
  <2>5. QED
    BY <1>1, <1>2, <1>9, <2>3, <2>4, RestTyped DEF Deploy!Retire
<1>10. ASSUME NEW d \in Deployers, Deploy!GiveUp(d) \/ Deploy!Crash(d) PROVE DeployTyped'
  <2>1. Made' = Made
    BY <1>10 DEF Deploy!GiveUp, Deploy!Crash, Made
  <2>2. retiring' \in [Deployers -> SUBSET Made]
    BY <1>1, <1>10 DEF Deploy!GiveUp, Deploy!Crash
  <2>3. QED
    BY <1>1, <1>2, <1>10, <2>1, <2>2, RestTyped DEF Deploy!GiveUp, Deploy!Crash
<1>11. ASSUME NEW t \in Deploy!Templates, Deploy!Provision(t) PROVE DeployTyped'
  <2>1. state[t] = "provisioning" /\ \E o \in {"active", "failed"} : state' = [state EXCEPT ![t] = o]
    BY <1>11 DEF Deploy!Provision
  <2>2. Made' = Made /\ state' \in [Deploy!Templates -> {"none", "provisioning", "active", "failed", "deleted"}]
    BY <1>1, <2>1 DEF Made
  <2>3. QED
    BY <1>1, <1>2, <1>11, <2>2, RestTyped DEF Deploy!Provision
<1>12. CASE UNCHANGED Deploy!vars
  <2>1. Made' = Made
    BY <1>12 DEF Deploy!vars, Made
  <2>2. QED
    BY <1>1, <1>2, <1>12, <2>1, RestTyped DEF Deploy!vars
<1>13. QED
  BY <1>3, <1>4, <1>5, <1>6, <1>7, <1>8, <1>9, <1>10, <1>11, <1>12, DeployCallTyped, CreateTyped, PollTyped
     DEF Deploy!Next, Deploy!Deploying, Deploy!Creating

LEMMA DeployIsTyped == Spec => []Deploy!TypeOK
<1>1. Init => DeployTyped
  <2>1. Deploy!Init => DeployInv /\ Made = {}
    BY DeployInvInit DEF Deploy!Init, Made
  <2>2. Deploy!Init /\ Made = {} => Listings /\ Asked
    BY DEF Deploy!Init, Deploy!NoTemplate, Listings, Asked
  <2>3. QED
    BY <2>1, <2>2 DEF Init, DeployInv, DeployTyped
<1>2. DeployTyped /\ [Next]_vars => DeployTyped'
  BY DeployTypedStep, DeployMoves
<1>3. ASSUME DeployTyped PROVE Deploy!TypeOK
  <2> USE <1>3 DEF DeployTyped
  <2>1. {image[t] : t \in Deploy!Templates} \cup {record[t] : t \in Deploy!Templates} \subseteq Images \cup {NoImage}
    BY DEF DeployTypes
  <2>2. ASSUME NEW d \in Deployers
        PROVE  /\ {own[d], target[d], chosen[d]} \subseteq Deploy!Templates \cup {0}
               /\ existing[d] \cup known[d] \cup retiring[d] \subseteq Made
               /\ d_pc[d] \in {"record", "fill"} => chosen[d] # 0 /\ image[chosen[d]] # NoImage
    <3>1. chosen[d] \in Made \cup {0} /\ Made \subseteq Deploy!Templates
      BY DEF DeployTypes, Made
    <3>2. QED
      BY <3>1 DEF DeployTypes, Listings, Asked
  <2>3. QED
    BY <2>1, <2>2 DEF DeployTypes, Deploy!TypeOK, Deploy!NoTemplate, Made
<1>4. QED
  BY <1>1, <1>2, <1>3, PTL DEF Spec

\* The set-up: a run of the tool applies its last round of fixes before it has
\* used up its rounds; a policy that it holds names what exists.
SetupFunctions ==
    /\ DOMAIN policy = Setups
    /\ s_phase \in [Setups -> {"away", "audit", "ask", "fix", "write", "final", "turn", "end", "failed", "declined"}]
    /\ round \in [Setups -> 0..Setup!MaxRounds]
    /\ todo \in [Setups -> SUBSET Setup!Rows] /\ open \in [Setups -> SUBSET Setup!Rows]
    /\ \A p \in Setups : s_phase[p] \in {"ask", "fix", "write"} => round[p] < Setup!MaxRounds

ProjectTypes ==
    /\ lagging \subseteq enabled /\ enabled \subseteq Setup!Services
    /\ fresh \subseteq made /\ made \subseteq Setup!Things

NamedExist ==
    /\ \A g \in granted \cap Setup!Grants : Setup!Named[g] \subseteq made
    /\ \A p \in Setups : \A g \in policy[p] \cap Setup!Grants : Setup!Named[g] \subseteq made

SetupTypes == SetupFunctions /\ ProjectTypes /\ NamedExist

LEMMA FunctionsStep == SetupFunctions /\ [Setup!Next]_(Setup!vars) => SetupFunctions'
<1> SUFFICES ASSUME SetupFunctions, [Setup!Next]_(Setup!vars) PROVE SetupFunctions'
  OBVIOUS
<1>1. Setup!Fixes \subseteq Setup!Rows /\ Setup!Open \subseteq Setup!Rows /\ Setup!MaxRounds = 5
  BY DEF Setup!Fixes, Setup!Open, Setup!MaxRounds
<1> USE DEF SetupFunctions, Setup!project, Setup!tool, Setup!Goto
<1>2. CASE Setup!World
  BY <1>2 DEF Setup!World, Setup!Settle, Setup!OtherGrant, Setup!OtherRule, Setup!OtherPermission,
     Setup!DeployerReads, Setup!DeployerWrites
<1>3. ASSUME NEW p \in Setups, Setup!FirstAudit(p) PROVE SetupFunctions'
  <2>1. /\ s_phase[p] = "audit" /\ round' = [round EXCEPT ![p] = 0] /\ UNCHANGED policy
        /\ \E to \in {"failed", "final", "ask"} : s_phase' = [s_phase EXCEPT ![p] = to]
    BY <1>3 DEF Setup!FirstAudit
  <2>2. /\ UNCHANGED todo \/ todo' = [todo EXCEPT ![p] = Setup!Fixes]
        /\ UNCHANGED open \/ open' = [open EXCEPT ![p] = Setup!Open]
    BY <1>3 DEF Setup!FirstAudit, Setup!Report
  <2>3. todo' \in [Setups -> SUBSET Setup!Rows] /\ open' \in [Setups -> SUBSET Setup!Rows]
    BY <1>1, <2>2
  <2>4. round' \in [Setups -> 0..Setup!MaxRounds] /\ round'[p] = 0 /\ 0 < Setup!MaxRounds
    BY <1>1, <2>1
  <2>5. \A q \in Setups : q # p => round'[q] = round[q] /\ s_phase'[q] = s_phase[q]
    BY <2>1
  <2>6. s_phase' \in [Setups -> {"away", "audit", "ask", "fix", "write", "final", "turn", "end", "failed", "declined"}]
    BY <2>1
  <2>7. QED
    BY <2>1, <2>3, <2>4, <2>5, <2>6
<1>4. ASSUME NEW p \in Setups, Setup!NextAudit(p) PROVE SetupFunctions'
  <2>1. /\ s_phase[p] = "fix" /\ UNCHANGED policy
        /\ \/ UNCHANGED round /\ s_phase' = [s_phase EXCEPT ![p] = "failed"]
           \/ /\ round' = [round EXCEPT ![p] = @ + 1]
              /\ \/ s_phase' = [s_phase EXCEPT ![p] = "final"]
                 \/ round'[p] # Setup!MaxRounds /\ s_phase' = [s_phase EXCEPT ![p] = "fix"]
    BY <1>4 DEF Setup!NextAudit
  <2>2. /\ UNCHANGED todo \/ todo' = [todo EXCEPT ![p] = Setup!Fixes]
        /\ UNCHANGED open \/ open' = [open EXCEPT ![p] = Setup!Open]
    BY <1>4 DEF Setup!NextAudit, Setup!Report
  <2>3. todo' \in [Setups -> SUBSET Setup!Rows] /\ open' \in [Setups -> SUBSET Setup!Rows]
    BY <1>1, <2>2
  <2>4. round[p] \in 0..4
    BY <1>1, <2>1
  <2>5. QED
    BY <1>1, <2>1, <2>3, <2>4
<1>5. ASSUME NEW p \in Setups,
             Setup!Enable(p) \/ Setup!Create(p) \/ Setup!Provision(p) \/ Setup!Extend(p) \/ Setup!ReadPolicy(p)
                \/ Setup!WritePolicy(p)
      PROVE  SetupFunctions'
  <2>1. /\ s_phase[p] \in {"fix", "write"} /\ UNCHANGED <<round, open>> /\ DOMAIN policy' = Setups
        /\ UNCHANGED s_phase \/ \E to \in {"fix", "write", "failed"} : s_phase' = [s_phase EXCEPT ![p] = to]
    BY <1>5 DEF Setup!Enable, Setup!Create, Setup!Provision, Setup!Extend, Setup!ReadPolicy, Setup!WritePolicy,
       Setup!Fails, Setup!Fixing
  <2>2. UNCHANGED todo \/ todo' = [todo EXCEPT ![p] = @ \ {Setup!Row(p)}]
    BY <1>5 DEF Setup!Enable, Setup!Create, Setup!Provision, Setup!Extend, Setup!ReadPolicy, Setup!WritePolicy,
       Setup!Fails, Setup!Applied
  <2>3. todo' \in [Setups -> SUBSET Setup!Rows]
    BY <2>2
  <2>4. QED
    BY <2>1, <2>3
<1>6. ASSUME NEW p \in Setups,
             Setup!Deploy(p) \/ Setup!TearDown(p) \/ Setup!Agree(p) \/ Setup!Decline(p) \/ Setup!Rerun(p)
      PROVE  SetupFunctions'
  <2>1. /\ UNCHANGED <<round, todo, open, policy>>
        /\ \/ \E to \in {"end", "turn", "declined", "audit"} : s_phase' = [s_phase EXCEPT ![p] = to]
           \/ s_phase[p] = "ask" /\ s_phase' = [s_phase EXCEPT ![p] = "fix"]
    BY <1>6 DEF Setup!Deploy, Setup!TearDown, Setup!Agree, Setup!Decline, Setup!Rerun
  <2>2. QED
    BY <2>1
<1>7. CASE UNCHANGED Setup!vars
  BY <1>7 DEF Setup!vars
<1>8. QED
  BY <1>2, <1>3, <1>4, <1>5, <1>6, <1>7 DEF Setup!Next, Setup!Tool

LEMMA ProjectStep == SetupFunctions /\ ProjectTypes /\ [Setup!Next]_(Setup!vars) => ProjectTypes'
<1> SUFFICES ASSUME SetupFunctions, ProjectTypes, [Setup!Next]_(Setup!vars) PROVE ProjectTypes'
  OBVIOUS
<1> USE DEF ProjectTypes, Setup!project, Setup!tool
<1>1. CASE Setup!World
  BY <1>1 DEF Setup!World, Setup!Settle, Setup!OtherGrant, Setup!OtherRule, Setup!OtherPermission,
     Setup!DeployerReads, Setup!DeployerWrites
<1>2. ASSUME NEW p \in Setups, Setup!Tool(p) PROVE ProjectTypes'
  <2>1. CASE Setup!FirstAudit(p) \/ Setup!NextAudit(p) \/ Setup!Deploy(p) \/ Setup!TearDown(p)
    BY <2>1 DEF Setup!FirstAudit, Setup!NextAudit, Setup!Deploy, Setup!TearDown
  <2>2. CASE Setup!Enable(p) \/ Setup!Extend(p) \/ Setup!ReadPolicy(p) \/ Setup!WritePolicy(p)
    BY <2>2 DEF Setup!Enable, Setup!Extend, Setup!ReadPolicy, Setup!WritePolicy
  <2>3. CASE Setup!Create(p)
    <3>1. /\ UNCHANGED <<enabled, lagging>> /\ Setup!Row(p) \in Setup!Things
          /\ \/ UNCHANGED <<made, fresh>>
             \/ /\ made' = made \cup {Setup!Row(p)}
                /\ fresh' = fresh \cup ({Setup!Row(p)} \cap Setup!Accounts)
      BY <2>3 DEF Setup!Create, Setup!Fails
    <3>2. QED
      BY <3>1
  <2>4. CASE Setup!Provision(p)
    BY <2>4 DEF Setup!Provision, Setup!Things
  <2>5. QED
    BY <1>2, <2>1, <2>2, <2>3, <2>4 DEF Setup!Tool
<1>3. ASSUME NEW p \in Setups, Setup!Agree(p) \/ Setup!Decline(p) \/ Setup!Rerun(p) PROVE ProjectTypes'
  BY <1>3 DEF Setup!Agree, Setup!Decline, Setup!Rerun
<1>4. CASE UNCHANGED Setup!vars
  BY <1>4 DEF Setup!vars
<1>5. QED
  BY <1>1, <1>2, <1>3, <1>4 DEF Setup!Next

LEMMA NamedStep == SetupFunctions /\ NamedExist /\ [Setup!Next]_(Setup!vars) => NamedExist'
<1> SUFFICES ASSUME SetupFunctions, NamedExist, [Setup!Next]_(Setup!vars) PROVE NamedExist'
  OBVIOUS
<1>1. made \subseteq made'
  BY SetupGrows DEF ProjectGrows
<1>2. CASE UNCHANGED <<granted, policy>>
  BY <1>1, <1>2 DEF NamedExist
<1>3. CASE Setup!OtherGrant
  BY <1>1, <1>3 DEF NamedExist, Setup!OtherGrant, Setup!tool, Setup!Grants
<1>4. ASSUME NEW p \in Setups, Setup!ReadPolicy(p) PROVE NamedExist'
  <2>1. /\ UNCHANGED granted
        /\ UNCHANGED policy \/ policy' = [policy EXCEPT ![p] = Setup!PolicyOf(Setup!On[Setup!Row(p)])]
    BY <1>4 DEF Setup!ReadPolicy, Setup!project
  <2>2. \A q \in Setups : policy'[q] = policy[q] \/ policy'[q] \subseteq granted
    BY <2>1 DEF SetupFunctions, Setup!PolicyOf
  <2>3. QED
    BY <1>1, <2>1, <2>2 DEF NamedExist
<1>5. ASSUME NEW p \in Setups, Setup!WritePolicy(p) PROVE NamedExist'
  <2>1. /\ UNCHANGED policy
        /\ \/ UNCHANGED granted
           \/ granted' \subseteq granted \cup policy[p] \cup {Setup!Row(p)} /\ Setup!Named[Setup!Row(p)] \subseteq made
    BY <1>5 DEF Setup!WritePolicy, Setup!SetPolicy
  <2>2. QED
    BY <1>1, <2>1 DEF NamedExist
<1>6. QED
  BY <1>2, <1>3, <1>4, <1>5
     DEF Setup!Next, Setup!vars, Setup!project, Setup!tool, Setup!World, Setup!Tool, Setup!Settle, Setup!OtherRule,
         Setup!OtherPermission, Setup!DeployerReads, Setup!DeployerWrites, Setup!FirstAudit, Setup!NextAudit,
         Setup!Enable, Setup!Create, Setup!Fails, Setup!Provision, Setup!Extend, Setup!Deploy, Setup!TearDown,
         Setup!Agree, Setup!Decline, Setup!Rerun

LEMMA SetupTypesInit == Setup!Init => SetupTypes
<1> SUFFICES ASSUME Setup!Init PROVE SetupTypes
  OBVIOUS
<1>1. PICK s \in {t \in Starts : Setup!Possible(t)} : enabled = s.enabled /\ made = s.made /\ granted = s.granted
  BY DEF Setup!Init
<1>2. s.enabled \subseteq Setup!Services /\ s.made \subseteq Setup!Things
  BY EngineAssumption DEF Setup!SetupAssumption
<1>3. SetupFunctions
  BY DEF Setup!Init, SetupFunctions, Setup!MaxRounds
<1>4. ProjectTypes
  BY <1>1, <1>2 DEF Setup!Init, ProjectTypes
<1>5. NamedExist
  BY <1>1 DEF Setup!Init, Setup!Possible, NamedExist
<1>6. QED
  BY <1>3, <1>4, <1>5 DEF SetupTypes

LEMMA SetupTyped == Spec => []Setup!TypeOK
<1>1. Init => SetupTypes
  BY SetupTypesInit DEF Init
<1>2. SetupTypes /\ [Next]_vars => SetupTypes'
  BY SetupMoves, FunctionsStep, ProjectStep, NamedStep DEF SetupTypes
<1>3. SetupTypes => Setup!TypeOK
  BY DEF SetupTypes, SetupFunctions, ProjectTypes, NamedExist, Setup!TypeOK
<1>4. QED
  BY <1>1, <1>2, <1>3, PTL DEF Spec

\* The teardown: its invariant types every variable.
LEMMA TeardownTyped == TeardownInv => Teardown!TypeOK
  BY NoneIsNoBox DEF TeardownInv, TeardownTypes, TemplatesStand, OnePlace, Teardown!TypeOK, Teardown!Versions

\* The tokens, of a turn that is followed all the time or of one that is left.
Expiries == IF part = "left" THEN LeftP!Expiries ELSE TokensP!Expiries

LEMMA TokensTyped == Spec => [](IF part = "left" THEN Left!TypeOK ELSE Tokens!TypeOK)
<1>1. TokensP!RunTokensAssumption /\ LeftP!RunTokensAssumption
  BY EngineAssumption DEF Tokens!RunTokensAssumption, Left!RunTokensAssumption, TokensP!RunTokensAssumption,
     LeftP!RunTokensAssumption
<1>2. Init => Expiries
  BY <1>1, SameTokens, TokensP!TypesInit, LeftP!TypesInit DEF Init, Expiries
<1>3. Expiries /\ [Next]_vars => Expiries'
  <2>1. CASE part = "left"
    BY <1>1, <2>1, TokensMove, LeftP!TypesStep DEF Expiries
  <2>2. CASE part # "left"
    BY <1>1, <2>2, TokensMove, TokensP!TypesStep DEF Expiries
  <2>3. QED
    BY <2>1, <2>2
<1>4. Expiries => IF part = "left" THEN Left!TypeOK ELSE Tokens!TypeOK
  BY DEF Expiries, LeftP!Expiries, TokensP!Expiries, LeftP!TypeOK, TokensP!TypeOK, Left!TypeOK, Tokens!TypeOK
<1>5. QED
  BY <1>2, <1>3, <1>4, PTL DEF Spec

\* Every variable of the engine's components keeps its type, for any number of
\* clients, sandboxes, versions, deployers, people who set a project up, turns
\* and failures: what is listed, claimed, polled or retired was made, what a
\* record, a grant or a policy names exists, and no time runs away.
THEOREM TypesKept == Spec => []TypesHold
<1>1. PoolP!RosterInv => Pool!TypeOK
  BY PoolP!RosterTyped DEF PoolP!TypeOK, Pool!TypeOK, PoolP!States, Pool!States
<1>2. /\ Pool!TypeOK /\ Deploy!TypeOK /\ Teardown!TypeOK /\ Setup!TypeOK /\ Call!TypeOK
      /\ (IF part = "left" THEN Left!TypeOK ELSE Tokens!TypeOK)
      => TypesHold
  BY DEF TypesHold
<1>3. QED
  BY <1>1, <1>2, PoolInvariant, DeployIsTyped, TeardownInvariant, TeardownTyped, SetupTyped, ExecTyped, TokensTyped, PTL

=============================================================================
