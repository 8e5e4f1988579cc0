---------------------------- MODULE SessionProofs ----------------------------
(***************************************************************************)
(* Proofs about the session's components as MCSession puts them together,  *)
(* for every value of the constants. A part that rests keeps its           *)
(* invariant, so each component's is proved from its own Next alone.       *)
(***************************************************************************)
EXTENDS MCSession, FiniteSetTheorems, TLAPS

-----------------------------------------------------------------------------
(* The adoption of a turn: one turn at a time.                             *)

\* One process has an event loop, the mirror shows a start at once, a loop
\* does not shut down under an adopter, and no process both gives a turn up
\* and dies before it has deleted the turn's sandbox.
OneLoop ==
    /\ \A p, q \in Looped : p = q
    /\ AdoptFaults \cap {"lag", "shutdown"} = {}
    /\ ~({"crash", "giveup"} \subseteq AdoptFaults)

\* What is proved along: the types of what decides about a turn.
AdoptTypes ==
    /\ last \in 0..AdoptTurns
    /\ a_worker \in [Adopt!Turns -> {"none", "run", "done"}]
    /\ shown \in [Adopt!Turns -> {"none", "start", "over"}]
    /\ run \in [AdoptProcs -> 0..AdoptTurns]
    /\ foreign \in [AdoptProcs -> BOOLEAN]
    /\ jobs \in [AdoptProcs -> SUBSET Adopt!Turns]

\* The mirror shows what the workers do.
MirrorTells ==
    \A t \in Adopt!Turns :
        /\ t > last <=> a_worker[t] = "none"
        /\ t > last <=> shown[t] = "none"
        /\ shown[t] = "start" <=> a_worker[t] = "run"

\* A run follows the last turn.
FollowsTheLast == \A p \in Looped : run[p] \in {0, last}

\* The turn is over, or its sandbox is gone, or goes for certain.
Dead(t) ==
    \/ a_worker[t] # "run" \/ t \in gone
    \/ "crash" \notin AdoptFaults /\ \E p \in AdoptProcs : t \in jobs[p]

\* So are all turns before the last, while none was started blindly, and the
\* last one too once the session has looked for it and follows none.
OthersAreDead ==
    /\ ~blind => \A t \in Adopt!Turns : t < last => Dead(t)
    /\ \A p \in Looped : run[p] = 0 /\ ~foreign[p] /\ p \notin unlooked /\ last # 0 => Dead(last)

AdoptInv == Adopt!LooksTyped /\ AdoptTypes /\ MirrorTells /\ FollowsTheLast /\ OthersAreDead

LEMMA AdoptConstants ==
    /\ AdoptTurns \in Nat /\ Looped \subseteq AdoptProcs
    /\ Adopt!Turns = 1..AdoptTurns /\ Adopt!NoTurn = 0
BY SessionAssumption DEF Adopt!AdoptionAssumption, Adopt!Turns, Adopt!NoTurn

\* What is recorded of the looks has its type.
LEMMA LooksTypedInit == Adopt!Init => Adopt!LooksTyped
<1> SUFFICES ASSUME Adopt!Init PROVE Adopt!LooksTyped
  OBVIOUS
<1>1. foreign = [p \in AdoptProcs |-> TRUE] /\ unlooked = {} /\ blind = FALSE
  BY DEF Adopt!Init
<1>2. QED
  BY <1>1 DEF Adopt!LooksTyped

LEMMA LooksTypedStep == Adopt!LooksTyped /\ [Adopt!Next]_(Adopt!vars) => Adopt!LooksTyped'
<1> SUFFICES ASSUME Adopt!LooksTyped, [Adopt!Next]_(Adopt!vars) PROVE Adopt!LooksTyped'
  OBVIOUS
<1> USE DEF Adopt!LooksTyped, Adopt!process, Adopt!looks
<1>1. ASSUME NEW p \in AdoptProcs, Adopt!Start(p) PROVE Adopt!LooksTyped'
  BY <1>1 DEF Adopt!Start
<1>2. ASSUME NEW p \in AdoptProcs, Adopt!Attach(p) \/ Adopt!PollResult(p) \/ Adopt!LookFails(p)
      PROVE  Adopt!LooksTyped'
  <2>1. foreign' = [foreign EXCEPT ![p] = FALSE] /\ unlooked' \subseteq unlooked \cup {p} /\ UNCHANGED blind
    BY <1>2 DEF Adopt!Attach, Adopt!PollResult, Adopt!LookFails
  <2>2. QED
    BY <2>1
<1>3. ASSUME NEW p \in AdoptProcs, Adopt!Detach(p) \/ Adopt!Crash(p) PROVE Adopt!LooksTyped'
  BY <1>3 DEF Adopt!Detach, Adopt!Crash
<1>4. ASSUME NEW p \in AdoptProcs, Adopt!Ending(p) \/ Adopt!Token(p) PROVE Adopt!LooksTyped'
  BY <1>4 DEF Adopt!Ending, Adopt!Complete, Adopt!GiveUp, Adopt!LoopStops, Adopt!DeleteSandbox,
              Adopt!Token, Adopt!Mint, Adopt!WriteToken
<1>5. ASSUME NEW t \in Adopt!Turns, Adopt!Flush(t) \/ Adopt!WorkerEnds(t) PROVE Adopt!LooksTyped'
  BY <1>5 DEF Adopt!Flush, Adopt!WorkerEnds
<1>6. CASE UNCHANGED Adopt!vars
  BY <1>6 DEF Adopt!vars
<1>7. QED
  BY <1>1, <1>2, <1>3, <1>4, <1>5, <1>6 DEF Adopt!Next, Adopt!Using

LEMMA AdoptInvInit == Adopt!Init => AdoptInv
BY AdoptConstants, LooksTypedInit
   DEF Adopt!Init, AdoptInv, AdoptTypes, MirrorTells, FollowsTheLast, OthersAreDead

\* The mirror tells which turn runs.
LEMMA RunningIsFound ==
    ASSUME AdoptTypes, MirrorTells
    PROVE  \/ Adopt!FindRunning = last /\ last # 0
           \/ Adopt!FindRunning = 0 /\ (last # 0 => a_worker[last] # "run")
<1> DEFINE started == {t \in Adopt!Turns : shown[t] # "none"}
<1>1. started = 1..last
  BY AdoptConstants DEF AdoptTypes, MirrorTells
<1>2. CASE last = 0
  BY <1>1, <1>2, AdoptConstants DEF Adopt!FindRunning
<1>3. CASE last # 0
  <2>1. last \in started /\ \A t \in started : last >= t
    BY <1>1, <1>3 DEF AdoptTypes
  <2>2. Adopt!Max(started) \in started /\ \A t \in started : Adopt!Max(started) >= t
    BY <2>1 DEF Adopt!Max
  <2>3. Adopt!Max(started) = last
    BY <1>1, <2>1, <2>2 DEF AdoptTypes
  <2>4. shown[last] = "start" <=> a_worker[last] = "run"
    BY <1>1, <2>1 DEF MirrorTells
  <2>5. QED
    BY <1>3, <2>1, <2>3, <2>4, AdoptConstants DEF Adopt!FindRunning
<1>4. QED
  BY <1>2, <1>3

LEMMA AdoptStep == OneLoop /\ AdoptInv /\ [Adopt!Next]_(Adopt!vars) => AdoptInv'
<1> SUFFICES ASSUME OneLoop, AdoptInv, [Adopt!Next]_(Adopt!vars) PROVE AdoptInv'
  OBVIOUS
<1> USE AdoptConstants DEF AdoptInv, Adopt!turnState, Adopt!mirror, Adopt!process, Adopt!looks
<1>0. Adopt!LooksTyped'
  BY LooksTypedStep
<1> USE <1>0
<1>1. ASSUME NEW p \in AdoptProcs, Adopt!Start(p) PROVE AdoptInv'
  <2>1. /\ p \in Looped /\ run[p] = 0 /\ ~foreign[p] /\ last' = last + 1 /\ last' \in Adopt!Turns
        /\ a_worker' = [a_worker EXCEPT ![last'] = "run"]
        /\ shown' = [shown EXCEPT ![last'] = "start"]
        /\ run' = [run EXCEPT ![p] = last'] /\ UNCHANGED <<gone, foreign, jobs, unlooked>>
    BY <1>1 DEF Adopt!Start, OneLoop, AdoptTypes
  <2>0. ~blind' => ~blind /\ p \notin unlooked
    BY <1>1, Zenon DEF Adopt!Start
  <2>2. AdoptTypes'
    BY <2>1 DEF AdoptTypes
  <2>3. MirrorTells'
    BY <2>1 DEF AdoptTypes, MirrorTells
  <2>4. FollowsTheLast'
    BY <2>1 DEF AdoptTypes, FollowsTheLast, OneLoop
  <2>5. ~blind' => \A t \in Adopt!Turns : t < last' => Dead(t)
    BY <2>0, <2>1 DEF AdoptTypes, OthersAreDead
  <2>6. ~blind' => \A t \in Adopt!Turns : t < last' => (Dead(t))'
    BY <2>1, <2>5 DEF AdoptTypes, Dead
  <2>7. OthersAreDead'
    BY <2>1, <2>6 DEF AdoptTypes, OthersAreDead, OneLoop
  <2>8. QED
    BY <2>2, <2>3, <2>4, <2>7
<1>2. ASSUME NEW p \in AdoptProcs, Adopt!Attach(p) PROVE AdoptInv'
  <2>1. Adopt!FindRunning \in 0..AdoptTurns /\ Adopt!FindRunning \in {0, last}
    BY RunningIsFound DEF AdoptTypes
  <2>2. AdoptTypes'
    BY <1>2, <2>1 DEF Adopt!Attach, Adopt!Adopt, AdoptTypes
  <2>3. MirrorTells' /\ FollowsTheLast'
    BY <1>2, <2>1 DEF Adopt!Attach, Adopt!Adopt, AdoptTypes, MirrorTells, FollowsTheLast
  <2>4. OthersAreDead'
    BY <1>2, RunningIsFound DEF Adopt!Attach, Adopt!Adopt, AdoptTypes, OthersAreDead, Dead, OneLoop
  <2>5. QED
    BY <2>2, <2>3, <2>4
<1>3. ASSUME NEW p \in AdoptProcs, Adopt!PollResult(p) PROVE AdoptInv'
  <2>1. Adopt!FindRunning \in 0..AdoptTurns
    BY RunningIsFound DEF AdoptTypes
  <2>2. AdoptTypes'
    <3>1. CASE latest # 0
      <4>1. /\ run' = [run EXCEPT ![p] = 0] /\ foreign' = [foreign EXCEPT ![p] = FALSE]
            /\ UNCHANGED <<last, a_worker, shown, jobs>>
        BY <1>3, <3>1 DEF Adopt!PollResult
      <4>2. QED
        BY <4>1 DEF AdoptTypes
    <3>2. CASE latest = 0 /\ run[p] = 0 /\ foreign[p]
      BY <1>3, <2>1, <3>2 DEF Adopt!PollResult, AdoptTypes
    <3>3. CASE latest = 0 /\ ~(run[p] = 0 /\ foreign[p])
      BY <1>3, <3>3 DEF Adopt!PollResult, AdoptTypes
    <3>4. QED
      BY <3>1, <3>2, <3>3
  <2>3. MirrorTells' /\ FollowsTheLast'
    BY <1>3 DEF Adopt!PollResult, AdoptTypes, MirrorTells, FollowsTheLast
  <2>4. OthersAreDead'
    BY <1>3 DEF Adopt!PollResult, AdoptTypes, OthersAreDead, Dead
  <2>5. QED
    BY <2>2, <2>3, <2>4
<1>4. ASSUME NEW p \in AdoptProcs, Adopt!Detach(p) PROVE AdoptInv'
  BY <1>4 DEF Adopt!Detach, AdoptTypes, MirrorTells, FollowsTheLast, OthersAreDead, Dead
<1>5. ASSUME NEW p \in AdoptProcs, Adopt!Complete(p) PROVE AdoptInv'
  <2>1. AdoptTypes' /\ MirrorTells' /\ FollowsTheLast'
    BY <1>5 DEF Adopt!Complete, Adopt!EndRun, AdoptTypes, MirrorTells, FollowsTheLast
  <2>2. OthersAreDead'
    BY <1>5 DEF Adopt!Complete, Adopt!EndRun, AdoptTypes, FollowsTheLast, OthersAreDead, Dead, OneLoop
  <2>3. QED
    BY <2>1, <2>2
<1>6. ASSUME NEW p \in AdoptProcs, Adopt!GiveUp(p) PROVE AdoptInv'
  <2>1. AdoptTypes' /\ MirrorTells' /\ FollowsTheLast'
    BY <1>6 DEF Adopt!GiveUp, Adopt!EndRun, AdoptTypes, MirrorTells, FollowsTheLast
  <2>2. OthersAreDead'
    BY <1>6 DEF Adopt!GiveUp, Adopt!EndRun, AdoptTypes, FollowsTheLast, OthersAreDead, Dead, OneLoop
  <2>3. QED
    BY <2>1, <2>2
<1>7. ASSUME NEW p \in AdoptProcs, Adopt!LoopStops(p) PROVE AdoptInv'
  BY <1>7 DEF Adopt!LoopStops, OneLoop
<1>8. ASSUME NEW p \in AdoptProcs, Adopt!DeleteSandbox(p) PROVE AdoptInv'
  BY <1>8 DEF Adopt!DeleteSandbox, AdoptTypes, MirrorTells, FollowsTheLast, OthersAreDead, Dead
<1>9. ASSUME NEW p \in AdoptProcs, Adopt!Mint(p) \/ Adopt!WriteToken(p) PROVE AdoptInv'
  BY <1>9 DEF Adopt!Mint, Adopt!WriteToken, AdoptTypes, MirrorTells, FollowsTheLast, OthersAreDead, Dead
<1>10. ASSUME NEW p \in AdoptProcs, Adopt!Crash(p) PROVE AdoptInv'
  BY <1>10 DEF Adopt!Crash, AdoptTypes, MirrorTells, FollowsTheLast, OthersAreDead, Dead
<1>11. ASSUME NEW t \in Adopt!Turns, Adopt!Flush(t) PROVE AdoptInv'
  BY <1>11 DEF Adopt!Flush, AdoptTypes, MirrorTells
<1>12. ASSUME NEW t \in Adopt!Turns, Adopt!WorkerEnds(t) PROVE AdoptInv'
  BY <1>12 DEF Adopt!WorkerEnds, AdoptTypes, MirrorTells, FollowsTheLast, OthersAreDead, Dead
<1>13. ASSUME NEW p \in AdoptProcs, Adopt!LookFails(p) PROVE AdoptInv'
  BY <1>13 DEF Adopt!LookFails, AdoptTypes, MirrorTells, FollowsTheLast, OthersAreDead, Dead
<1>14. CASE UNCHANGED Adopt!vars
  BY <1>14 DEF Adopt!vars, AdoptTypes, MirrorTells, FollowsTheLast, OthersAreDead, Dead
<1>15. QED
  BY <1>1, <1>2, <1>3, <1>4, <1>5, <1>6, <1>7, <1>8, <1>9, <1>10, <1>11, <1>12, <1>13, <1>14
     DEF Adopt!Next, Adopt!Using, Adopt!Ending, Adopt!Token

\* A step of the whole is a step of the adoption, or leaves it alone.
LEMMA AdoptMoves == [Next]_vars => [Adopt!Next]_(Adopt!vars)
<1>1. Next => Adopt!Next \/ UNCHANGED adoption
  BY DEF Next
<1>2. UNCHANGED vars => UNCHANGED adoption
  BY DEF vars
<1>3. UNCHANGED adoption => UNCHANGED Adopt!vars
  BY DEF adoption, Adopt!vars, Adopt!turnState, Adopt!mirror, Adopt!process, Adopt!looks
<1>4. QED
  BY <1>1, <1>2, <1>3

\* However often the process with the loop detaches, or dies, and adopts a
\* turn again, and whoever polls meanwhile, the session runs one turn at a
\* time, until a turn is started after a look that failed (backend.py _attach,
\* _find_running_turn).
THEOREM OneTurnAtATime == OneLoop => (Spec => []OneTurn)
<1> SUFFICES ASSUME OneLoop PROVE Spec => []OneTurn
  OBVIOUS
<1>1. Init => AdoptInv
  BY AdoptInvInit DEF Init
<1>2. AdoptInv /\ [Next]_vars => AdoptInv'
  BY AdoptStep, AdoptMoves
<1>3. AdoptInv => OneTurn
  <2> SUFFICES ASSUME AdoptInv, ~blind PROVE Adopt!OneTurn
    BY DEF OneTurn, Adopt!OneTurn
  <2>1. Adopt!Running \subseteq {last}
    BY AdoptConstants DEF Adopt!Running, AdoptInv, AdoptTypes, MirrorTells, OthersAreDead, Dead
  <2>2. Adopt!Running = {} \/ Adopt!Running = {last}
    BY <2>1
  <2>3. Cardinality({}) = 0 /\ Cardinality({last}) = 1
    BY FS_EmptySet, FS_Singleton
  <2>4. Adopt!Cardinality({}) = Cardinality({}) /\ Adopt!Cardinality({last}) = Cardinality({last})
    BY DEF Adopt!Cardinality, Cardinality
  <2>5. QED
    BY <2>2, <2>3, <2>4 DEF Adopt!OneTurn
<1>4. QED
  BY <1>1, <1>2, <1>3, PTL DEF Spec

-----------------------------------------------------------------------------
(* Checkpoints: what is saved is resumed.                                  *)

\* What is proved along: the types of what the properties compare.
SavingTypes ==
    /\ k_turn \in Nat /\ saved \in Nat /\ saved <= k_turn
    /\ phase \in {"idle", "prepare", "stage", "start", "work", "meta", "rollout", "scrub", "snapshot", "report"}
    /\ dir \in [edits : SUBSET Nat, repo : BOOLEAN, token : BOOLEAN]
    /\ snap \in [state : {"none", "broken", "good"}, edits : SUBSET Nat, repo : BOOLEAN, token : BOOLEAN]
    /\ rollout \in [of : Nat, memory : SUBSET Nat] /\ {memory, transcript, lost} \subseteq SUBSET Nat
    /\ thread \in Nat /\ meta \in Nat
    /\ kept \in [conversation : BOOLEAN, workspace : BOOLEAN]
    /\ setup \in Saving!Setups

\* After its work a turn has what it will save; a thread has a name.
Worked ==
    /\ phase # "idle" => k_turn > 0
    /\ phase \in {"meta", "rollout", "scrub", "snapshot", "report"} =>
         /\ k_turn \in memory /\ k_turn \in dir.edits
         /\ setup.harness = "claude" => k_turn \in transcript \cup lost
    /\ phase \in {"meta", "rollout"} => setup.harness = "codex"
    /\ phase \in {"work", "meta", "rollout", "scrub", "snapshot", "report"} /\ setup.harness = "codex" => thread # 0
    /\ phase = "snapshot" => setup.place # "owned" /\ ~dir.token
    /\ setup.place = "owned" => setup.repos = "none"

\* What has been saved of the conversation and of the workspace so far.
SavedSoFar ==
    /\ phase = "rollout" => meta = thread
    /\ phase \in {"scrub", "snapshot", "report"} /\ kept.conversation /\ setup.harness = "codex" =>
         meta = thread /\ rollout = [of |-> thread, memory |-> memory]
    /\ phase = "report" /\ kept.workspace /\ setup.place # "owned" => snap.state = "good" /\ k_turn \in snap.edits

\* A turn that reported its checkpoint saved can be resumed: all it needs is
\* in the bucket, or in the directory of the caller.
Resumable(t) ==
    /\ IF setup.place = "owned" THEN t \in dir.edits ELSE snap.state = "good" /\ t \in snap.edits
    /\ setup.harness = "claude" => t \in transcript \cup lost
    /\ setup.harness = "codex" => meta # 0 /\ rollout.of = meta /\ t \in rollout.memory

LastIsResumable ==
    /\ saved = k_turn /\ k_turn # 0 => phase = "idle" /\ end = "result" /\ Resumable(saved)
    /\ saved = k_turn - 1 /\ k_turn > 1 /\ phase \in {"prepare", "stage", "start"} => Resumable(saved)

\* A turn that resumed it has its files, or a restore that failed.
HasItsFiles ==
    resumed /\ k_turn > 1 /\ saved = k_turn - 1 /\ phase \in {"stage", "start", "work"} =>
        \/ \E e \in k_ready : e.error
        \/ saved \in dir.edits /\ (phase = "stage" => setup.place = "owned")

\* A machine of its own has an empty directory until something is put there.
FreshMachine == phase \in {"prepare", "stage"} /\ setup.place = "sandbox" => dir = Saving!Empty

SavingInv ==
    /\ SavingTypes /\ Worked /\ SavedSoFar /\ LastIsResumable /\ HasItsFiles /\ FreshMachine
    /\ Saving!SavedIsWhole /\ Saving!SavedTurnIsResumed /\ Saving!NoTokenInSnapshot

LEMMA SavingStep == SavingInv /\ [Saving!Next]_(Saving!vars) => SavingInv'
<1> SUFFICES ASSUME SavingInv, [Saving!Next]_(Saving!vars) PROVE SavingInv'
  OBVIOUS
<1> USE DEF SavingInv, Saving!blobs, Saving!agent
<1>1. CASE Saving!Begin
  <2>1. SavingTypes'
    BY <1>1 DEF Saving!Begin, Saving!Empty, SavingTypes
  <2>2. Worked'
    BY <1>1 DEF Saving!Begin, Saving!Empty, SavingTypes, Worked
  <2>3. SavedSoFar'
    BY <1>1 DEF Saving!Begin, Saving!Empty, SavingTypes, Worked, SavedSoFar
  <2>4. LastIsResumable'
    BY <1>1 DEF Saving!Begin, Saving!Empty, SavingTypes, Worked, SavedSoFar, LastIsResumable, Resumable
  <2>5. HasItsFiles'
    BY <1>1 DEF Saving!Begin, Saving!Empty, SavingTypes, Worked, LastIsResumable, Resumable, HasItsFiles
  <2>6. FreshMachine'
    BY <1>1 DEF Saving!Begin, Saving!Empty, SavingTypes, FreshMachine
  <2>7. Saving!SavedIsWhole'
    BY <1>1 DEF Saving!Begin, Saving!Empty, SavingTypes, Worked, SavedSoFar, LastIsResumable, Saving!SavedIsWhole
  <2>8. Saving!SavedTurnIsResumed'
    BY <1>1 DEF Saving!Begin, Saving!Empty, SavingTypes, Worked, LastIsResumable, Resumable, HasItsFiles, Saving!SavedTurnIsResumed
  <2>9. Saving!NoTokenInSnapshot'
    BY <1>1 DEF Saving!Begin, Saving!Empty, SavingTypes, Worked, Saving!NoTokenInSnapshot
  <2>10. QED
    BY <2>1, <2>2, <2>3, <2>4, <2>5, <2>6, <2>7, <2>8, <2>9
<1>2. CASE Saving!Moves
  <2>1. SavingTypes'
    BY <1>2 DEF Saving!Moves, Saving!Empty, SavingTypes
  <2>2. Worked'
    BY <1>2 DEF Saving!Moves, Saving!Empty, SavingTypes, Worked
  <2>3. SavedSoFar'
    BY <1>2 DEF Saving!Moves, Saving!Empty, SavingTypes, Worked, SavedSoFar
  <2>4. LastIsResumable'
    BY <1>2 DEF Saving!Moves, Saving!Empty, SavingTypes, Worked, SavedSoFar, LastIsResumable, Resumable
  <2>5. HasItsFiles'
    BY <1>2 DEF Saving!Moves, Saving!Empty, SavingTypes, Worked, LastIsResumable, Resumable, HasItsFiles
  <2>6. FreshMachine'
    BY <1>2 DEF Saving!Moves, Saving!Empty, SavingTypes, FreshMachine
  <2>7. Saving!SavedIsWhole'
    BY <1>2 DEF Saving!Moves, Saving!Empty, SavingTypes, Worked, SavedSoFar, LastIsResumable, Saving!SavedIsWhole
  <2>8. Saving!SavedTurnIsResumed'
    BY <1>2 DEF Saving!Moves, Saving!Empty, SavingTypes, Worked, LastIsResumable, Resumable, HasItsFiles, Saving!SavedTurnIsResumed
  <2>9. Saving!NoTokenInSnapshot'
    BY <1>2 DEF Saving!Moves, Saving!Empty, SavingTypes, Worked, Saving!NoTokenInSnapshot
  <2>10. QED
    BY <2>1, <2>2, <2>3, <2>4, <2>5, <2>6, <2>7, <2>8, <2>9
<1>3. CASE Saving!Restored
  <2>1. SavingTypes'
    BY <1>3 DEF Saving!Restored, Saving!Restores, SavingTypes
  <2>2. Worked'
    BY <1>3 DEF Saving!Restored, Saving!Restores, SavingTypes, Worked
  <2>3. SavedSoFar'
    BY <1>3 DEF Saving!Restored, Saving!Restores, SavingTypes, Worked, SavedSoFar
  <2>4. LastIsResumable'
    BY <1>3 DEF Saving!Restored, Saving!Restores, SavingTypes, Worked, SavedSoFar, LastIsResumable, Resumable
  <2>5. HasItsFiles'
    BY <1>3 DEF Saving!Restored, Saving!Restores, SavingTypes, Worked, LastIsResumable, Resumable, HasItsFiles
  <2>6. FreshMachine'
    BY <1>3 DEF Saving!Restored, Saving!Restores, SavingTypes, FreshMachine, Saving!Empty
  <2>7. Saving!SavedIsWhole'
    BY <1>3 DEF Saving!Restored, Saving!Restores, SavingTypes, Worked, SavedSoFar, LastIsResumable, Saving!SavedIsWhole
  <2>8. Saving!SavedTurnIsResumed'
    BY <1>3 DEF Saving!Restored, Saving!Restores, SavingTypes, Worked, LastIsResumable, Resumable, HasItsFiles, Saving!SavedTurnIsResumed
  <2>9. Saving!NoTokenInSnapshot'
    BY <1>3 DEF Saving!Restored, Saving!Restores, SavingTypes, Worked, Saving!NoTokenInSnapshot
  <2>10. QED
    BY <2>1, <2>2, <2>3, <2>4, <2>5, <2>6, <2>7, <2>8, <2>9
<1>4. CASE Saving!NothingToRestore
  <2>1. SavingTypes'
    BY <1>4 DEF Saving!NothingToRestore, Saving!Restores, SavingTypes
  <2>2. Worked'
    BY <1>4 DEF Saving!NothingToRestore, Saving!Restores, SavingTypes, Worked
  <2>3. SavedSoFar'
    BY <1>4 DEF Saving!NothingToRestore, Saving!Restores, SavingTypes, Worked, SavedSoFar
  <2>4. LastIsResumable'
    BY <1>4 DEF Saving!NothingToRestore, Saving!Restores, SavingTypes, Worked, SavedSoFar, LastIsResumable, Resumable
  <2>5. HasItsFiles'
    BY <1>4 DEF Saving!NothingToRestore, Saving!Restores, SavingTypes, Worked, LastIsResumable, Resumable, HasItsFiles
  <2>6. FreshMachine'
    BY <1>4 DEF Saving!NothingToRestore, Saving!Restores, SavingTypes, FreshMachine, Saving!Empty
  <2>7. Saving!SavedIsWhole'
    BY <1>4 DEF Saving!NothingToRestore, Saving!Restores, SavingTypes, Worked, SavedSoFar, LastIsResumable, Saving!SavedIsWhole
  <2>8. Saving!SavedTurnIsResumed'
    BY <1>4 DEF Saving!NothingToRestore, Saving!Restores, SavingTypes, Worked, LastIsResumable, Resumable, HasItsFiles, Saving!SavedTurnIsResumed
  <2>9. Saving!NoTokenInSnapshot'
    BY <1>4 DEF Saving!NothingToRestore, Saving!Restores, SavingTypes, Worked, Saving!NoTokenInSnapshot
  <2>10. QED
    BY <2>1, <2>2, <2>3, <2>4, <2>5, <2>6, <2>7, <2>8, <2>9
<1>5. CASE Saving!RestoreFails
  <2>1. SavingTypes'
    <3>1. PICK some \in SUBSET snap.edits, repo \in {FALSE, snap.repo} :
            dir' = IF Saving!Pristine THEN Saving!Empty
                   ELSE [dir EXCEPT !.edits = @ \cup some, !.repo = @ \/ repo]
      BY <1>5, ZenonT(60) DEF Saving!RestoreFails
    <3>2. dir.edits \cup some \in SUBSET Nat /\ repo \in BOOLEAN
      BY DEF SavingTypes
    <3>3. dir' \in [edits : SUBSET Nat, repo : BOOLEAN, token : BOOLEAN]
      BY <3>1, <3>2 DEF SavingTypes, Saving!Empty
    <3>4. phase' = "stage" /\ UNCHANGED <<setup, k_turn, memory, thread, snap, transcript, meta, rollout, kept, saved, lost>>
      BY <1>5 DEF Saving!RestoreFails
    <3>5. QED
      BY <3>3, <3>4 DEF SavingTypes
  <2>2. Worked'
    BY <1>5 DEF Saving!RestoreFails, Saving!Restores, Saving!Pristine, Saving!Fault, Saving!Empty, SavingTypes, Worked
  <2>3. SavedSoFar'
    BY <1>5 DEF Saving!RestoreFails, Saving!Restores, Saving!Pristine, Saving!Fault, Saving!Empty, SavingTypes, Worked, SavedSoFar
  <2>4. LastIsResumable'
    BY <1>5 DEF Saving!RestoreFails, Saving!Restores, Saving!Pristine, Saving!Fault, Saving!Empty, SavingTypes, Worked, SavedSoFar, LastIsResumable, Resumable
  <2>5. HasItsFiles'
    BY <1>5 DEF Saving!RestoreFails, Saving!Restores, Saving!Pristine, Saving!Fault, Saving!Empty, SavingTypes, Worked, LastIsResumable, Resumable, HasItsFiles
  <2>6. FreshMachine'
    BY <1>5 DEF Saving!RestoreFails, Saving!Restores, Saving!Pristine, Saving!Fault, Saving!Empty, SavingTypes, FreshMachine
  <2>7. Saving!SavedIsWhole'
    BY <1>5 DEF Saving!RestoreFails, Saving!Restores, Saving!Pristine, Saving!Fault, Saving!Empty, SavingTypes, Worked, SavedSoFar, LastIsResumable, Saving!SavedIsWhole
  <2>8. Saving!SavedTurnIsResumed'
    BY <1>5 DEF Saving!RestoreFails, Saving!Restores, Saving!Pristine, Saving!Fault, Saving!Empty, SavingTypes, Worked, LastIsResumable, Resumable, HasItsFiles, Saving!SavedTurnIsResumed
  <2>9. Saving!NoTokenInSnapshot'
    BY <1>5 DEF Saving!RestoreFails, Saving!Restores, Saving!Pristine, Saving!Fault, Saving!Empty, SavingTypes, Worked, Saving!NoTokenInSnapshot
  <2>10. QED
    BY <2>1, <2>2, <2>3, <2>4, <2>5, <2>6, <2>7, <2>8, <2>9
<1>6. CASE Saving!Stage
  <2>1. SavingTypes'
    <3> DEFINE edits == IF dir.repo THEN {} ELSE dir.edits
    <3>0. edits \in SUBSET Nat
      BY DEF SavingTypes
    <3>1. dir' \in [edits : SUBSET Nat, repo : BOOLEAN, token : BOOLEAN]
      <4>1. dir' = dir \/ \E token \in BOOLEAN : dir' = [edits |-> edits, repo |-> TRUE, token |-> token]
        BY <1>6 DEF Saving!Stage
      <4> HIDE DEF edits
      <4>2. \A token \in BOOLEAN : [edits |-> edits, repo |-> TRUE, token |-> token] \in [edits : SUBSET Nat, repo : BOOLEAN, token : BOOLEAN]
        BY <3>0
      <4>3. QED
        BY <4>1, <4>2 DEF SavingTypes
    <3>2. phase' \in {"start", "idle"}
      BY <1>6 DEF Saving!Stage, Saving!Fails
    <3>3. QED
      BY <1>6, <3>1, <3>2 DEF Saving!Stage, SavingTypes
  <2>2. Worked'
    BY <1>6 DEF Saving!Stage, Saving!Fault, Saving!Fails, SavingTypes, Worked
  <2>3. SavedSoFar'
    BY <1>6 DEF Saving!Stage, Saving!Fault, Saving!Fails, SavingTypes, Worked, SavedSoFar
  <2>4. LastIsResumable'
    BY <1>6 DEF Saving!Stage, Saving!Fault, Saving!Fails, SavingTypes, Worked, SavedSoFar, LastIsResumable, Resumable
  <2>5. HasItsFiles'
    BY <1>6 DEF Saving!Stage, Saving!Fault, Saving!Fails, SavingTypes, Worked, LastIsResumable, Resumable, HasItsFiles
  <2>6. FreshMachine'
    BY <1>6 DEF Saving!Stage, Saving!Fault, Saving!Fails, SavingTypes, FreshMachine, Saving!Empty
  <2>7. Saving!SavedIsWhole'
    BY <1>6 DEF Saving!Stage, Saving!Fault, Saving!Fails, SavingTypes, Worked, SavedSoFar, LastIsResumable, Saving!SavedIsWhole
  <2>8. Saving!SavedTurnIsResumed'
    BY <1>6 DEF Saving!Stage, Saving!Fault, Saving!Fails, SavingTypes, Worked, LastIsResumable, Resumable, HasItsFiles, Saving!SavedTurnIsResumed
  <2>9. Saving!NoTokenInSnapshot'
    BY <1>6 DEF Saving!Stage, Saving!Fault, Saving!Fails, SavingTypes, Worked, Saving!NoTokenInSnapshot
  <2>10. QED
    BY <2>1, <2>2, <2>3, <2>4, <2>5, <2>6, <2>7, <2>8, <2>9
<1>7. CASE Saving!StartClaude
  <2>1. SavingTypes'
    BY <1>7 DEF Saving!StartClaude, SavingTypes
  <2>2. Worked'
    BY <1>7 DEF Saving!StartClaude, SavingTypes, Worked
  <2>3. SavedSoFar'
    BY <1>7 DEF Saving!StartClaude, SavingTypes, Worked, SavedSoFar
  <2>4. LastIsResumable'
    BY <1>7 DEF Saving!StartClaude, SavingTypes, Worked, SavedSoFar, LastIsResumable, Resumable
  <2>5. HasItsFiles'
    BY <1>7 DEF Saving!StartClaude, SavingTypes, Worked, LastIsResumable, Resumable, HasItsFiles
  <2>6. FreshMachine'
    BY <1>7 DEF Saving!StartClaude, SavingTypes, FreshMachine, Saving!Empty
  <2>7. Saving!SavedIsWhole'
    BY <1>7 DEF Saving!StartClaude, SavingTypes, Worked, SavedSoFar, LastIsResumable, Saving!SavedIsWhole
  <2>8. Saving!SavedTurnIsResumed'
    BY <1>7 DEF Saving!StartClaude, SavingTypes, Worked, LastIsResumable, Resumable, HasItsFiles, Saving!SavedTurnIsResumed
  <2>9. Saving!NoTokenInSnapshot'
    BY <1>7 DEF Saving!StartClaude, SavingTypes, Worked, Saving!NoTokenInSnapshot
  <2>10. QED
    BY <2>1, <2>2, <2>3, <2>4, <2>5, <2>6, <2>7, <2>8, <2>9
<1>8. CASE Saving!StartFresh
  <2>1. SavingTypes'
    BY <1>8 DEF Saving!StartFresh, SavingTypes
  <2>2. Worked'
    BY <1>8 DEF Saving!StartFresh, SavingTypes, Worked
  <2>3. SavedSoFar'
    BY <1>8 DEF Saving!StartFresh, SavingTypes, Worked, SavedSoFar
  <2>4. LastIsResumable'
    BY <1>8 DEF Saving!StartFresh, SavingTypes, Worked, SavedSoFar, LastIsResumable, Resumable
  <2>5. HasItsFiles'
    BY <1>8 DEF Saving!StartFresh, SavingTypes, Worked, LastIsResumable, Resumable, HasItsFiles
  <2>6. FreshMachine'
    BY <1>8 DEF Saving!StartFresh, SavingTypes, FreshMachine, Saving!Empty
  <2>7. Saving!SavedIsWhole'
    BY <1>8 DEF Saving!StartFresh, SavingTypes, Worked, SavedSoFar, LastIsResumable, Saving!SavedIsWhole
  <2>8. Saving!SavedTurnIsResumed'
    BY <1>8 DEF Saving!StartFresh, SavingTypes, Worked, LastIsResumable, Resumable, HasItsFiles, Saving!SavedTurnIsResumed
  <2>9. Saving!NoTokenInSnapshot'
    BY <1>8 DEF Saving!StartFresh, SavingTypes, Worked, Saving!NoTokenInSnapshot
  <2>10. QED
    BY <2>1, <2>2, <2>3, <2>4, <2>5, <2>6, <2>7, <2>8, <2>9
<1>9. CASE Saving!ResumeThread
  <2>1. SavingTypes'
    BY <1>9 DEF Saving!ResumeThread, SavingTypes
  <2>2. Worked'
    BY <1>9 DEF Saving!ResumeThread, SavingTypes, Worked
  <2>3. SavedSoFar'
    BY <1>9 DEF Saving!ResumeThread, SavingTypes, Worked, SavedSoFar
  <2>4. LastIsResumable'
    BY <1>9 DEF Saving!ResumeThread, SavingTypes, Worked, SavedSoFar, LastIsResumable, Resumable
  <2>5. HasItsFiles'
    BY <1>9 DEF Saving!ResumeThread, SavingTypes, Worked, LastIsResumable, Resumable, HasItsFiles
  <2>6. FreshMachine'
    BY <1>9 DEF Saving!ResumeThread, SavingTypes, FreshMachine, Saving!Empty
  <2>7. Saving!SavedIsWhole'
    BY <1>9 DEF Saving!ResumeThread, SavingTypes, Worked, SavedSoFar, LastIsResumable, Saving!SavedIsWhole
  <2>8. Saving!SavedTurnIsResumed'
    BY <1>9 DEF Saving!ResumeThread, SavingTypes, Worked, LastIsResumable, Resumable, HasItsFiles, Saving!SavedTurnIsResumed
  <2>9. Saving!NoTokenInSnapshot'
    BY <1>9 DEF Saving!ResumeThread, SavingTypes, Worked, Saving!NoTokenInSnapshot
  <2>10. QED
    BY <2>1, <2>2, <2>3, <2>4, <2>5, <2>6, <2>7, <2>8, <2>9
<1>10. CASE Saving!ResumeRaises
  <2>1. SavingTypes'
    BY <1>10 DEF Saving!ResumeRaises, Saving!Fault, Saving!Fails, SavingTypes
  <2>2. Worked'
    BY <1>10 DEF Saving!ResumeRaises, Saving!Fault, Saving!Fails, SavingTypes, Worked
  <2>3. SavedSoFar'
    BY <1>10 DEF Saving!ResumeRaises, Saving!Fault, Saving!Fails, SavingTypes, Worked, SavedSoFar
  <2>4. LastIsResumable'
    BY <1>10 DEF Saving!ResumeRaises, Saving!Fault, Saving!Fails, SavingTypes, Worked, SavedSoFar, LastIsResumable, Resumable
  <2>5. HasItsFiles'
    BY <1>10 DEF Saving!ResumeRaises, Saving!Fault, Saving!Fails, SavingTypes, Worked, LastIsResumable, Resumable, HasItsFiles
  <2>6. FreshMachine'
    BY <1>10 DEF Saving!ResumeRaises, Saving!Fault, Saving!Fails, SavingTypes, FreshMachine, Saving!Empty
  <2>7. Saving!SavedIsWhole'
    BY <1>10 DEF Saving!ResumeRaises, Saving!Fault, Saving!Fails, SavingTypes, Worked, SavedSoFar, LastIsResumable, Saving!SavedIsWhole
  <2>8. Saving!SavedTurnIsResumed'
    BY <1>10 DEF Saving!ResumeRaises, Saving!Fault, Saving!Fails, SavingTypes, Worked, LastIsResumable, Resumable, HasItsFiles, Saving!SavedTurnIsResumed
  <2>9. Saving!NoTokenInSnapshot'
    BY <1>10 DEF Saving!ResumeRaises, Saving!Fault, Saving!Fails, SavingTypes, Worked, Saving!NoTokenInSnapshot
  <2>10. QED
    BY <2>1, <2>2, <2>3, <2>4, <2>5, <2>6, <2>7, <2>8, <2>9
<1>11. CASE Saving!Work
  <2>1. SavingTypes'
    BY <1>11 DEF Saving!Work, SavingTypes
  <2>2. Worked'
    <3>1. /\ k_turn \in memory' /\ k_turn \in dir'.edits
          /\ setup.harness = "claude" => k_turn \in transcript' \cup lost'
      BY <1>11 DEF Saving!Work, SavingTypes
    <3>2. /\ phase = "work" /\ phase' = (IF setup.harness = "codex" THEN "meta" ELSE "scrub")
          /\ UNCHANGED <<setup, k_turn, thread, kept>>
      BY <1>11 DEF Saving!Work
    <3>3. QED
      BY <3>1, <3>2 DEF Worked
  <2>3. SavedSoFar'
    BY <1>11 DEF Saving!Work, SavingTypes, Worked, SavedSoFar
  <2>4. LastIsResumable'
    BY <1>11 DEF Saving!Work, SavingTypes, Worked, SavedSoFar, LastIsResumable, Resumable
  <2>5. HasItsFiles'
    BY <1>11 DEF Saving!Work, SavingTypes, Worked, LastIsResumable, Resumable, HasItsFiles
  <2>6. FreshMachine'
    BY <1>11 DEF Saving!Work, SavingTypes, FreshMachine, Saving!Empty
  <2>7. Saving!SavedIsWhole'
    BY <1>11 DEF Saving!Work, SavingTypes, Worked, SavedSoFar, LastIsResumable, Saving!SavedIsWhole
  <2>8. Saving!SavedTurnIsResumed'
    BY <1>11 DEF Saving!Work, SavingTypes, Worked, LastIsResumable, Resumable, HasItsFiles, Saving!SavedTurnIsResumed
  <2>9. Saving!NoTokenInSnapshot'
    BY <1>11 DEF Saving!Work, SavingTypes, Worked, Saving!NoTokenInSnapshot
  <2>10. QED
    BY <2>1, <2>2, <2>3, <2>4, <2>5, <2>6, <2>7, <2>8, <2>9
<1>12. CASE Saving!PersistMeta
  <2>1. SavingTypes'
    BY <1>12 DEF Saving!PersistMeta, Saving!Fault, SavingTypes
  <2>2. Worked'
    BY <1>12 DEF Saving!PersistMeta, Saving!Fault, SavingTypes, Worked
  <2>3. SavedSoFar'
    BY <1>12 DEF Saving!PersistMeta, Saving!Fault, SavingTypes, Worked, SavedSoFar
  <2>4. LastIsResumable'
    BY <1>12 DEF Saving!PersistMeta, Saving!Fault, SavingTypes, Worked, SavedSoFar, LastIsResumable, Resumable
  <2>5. HasItsFiles'
    BY <1>12 DEF Saving!PersistMeta, Saving!Fault, SavingTypes, Worked, LastIsResumable, Resumable, HasItsFiles
  <2>6. FreshMachine'
    BY <1>12 DEF Saving!PersistMeta, Saving!Fault, SavingTypes, FreshMachine, Saving!Empty
  <2>7. Saving!SavedIsWhole'
    BY <1>12 DEF Saving!PersistMeta, Saving!Fault, SavingTypes, Worked, SavedSoFar, LastIsResumable, Saving!SavedIsWhole
  <2>8. Saving!SavedTurnIsResumed'
    BY <1>12 DEF Saving!PersistMeta, Saving!Fault, SavingTypes, Worked, LastIsResumable, Resumable, HasItsFiles, Saving!SavedTurnIsResumed
  <2>9. Saving!NoTokenInSnapshot'
    BY <1>12 DEF Saving!PersistMeta, Saving!Fault, SavingTypes, Worked, Saving!NoTokenInSnapshot
  <2>10. QED
    BY <2>1, <2>2, <2>3, <2>4, <2>5, <2>6, <2>7, <2>8, <2>9
<1>13. CASE Saving!PersistRollout
  <2>1. SavingTypes'
    <3>1. rollout' \in [of : Nat, memory : SUBSET Nat]
      BY <1>13 DEF Saving!PersistRollout, SavingTypes
    <3>2. kept' \in [conversation : BOOLEAN, workspace : BOOLEAN]
      BY <1>13 DEF Saving!PersistRollout, SavingTypes
    <3>3. QED
      BY <1>13, <3>1, <3>2 DEF Saving!PersistRollout, SavingTypes
  <2>2. Worked'
    BY <1>13 DEF Saving!PersistRollout, Saving!Fault, SavingTypes, Worked
  <2>3. SavedSoFar'
    BY <1>13 DEF Saving!PersistRollout, Saving!Fault, SavingTypes, Worked, SavedSoFar
  <2>4. LastIsResumable'
    BY <1>13 DEF Saving!PersistRollout, Saving!Fault, SavingTypes, Worked, SavedSoFar, LastIsResumable, Resumable
  <2>5. HasItsFiles'
    BY <1>13 DEF Saving!PersistRollout, Saving!Fault, SavingTypes, Worked, LastIsResumable, Resumable, HasItsFiles
  <2>6. FreshMachine'
    BY <1>13 DEF Saving!PersistRollout, Saving!Fault, SavingTypes, FreshMachine, Saving!Empty
  <2>7. Saving!SavedIsWhole'
    BY <1>13 DEF Saving!PersistRollout, Saving!Fault, SavingTypes, Worked, SavedSoFar, LastIsResumable, Saving!SavedIsWhole
  <2>8. Saving!SavedTurnIsResumed'
    BY <1>13 DEF Saving!PersistRollout, Saving!Fault, SavingTypes, Worked, LastIsResumable, Resumable, HasItsFiles, Saving!SavedTurnIsResumed
  <2>9. Saving!NoTokenInSnapshot'
    BY <1>13 DEF Saving!PersistRollout, Saving!Fault, SavingTypes, Worked, Saving!NoTokenInSnapshot
  <2>10. QED
    BY <2>1, <2>2, <2>3, <2>4, <2>5, <2>6, <2>7, <2>8, <2>9
<1>14. CASE Saving!Scrub
  <2>1. SavingTypes'
    BY <1>14 DEF Saving!Scrub, Saving!Fault, SavingTypes
  <2>2. Worked'
    BY <1>14 DEF Saving!Scrub, Saving!Fault, SavingTypes, Worked
  <2>3. SavedSoFar'
    BY <1>14 DEF Saving!Scrub, Saving!Fault, SavingTypes, Worked, SavedSoFar
  <2>4. LastIsResumable'
    BY <1>14 DEF Saving!Scrub, Saving!Fault, SavingTypes, Worked, SavedSoFar, LastIsResumable, Resumable
  <2>5. HasItsFiles'
    BY <1>14 DEF Saving!Scrub, Saving!Fault, SavingTypes, Worked, LastIsResumable, Resumable, HasItsFiles
  <2>6. FreshMachine'
    BY <1>14 DEF Saving!Scrub, Saving!Fault, SavingTypes, FreshMachine, Saving!Empty
  <2>7. Saving!SavedIsWhole'
    BY <1>14 DEF Saving!Scrub, Saving!Fault, SavingTypes, Worked, SavedSoFar, LastIsResumable, Saving!SavedIsWhole
  <2>8. Saving!SavedTurnIsResumed'
    BY <1>14 DEF Saving!Scrub, Saving!Fault, SavingTypes, Worked, LastIsResumable, Resumable, HasItsFiles, Saving!SavedTurnIsResumed
  <2>9. Saving!NoTokenInSnapshot'
    BY <1>14 DEF Saving!Scrub, Saving!Fault, SavingTypes, Worked, Saving!NoTokenInSnapshot
  <2>10. QED
    BY <2>1, <2>2, <2>3, <2>4, <2>5, <2>6, <2>7, <2>8, <2>9
<1>15. CASE Saving!Snapshot
  <2>1. SavingTypes'
    <3>1. snap' \in [state : {"none", "broken", "good"}, edits : SUBSET Nat, repo : BOOLEAN, token : BOOLEAN]
      <4>1. Saving!Tree(dir) \in [state : {"none", "broken", "good"}, edits : SUBSET Nat, repo : BOOLEAN, token : BOOLEAN]
        BY DEF Saving!Tree, SavingTypes
      <4>2. Saving!NoTree \in [state : {"none", "broken", "good"}, edits : SUBSET Nat, repo : BOOLEAN, token : BOOLEAN]
        BY DEF Saving!NoTree
      <4>3. Saving!HalfWritten \in [state : {"none", "broken", "good"}, edits : SUBSET Nat, repo : BOOLEAN, token : BOOLEAN]
        BY <4>2 DEF Saving!HalfWritten, SavingTypes
      <4>4. QED
        BY <1>15, <4>1, <4>3 DEF Saving!Snapshot
    <3>2. kept' \in [conversation : BOOLEAN, workspace : BOOLEAN]
      BY <1>15 DEF Saving!Snapshot, SavingTypes
    <3>3. QED
      BY <1>15, <3>1, <3>2 DEF Saving!Snapshot, SavingTypes
  <2>2. Worked'
    BY <1>15 DEF Saving!Snapshot, Saving!Fault, Saving!Tree, Saving!HalfWritten, Saving!NoTree, SavingTypes, Worked
  <2>3. SavedSoFar'
    BY <1>15 DEF Saving!Snapshot, Saving!Fault, Saving!Tree, Saving!HalfWritten, Saving!NoTree, SavingTypes, Worked, SavedSoFar
  <2>4. LastIsResumable'
    BY <1>15 DEF Saving!Snapshot, Saving!Fault, Saving!Tree, Saving!HalfWritten, Saving!NoTree, SavingTypes, Worked, SavedSoFar, LastIsResumable, Resumable
  <2>5. HasItsFiles'
    BY <1>15 DEF Saving!Snapshot, Saving!Fault, Saving!Tree, Saving!HalfWritten, Saving!NoTree, SavingTypes, Worked, LastIsResumable, Resumable, HasItsFiles
  <2>6. FreshMachine'
    BY <1>15 DEF Saving!Snapshot, Saving!Fault, Saving!Tree, Saving!HalfWritten, Saving!NoTree, SavingTypes, FreshMachine, Saving!Empty
  <2>7. Saving!SavedIsWhole'
    BY <1>15 DEF Saving!Snapshot, Saving!Fault, Saving!Tree, Saving!HalfWritten, Saving!NoTree, SavingTypes, Worked, SavedSoFar, LastIsResumable, Saving!SavedIsWhole
  <2>8. Saving!SavedTurnIsResumed'
    BY <1>15 DEF Saving!Snapshot, Saving!Fault, Saving!Tree, Saving!HalfWritten, Saving!NoTree, SavingTypes, Worked, LastIsResumable, Resumable, HasItsFiles, Saving!SavedTurnIsResumed
  <2>9. Saving!NoTokenInSnapshot'
    BY <1>15 DEF Saving!Snapshot, Saving!Fault, Saving!Tree, Saving!HalfWritten, Saving!NoTree, SavingTypes, Worked, Saving!NoTokenInSnapshot
  <2>10. QED
    BY <2>1, <2>2, <2>3, <2>4, <2>5, <2>6, <2>7, <2>8, <2>9
<1>16. CASE Saving!Report
  <2>1. SavingTypes'
    BY <1>16 DEF Saving!Report, SavingTypes
  <2>2. Worked'
    BY <1>16 DEF Saving!Report, SavingTypes, Worked
  <2>3. SavedSoFar'
    BY <1>16 DEF Saving!Report, SavingTypes, Worked, SavedSoFar
  <2>4. LastIsResumable'
    BY <1>16 DEF Saving!Report, SavingTypes, Worked, SavedSoFar, LastIsResumable, Resumable
  <2>5. HasItsFiles'
    BY <1>16 DEF Saving!Report, SavingTypes, Worked, LastIsResumable, Resumable, HasItsFiles
  <2>6. FreshMachine'
    BY <1>16 DEF Saving!Report, SavingTypes, FreshMachine, Saving!Empty
  <2>7. Saving!SavedIsWhole'
    BY <1>16 DEF Saving!Report, SavingTypes, Worked, SavedSoFar, LastIsResumable, Saving!SavedIsWhole
  <2>8. Saving!SavedTurnIsResumed'
    BY <1>16 DEF Saving!Report, SavingTypes, Worked, LastIsResumable, Resumable, HasItsFiles, Saving!SavedTurnIsResumed
  <2>9. Saving!NoTokenInSnapshot'
    BY <1>16 DEF Saving!Report, SavingTypes, Worked, Saving!NoTokenInSnapshot
  <2>10. QED
    BY <2>1, <2>2, <2>3, <2>4, <2>5, <2>6, <2>7, <2>8, <2>9
<1>17. CASE Saving!Crash
  <2>1. SavingTypes'
    BY <1>17, ZenonT(30) DEF Saving!Crash, Saving!Fault, Saving!Fails, Saving!HalfWritten, Saving!NoTree, SavingTypes
  <2>2. Worked'
    BY <1>17 DEF Saving!Crash, Saving!Fault, Saving!Fails, Saving!HalfWritten, Saving!NoTree, SavingTypes, Worked
  <2>3. SavedSoFar'
    BY <1>17 DEF Saving!Crash, Saving!Fault, Saving!Fails, Saving!HalfWritten, Saving!NoTree, SavingTypes, Worked, SavedSoFar
  <2>4. LastIsResumable'
    BY <1>17 DEF Saving!Crash, Saving!Fault, Saving!Fails, Saving!HalfWritten, Saving!NoTree, SavingTypes, Worked, SavedSoFar, LastIsResumable, Resumable
  <2>5. HasItsFiles'
    BY <1>17 DEF Saving!Crash, Saving!Fault, Saving!Fails, Saving!HalfWritten, Saving!NoTree, SavingTypes, Worked, LastIsResumable, Resumable, HasItsFiles
  <2>6. FreshMachine'
    BY <1>17 DEF Saving!Crash, Saving!Fault, Saving!Fails, Saving!HalfWritten, Saving!NoTree, SavingTypes, FreshMachine, Saving!Empty
  <2>7. Saving!SavedIsWhole'
    BY <1>17 DEF Saving!Crash, Saving!Fault, Saving!Fails, Saving!HalfWritten, Saving!NoTree, SavingTypes, Worked, SavedSoFar, LastIsResumable, Saving!SavedIsWhole
  <2>8. Saving!SavedTurnIsResumed'
    BY <1>17 DEF Saving!Crash, Saving!Fault, Saving!Fails, Saving!HalfWritten, Saving!NoTree, SavingTypes, Worked, LastIsResumable, Resumable, HasItsFiles, Saving!SavedTurnIsResumed
  <2>9. Saving!NoTokenInSnapshot'
    BY <1>17 DEF Saving!Crash, Saving!Fault, Saving!Fails, Saving!HalfWritten, Saving!NoTree, SavingTypes, Worked, Saving!NoTokenInSnapshot
  <2>10. QED
    BY <2>1, <2>2, <2>3, <2>4, <2>5, <2>6, <2>7, <2>8, <2>9
<1>18. CASE Saving!EditMeta
  BY <1>18 DEF Saving!EditMeta, Saving!Fault, SavingTypes, Worked, SavedSoFar, LastIsResumable, Resumable,
               HasItsFiles, FreshMachine, Saving!Empty, Saving!SavedIsWhole, Saving!SavedTurnIsResumed,
               Saving!NoTokenInSnapshot
<1>19. CASE UNCHANGED Saving!vars
  BY <1>19 DEF Saving!vars, SavingTypes, Worked, SavedSoFar, LastIsResumable, Resumable, HasItsFiles, FreshMachine, Saving!Empty, Saving!SavedIsWhole, Saving!SavedTurnIsResumed, Saving!NoTokenInSnapshot
<1>20. QED
  BY <1>1, <1>2, <1>3, <1>4, <1>5, <1>6, <1>7, <1>8, <1>9, <1>10, <1>11, <1>12, <1>13, <1>14, <1>15, <1>16, <1>17, <1>18, <1>19
     DEF Saving!Next

LEMMA SavingInvInit == Saving!Init => SavingInv
<1> SUFFICES ASSUME Saving!Init PROVE SavingInv
  OBVIOUS
<1> USE DEF Saving!Init, Saving!Empty, Saving!NoTree
<1>1. SavingTypes
  BY DEF SavingTypes
<1>2. Worked
  BY DEF Worked, Saving!Setups
<1>3. SavedSoFar /\ LastIsResumable /\ HasItsFiles /\ FreshMachine
  BY DEF SavedSoFar, LastIsResumable, HasItsFiles, FreshMachine
<1>4. Saving!SavedIsWhole /\ Saving!SavedTurnIsResumed /\ Saving!NoTokenInSnapshot
  BY DEF Saving!SavedIsWhole, Saving!SavedTurnIsResumed, Saving!NoTokenInSnapshot
<1>5. QED
  BY <1>1, <1>2, <1>3, <1>4 DEF SavingInv

\* A step of the whole is a step of the checkpoint, or leaves it alone.
LEMMA SavingMoves == [Next]_vars => [Saving!Next]_(Saving!vars)
<1>1. Next => Saving!Next \/ UNCHANGED saving
  BY DEF Next
<1>2. UNCHANGED vars => UNCHANGED saving
  BY DEF vars
<1>3. UNCHANGED saving => UNCHANGED Saving!vars
  BY DEF saving, Saving!vars, Saving!blobs, Saving!agent
<1>4. QED
  BY <1>1, <1>2, <1>3

\* Whatever fails, and wherever a turn dies: the next turn that resumes one
\* whose checkpoint was reported saved remembers it and has its files, or
\* does not run, or says that the restore failed; and no snapshot holds a
\* token (workspace.py, codex.py _finalize, finalize_checkpoint).
THEOREM SavedIsResumed == Spec => []WhatIsSavedIsResumed
<1>1. Init => SavingInv
  BY SavingInvInit DEF Init
<1>2. SavingInv /\ [Next]_vars => SavingInv'
  BY SavingStep, SavingMoves
<1>3. SavingInv => WhatIsSavedIsResumed
  BY DEF SavingInv, WhatIsSavedIsResumed, FreshMachine, Saving!CleanFallback
<1>4. QED
  BY <1>1, <1>2, <1>3, PTL DEF Spec
-----------------------------------------------------------------------------
(* Control messages: a worker takes each once.                             *)

ControlTypes ==
    /\ turn \in Nat /\ sandbox \in Nat /\ sent \in Seq(Nat) /\ pending \in Seq(Nat)
    /\ msg \in [Control!Threads -> Nat] /\ target \in [Control!Threads -> Nat]
    /\ inbox \in [Control!Turns -> Seq(Nat)]

LEMMA ControlTypesStep == ControlTypes /\ [Control!Next]_(Control!vars) => ControlTypes'
<1> SUFFICES ASSUME ControlTypes, [Control!Next]_(Control!vars) PROVE ControlTypes'
  OBVIOUS
<1> USE DEF ControlTypes, Control!session, Control!queue, Control!thread, Control!remote, Control!fate
<1>0. <<>> \in Seq(Nat)
  OBVIOUS
<1>1. CASE Control!Submit \/ Control!Dispatched \/ Control!Observe \/ Control!Complete
  <2>1. CASE Control!Submit
    BY <1>0, <2>1 DEF Control!Submit, Control!Drop, Control!NoTurn
  <2>2. CASE Control!Dispatched
    BY <2>2 DEF Control!Dispatched
  <2>3. CASE Control!Observe
    BY <2>3 DEF Control!Observe
  <2>4. CASE Control!Complete
    BY <1>0, <2>4 DEF Control!Complete, Control!Drop, Control!NoTurn
  <2>5. QED
    BY <1>1, <2>1, <2>2, <2>3, <2>4
<1>2. CASE \E t \in Control!Turns : Control!Announce(t) \/ Control!WorkerEnds(t)
  BY <1>2 DEF Control!Announce, Control!WorkerEnds
<1>3. ASSUME NEW p \in Senders, Control!Send(p) PROVE ControlTypes'
  <2>1. sent' \in Seq(Nat) /\ Len(sent') \in Nat
    BY <1>3 DEF Control!Send
  <2>2. QED
    BY <1>3, <2>1 DEF Control!Send
<1>4. ASSUME NEW p \in Senders, Control!Post(p) \/ Control!Interrupt(p) PROVE ControlTypes'
  <2>1. p \in Control!Threads
    BY DEF Control!Threads
  <2>2. CASE Control!Post(p)
    <3>1. Append(pending, msg[p]) \in Seq(Nat)
      BY <2>1
    <3>2. QED
      BY <2>2, <3>1 DEF Control!Post
  <2>3. CASE Control!Interrupt(p)
    BY <1>0, <2>3 DEF Control!Interrupt, Control!Drop, Control!Stop
  <2>4. QED
    BY <1>4, <2>2, <2>3
<1>5. ASSUME NEW p \in Control!Threads, Control!ReadTarget(p) \/ Control!Refused(p) PROVE ControlTypes'
  BY <1>5 DEF Control!ReadTarget, Control!Refused
<1>6. ASSUME NEW p \in Control!Threads, Control!Delivered(p) PROVE ControlTypes'
  <2>1. \A t \in Control!Turns, m \in Nat : Control!Takes(t, m) \in [Control!Turns -> Seq(Nat)]
    <3> SUFFICES ASSUME NEW t \in Control!Turns, NEW m \in Nat
                 PROVE  Control!Takes(t, m) \in [Control!Turns -> Seq(Nat)]
      OBVIOUS
    <3>1. Append(inbox[t], m) \in Seq(Nat)
      OBVIOUS
    <3>2. QED
      BY <3>1 DEF Control!Takes
  <2>2. \A t \in Nat \ Control!Turns, m \in Nat : Control!Takes(t, m) = inbox
    BY DEF Control!Takes
  <2>3. inbox' \in [Control!Turns -> Seq(Nat)]
    BY <1>6, <2>1, <2>2 DEF Control!Delivered
  <2>4. QED
    BY <1>6, <2>3 DEF Control!Delivered
<1>7. ASSUME NEW f \in Flushers, Control!Flushing(f) PROVE ControlTypes'
  <2>1. pending # <<>> => Head(pending) \in Nat /\ Tail(pending) \in Seq(Nat)
    OBVIOUS
  <2>2. CASE Control!TakeHead(f)
    BY <2>1, <2>2 DEF Control!TakeHead
  <2>3. CASE Control!FlushEnds(f) \/ Control!PopHead(f) \/ Control!PopEmpty(f)
    BY <2>1, <2>3 DEF Control!FlushEnds, Control!PopHead, Control!PopEmpty
  <2>4. QED
    BY <1>7, <2>2, <2>3 DEF Control!Flushing
<1>8. CASE UNCHANGED Control!vars
  BY <1>8 DEF Control!vars
<1>9. QED
  BY <1>1, <1>2, <1>3, <1>4, <1>5, <1>6, <1>7, <1>8
     DEF Control!Next, Control!Sending, Control!Posting

\* A message whose id was seen is not taken again.
LEMMA TakenOnceStep ==
    ControlTypes /\ Control!TakenOnce /\ [Control!Next]_(Control!vars) => Control!TakenOnce'
<1> SUFFICES ASSUME ControlTypes, Control!TakenOnce, [Control!Next]_(Control!vars) PROVE Control!TakenOnce'
  OBVIOUS
<1> USE DEF Control!session, Control!queue, Control!thread, Control!remote, Control!fate
<1>1. ASSUME NEW p \in Control!Threads, Control!Delivered(p) PROVE Control!TakenOnce'
  <2> DEFINE t == target[p]
             m == msg[p]
  <2>1. inbox' = Control!Takes(t, m) /\ m \in Nat
    BY <1>1 DEF Control!Delivered, ControlTypes
  <2>2. CASE m \notin Control!ToSet(inbox[t]) /\ t \in Control!Turns
    <3>1. inbox[t] \in Seq(Nat) /\ inbox' = [inbox EXCEPT ![t] = Append(inbox[t], m)]
      BY <2>1, <2>2 DEF Control!Takes, ControlTypes
    <3>2. \A i \in DOMAIN inbox[t] : inbox[t][i] # m
      BY <2>2 DEF Control!ToSet
    <3>3. \A i, j \in DOMAIN inbox'[t] :
             inbox'[t][i] = inbox'[t][j] /\ inbox'[t][i] # Control!Stop => i = j
      <4>1. inbox'[t] = Append(inbox[t], m)
        BY <2>2, <3>1 DEF ControlTypes
      <4>2. \A i, j \in DOMAIN inbox[t] : inbox[t][i] = inbox[t][j] /\ inbox[t][i] # Control!Stop => i = j
        BY <2>2 DEF Control!TakenOnce
      <4>3. QED
        BY <2>1, <3>1, <3>2, <4>1, <4>2
    <3>4. \A s \in Control!Turns \ {t} : inbox'[s] = inbox[s]
      BY <3>1 DEF ControlTypes
    <3>5. QED
      BY <3>3, <3>4 DEF Control!TakenOnce
  <2>3. CASE m \in Control!ToSet(inbox[t]) \/ t \notin Control!Turns
    <3>1. inbox' = inbox
      BY <2>1, <2>3 DEF Control!Takes, ControlTypes
    <3>2. QED
      BY <3>1 DEF Control!TakenOnce
  <2>4. QED
    BY <2>2, <2>3
<1>2. ASSUME UNCHANGED inbox PROVE Control!TakenOnce'
  BY <1>2 DEF Control!TakenOnce
<1>3. CASE Control!Submit \/ Control!Dispatched \/ Control!Observe \/ Control!Complete
  BY <1>2, <1>3 DEF Control!Submit, Control!Dispatched, Control!Observe, Control!Complete
<1>4. ASSUME NEW t \in Control!Turns, Control!Announce(t) \/ Control!WorkerEnds(t) PROVE Control!TakenOnce'
  BY <1>2, <1>4 DEF Control!Announce, Control!WorkerEnds
<1>5. ASSUME NEW p \in Control!Threads, Control!Sending(p) \/ Control!ReadTarget(p) \/ Control!Refused(p)
      PROVE Control!TakenOnce'
  BY <1>2, <1>5 DEF Control!Sending, Control!Send, Control!Post, Control!Interrupt, Control!ReadTarget, Control!Refused
<1>6. ASSUME NEW f \in Flushers, Control!Flushing(f) PROVE Control!TakenOnce'
  BY <1>2, <1>6 DEF Control!Flushing, Control!TakeHead, Control!FlushEnds, Control!PopHead, Control!PopEmpty
<1>7. CASE UNCHANGED Control!vars
  BY <1>2, <1>7 DEF Control!vars
<1>8. QED
  BY <1>1, <1>3, <1>4, <1>5, <1>6, <1>7 DEF Control!Next, Control!Posting, Control!Threads

\* A step of the whole is a step of the queue, or leaves it alone.
LEMMA ControlMoves == [Next]_vars => [Control!Next]_(Control!vars)
<1>1. Next => Control!Next \/ UNCHANGED control
  BY DEF Next
<1>2. UNCHANGED vars => UNCHANGED control
  BY DEF vars
<1>3. UNCHANGED control => UNCHANGED Control!vars
  BY DEF control, Control!vars, Control!session, Control!queue, Control!thread, Control!remote, Control!fate
<1>4. QED
  BY <1>1, <1>2, <1>3

\* A worker takes a message once, though any number of senders and flushers
\* of this turn and of earlier ones post it (_flush_control,
\* send_threadsafe).
THEOREM MessagesTakenOnce == Spec => []TakenOnce
<1>1. Init => ControlTypes /\ Control!TakenOnce
  BY DEF Init, Control!Init, ControlTypes, Control!TakenOnce, Control!NoTurn, Control!Stop
<1>2. ControlTypes /\ Control!TakenOnce /\ [Next]_vars => (ControlTypes /\ Control!TakenOnce)'
  BY ControlTypesStep, TakenOnceStep, ControlMoves
<1>3. Control!TakenOnce => TakenOnce
  BY DEF TakenOnce
<1>4. QED
  BY <1>1, <1>2, <1>3, PTL DEF Spec

-----------------------------------------------------------------------------
(* Within a turn no message is forgotten, and those of one sender keep     *)
(* their order.                                                            *)

USE DEF Control!session, Control!queue, Control!thread, Control!remote, Control!fate, Control!Stop, Control!NoTurn

Flies(f) == pc[f] \in {"post", "call", "pop"}
InQueue(m) == \E i \in 1..Len(pending) : pending[i] = m
InBox(m) == \E i \in 1..Len(inbox[1]) : inbox[1][i] = m

\* There is one turn, and a flusher works only in it, from when the worker
\* listens; none is left behind once the queue is empty.
OneFlush ==
    /\ turn \in {0, 1} /\ sandbox \in {0, 1} /\ (sandbox # 0 => busy) /\ (busy => turn = 1)
    /\ busy /\ ready => sandbox = 1
    /\ turn = 0 => sent = <<>> /\ ~ready
    /\ ~ready => ~flushing /\ \A f \in Flushers : pc[f] = "idle"
    /\ \A f, g \in Flushers : pc[f] # "idle" /\ pc[g] # "idle" => f = g
    /\ busy /\ ready /\ ~flushing => pending = <<>>
    /\ \A p \in Control!Threads : pc[p] = "call" => target[p] = 1
    /\ pc \in [Control!Threads -> {"idle", "send", "post", "call", "pop", "top"}]
    /\ \A p \in Senders : pc[p] \in {"idle", "send", "post", "call"}
    /\ \A f \in Flushers : pc[f] # "send"

\* What a flusher posts is the head of the queue, which it takes off when the
\* worker or the log has it.
HeadIsPosted ==
    busy => \A f \in Flushers :
        /\ Flies(f) => IF pending = <<>> THEN ~flushing ELSE pending[1] = msg[f]
        /\ pc[f] = "pop" => InBox(msg[f]) \/ msg[f] \in logged

\* Every message of the turn is somewhere.
Somewhere(m) ==
    \/ InQueue(m) \/ InBox(m) \/ m \in told \cup logged \cup warned \cup moot
    \/ \E p \in Senders : pc[p] # "idle" /\ msg[p] = m
NoneForgotten == busy => \A m \in 1..Len(sent) : Somewhere(m)

KeepsInv == ControlTypes /\ OneFlush /\ HeadIsPosted /\ NoneForgotten

LEMMA ControlConstants ==
    ASSUME QueueTurns = 1
    PROVE  /\ Control!Turns = {1} /\ Senders \cap Flushers = {} /\ Control!Threads = Senders \cup Flushers
           /\ MaxSent \in Nat /\ MaxStops \in Nat
<1>1. Control!ControlAssumption
  BY SessionAssumption
<1>2. Control!Turns = {1}
  BY DEF Control!Turns
<1>3. QED
  BY <1>1, <1>2 DEF Control!ControlAssumption, Control!Threads

LEMMA OneFlushStep ==
    ASSUME QueueTurns = 1, ControlTypes, OneFlush, [Control!Next]_(Control!vars)
    PROVE  OneFlush'
<1> USE DEF OneFlush, Control!Goto
<1>0. /\ Senders \cap Flushers = {} /\ Control!Threads = Senders \cup Flushers /\ Control!Turns = {1}
      /\ pending \in Seq(Nat)
  BY ControlConstants DEF ControlTypes
<1>1. CASE Control!Submit \/ Control!Dispatched \/ Control!Complete
  <2>1. CASE Control!Submit
    BY <1>0, <2>1 DEF Control!Submit, Control!Drop
  <2>2. CASE Control!Dispatched
    BY <1>0, <2>2 DEF Control!Dispatched
  <2>3. CASE Control!Complete
    BY <1>0, <2>3 DEF Control!Complete, Control!Drop
  <2>4. QED
    BY <1>1, <2>1, <2>2, <2>3
<1>2. CASE Control!Observe
  <2>1. /\ busy /\ sandbox = turn /\ ~ready /\ ready' = TRUE
        /\ UNCHANGED <<turn, busy, sandbox, pending, target, sent>>
    BY <1>2 DEF Control!Observe
  <2>2. ~flushing /\ \A f \in Flushers : pc[f] = "idle"
    BY <2>1
  <2>3. \/ flushing' = TRUE /\ \E f \in Flushers : pc' = [pc EXCEPT ![f] = "top"]
        \/ pending = <<>> /\ UNCHANGED <<flushing, pc>>
    BY <1>2, <2>2 DEF Control!Observe
  <2>4. QED
    BY <1>0, <2>1, <2>2, <2>3
<1>3. ASSUME NEW t \in Control!Turns, Control!Announce(t) \/ Control!WorkerEnds(t) PROVE OneFlush'
  BY <1>3 DEF Control!Announce, Control!WorkerEnds
<1>4. ASSUME NEW p \in Senders, Control!Send(p) PROVE OneFlush'
  BY <1>0, <1>4 DEF Control!Send
<1>5. ASSUME NEW p \in Senders, Control!Post(p) PROVE OneFlush'
  <2>1. /\ UNCHANGED <<turn, busy, sandbox, ready, flushing, target, sent>>
        /\ \/ (~ready \/ sandbox = 0 \/ flushing) /\ pc' = [pc EXCEPT ![p] = "idle"]
           \/ pc' = [pc EXCEPT ![p] = "post"] /\ UNCHANGED pending
    BY <1>5 DEF Control!Post
  <2>2. QED
    BY <1>0, <2>1
<1>6. ASSUME NEW p \in Senders, Control!Interrupt(p) PROVE OneFlush'
  BY <1>0, <1>6 DEF Control!Interrupt, Control!Drop
<1>7. ASSUME NEW p \in Control!Threads, Control!Posting(p) PROVE OneFlush'
  <2>1. /\ UNCHANGED <<turn, busy, sandbox, ready, pending, flushing, sent>> /\ pc[p] \in {"post", "call"}
        /\ \/ pc' = [pc EXCEPT ![p] = Control!After(p)] /\ UNCHANGED target
           \/ pc' = [pc EXCEPT ![p] = "call"] /\ sandbox # 0 /\ target' = [target EXCEPT ![p] = sandbox]
    BY <1>7 DEF Control!Posting, Control!ReadTarget, Control!Delivered, Control!Refused
  <2>2. (p \in Flushers /\ Control!After(p) = "pop") \/ (p \in Senders /\ Control!After(p) = "idle")
    BY <1>0 DEF Control!After
  <2>3. CASE pc' = [pc EXCEPT ![p] = Control!After(p)] /\ UNCHANGED target
    BY <1>0, <2>1, <2>2, <2>3
  <2>4. CASE pc' = [pc EXCEPT ![p] = "call"] /\ sandbox # 0 /\ target' = [target EXCEPT ![p] = sandbox]
    <3>1. sandbox = 1 /\ target \in [Control!Threads -> Nat]
      BY <2>4 DEF ControlTypes
    <3>2. QED
      BY <1>0, <2>1, <2>4, <3>1
  <2>5. QED
    BY <2>1, <2>3, <2>4
<1>8. ASSUME NEW f \in Flushers, Control!Flushing(f) PROVE OneFlush'
  <2>1. /\ UNCHANGED <<turn, busy, sandbox, ready, target, sent>> /\ pc[f] \in {"top", "pop"}
        /\ \/ UNCHANGED <<pending, flushing>> /\ pc' = [pc EXCEPT ![f] = "post"]
           \/ UNCHANGED <<pending, flushing>> /\ pc' = [pc EXCEPT ![f] = "idle"]
           \/ pending = <<>> /\ flushing' = FALSE /\ UNCHANGED pending /\ pc' = [pc EXCEPT ![f] = "idle"]
           \/ pending # <<>> /\ UNCHANGED flushing /\ pc' = [pc EXCEPT ![f] = "top"]
    BY <1>8 DEF Control!Flushing, Control!TakeHead, Control!FlushEnds, Control!PopHead, Control!PopEmpty
  <2>2. QED
    BY <1>0, <2>1
<1>9. CASE UNCHANGED Control!vars
  BY <1>9 DEF Control!vars
<1>10. QED
  BY <1>1, <1>2, <1>3, <1>4, <1>5, <1>6, <1>7, <1>8, <1>9 DEF Control!Next, Control!Sending

\* What a delivery leaves in the inbox of the turn's worker.
LEMMA Delivers ==
    ASSUME QueueTurns = 1, ControlTypes, OneFlush, NEW p \in Control!Threads, Control!Delivered(p)
    PROVE  /\ inbox[1] \in Seq(Nat) /\ msg[p] \in Nat
           /\ \/ InBox(msg[p]) /\ UNCHANGED inbox
              \/ inbox'[1] = Append(inbox[1], msg[p])
           /\ InBox(msg[p])' /\ \A m : InBox(m) => InBox(m)'
<1>1. /\ pc[p] = "call" /\ inbox' = Control!Takes(target[p], msg[p]) /\ UNCHANGED msg
  BY DEF Control!Delivered
<1>2. target[p] = 1 /\ 1 \in Control!Turns /\ inbox \in [Control!Turns -> Seq(Nat)]
  BY <1>1, ControlConstants DEF OneFlush, ControlTypes
<1>3. inbox[1] \in Seq(Nat) /\ msg[p] \in Nat
  BY <1>2 DEF ControlTypes
<1>4. \/ InBox(msg[p]) /\ UNCHANGED inbox
      \/ inbox'[1] = Append(inbox[1], msg[p])
  <2>1. Control!ToSet(inbox[1]) = {inbox[1][i] : i \in 1..Len(inbox[1])}
    BY <1>3 DEF Control!ToSet
  <2>2. QED
    BY <1>1, <1>2, <2>1 DEF Control!Takes, InBox
<1>5. InBox(msg[p])' /\ \A m : InBox(m) => InBox(m)'
  <2>1. CASE InBox(msg[p]) /\ UNCHANGED inbox
    BY <1>1, <2>1 DEF InBox
  <2>2. CASE inbox'[1] = Append(inbox[1], msg[p])
    <3>1. /\ Len(inbox'[1]) = Len(inbox[1]) + 1 /\ Len(inbox[1]) \in Nat
          /\ inbox'[1][Len(inbox[1]) + 1] = msg[p]
          /\ \A i \in 1..Len(inbox[1]) : inbox'[1][i] = inbox[1][i]
      BY <1>3, <2>2
    <3>2. QED
      BY <1>1, <3>1 DEF InBox
  <2>3. QED
    BY <1>4, <2>1, <2>2
<1>6. QED
  BY <1>3, <1>4, <1>5

LEMMA HeadIsPostedStep ==
    ASSUME QueueTurns = 1, ControlTypes, OneFlush, OneFlush', HeadIsPosted, [Control!Next]_(Control!vars)
    PROVE  HeadIsPosted'
<1> USE DEF HeadIsPosted, Flies, InBox, Control!Goto
<1>0. /\ Senders \cap Flushers = {} /\ Control!Threads = Senders \cup Flushers /\ Control!Turns = {1}
      /\ pending \in Seq(Nat) /\ inbox[1] \in Seq(Nat) /\ pc \in [Control!Threads -> {"idle", "send", "post", "call", "pop", "top"}]
      /\ msg \in [Control!Threads -> Nat]
  BY ControlConstants DEF ControlTypes, OneFlush
<1>1. CASE Control!Submit \/ Control!Dispatched \/ Control!Complete
  <2>1. CASE Control!Submit
    <3>1. ~busy /\ turn < 1 /\ turn' = turn + 1 /\ UNCHANGED pc
      BY <2>1 DEF Control!Submit
    <3>2. \A f \in Flushers : pc[f] = "idle"
      BY <3>1 DEF OneFlush
    <3>3. QED
      BY <3>1, <3>2
  <2>2. CASE Control!Dispatched
    BY <2>2 DEF Control!Dispatched
  <2>3. CASE Control!Complete
    BY <2>3 DEF Control!Complete
  <2>4. QED
    BY <1>1, <2>1, <2>2, <2>3
<1>2. CASE Control!Observe
  <2>1. UNCHANGED <<busy, pending, msg, inbox, logged>> /\ ~ready
    BY <1>2 DEF Control!Observe
  <2>2. \A f \in Flushers : pc[f] = "idle"
    BY <2>1 DEF OneFlush
  <2>3. UNCHANGED pc \/ \E f \in Flushers : pc' = [pc EXCEPT ![f] = "top"]
    BY <1>2 DEF Control!Observe
  <2>4. QED
    BY <1>0, <2>1, <2>2, <2>3
<1>3. ASSUME NEW t \in Control!Turns, Control!Announce(t) \/ Control!WorkerEnds(t) PROVE HeadIsPosted'
  <2>1. UNCHANGED <<busy, pending, flushing, pc, msg, inbox, logged>>
    BY <1>3 DEF Control!Announce, Control!WorkerEnds
  <2>2. QED
    BY <2>1
<1>4. ASSUME NEW p \in Senders, Control!Send(p) PROVE HeadIsPosted'
  <2>1. /\ UNCHANGED <<busy, pending, flushing, inbox, logged>>
        /\ \A f \in Flushers : pc'[f] = pc[f] /\ msg'[f] = msg[f]
    BY <1>0, <1>4 DEF Control!Send
  <2>2. QED
    BY <2>1
<1>5. ASSUME NEW p \in Senders, Control!Post(p) PROVE HeadIsPosted'
  <2>1. /\ UNCHANGED <<busy, inbox, logged, msg, sandbox, ready, flushing>> /\ \A f \in Flushers : pc'[f] = pc[f]
        /\ UNCHANGED pending \/ (pending' = Append(pending, msg[p]) /\ (~ready \/ sandbox = 0 \/ flushing))
    BY <1>0, <1>5 DEF Control!Post
  <2>2. CASE UNCHANGED pending
    BY <2>1, <2>2
  <2>3. CASE pending' = Append(pending, msg[p]) /\ (~ready \/ sandbox = 0 \/ flushing)
    <3>1. pending # <<>> => pending'[1] = pending[1]
      BY <1>0, <2>3
    <3>2. CASE pending # <<>>
      BY <2>1, <3>1, <3>2
    <3>3. CASE pending = <<>>
      <4>1. pending' # <<>> /\ (busy => flushing \/ \A f \in Flushers : pc[f] = "idle")
        BY <1>0, <2>3, <3>3 DEF OneFlush
      <4>2. pending'[1] = msg[p]
        BY <1>0, <2>3, <3>3
      <4>3. QED
        BY <2>1, <3>3, <4>1
    <3>4. QED
      BY <3>2, <3>3
  <2>4. QED
    BY <2>1, <2>2, <2>3
<1>6. ASSUME NEW p \in Senders, Control!Interrupt(p) PROVE HeadIsPosted'
  <2>1. /\ UNCHANGED <<busy, inbox, logged>> /\ pending' = <<>> /\ flushing' = FALSE
        /\ \A f \in Flushers : pc'[f] = pc[f] /\ msg'[f] = msg[f]
    BY <1>0, <1>6 DEF Control!Interrupt, Control!Drop
  <2>2. QED
    BY <2>1
<1>7. ASSUME NEW p \in Control!Threads, Control!Posting(p) PROVE HeadIsPosted'
  <2>1. /\ UNCHANGED <<busy, pending, flushing, msg>> /\ pc[p] \in {"post", "call"}
        /\ pc'[p] \in {Control!After(p), "call"} /\ \A f \in Control!Threads \ {p} : pc'[f] = pc[f]
        /\ \A f \in Flushers : msg[f] \in logged => msg[f] \in logged'
    BY <1>0, <1>7 DEF Control!Posting, Control!ReadTarget, Control!Delivered, Control!Refused, Control!Unavailable
  <2>2. \A m : InBox(m) => InBox(m)'
    <3>1. CASE Control!Delivered(p)
      BY <3>1, Delivers
    <3>2. CASE ~Control!Delivered(p)
      BY <1>7, <3>2 DEF Control!Posting, Control!ReadTarget, Control!Refused
    <3>3. QED
      BY <3>1, <3>2
  <2>3. p \in Flushers /\ pc'[p] = "pop" => InBox(msg[p])' \/ msg[p] \in logged'
    <3>1. CASE Control!Delivered(p)
      BY <3>1, Delivers
    <3>2. CASE ~Control!Delivered(p)
      BY <1>0, <1>7, <3>2 DEF Control!Posting, Control!ReadTarget, Control!Refused, Control!Unavailable
    <3>3. QED
      BY <3>1, <3>2
  <2>4. QED
    <3>1. ASSUME NEW f \in Flushers, busy, Flies(f)'
          PROVE  IF pending' = <<>> THEN ~flushing' ELSE pending'[1] = msg'[f]
      <4>1. Flies(f)
        BY <1>0, <2>1, <3>1
      <4>2. QED
        BY <2>1, <3>1, <4>1
    <3>2. ASSUME NEW f \in Flushers, busy, pc'[f] = "pop" PROVE InBox(msg[f])' \/ msg[f] \in logged'
      <4>1. CASE f = p
        BY <2>3, <3>2, <4>1
      <4>2. CASE f # p
        BY <1>0, <2>1, <2>2, <3>2, <4>2
      <4>3. QED
        BY <4>1, <4>2
    <3>3. (busy' <=> busy) /\ \A f \in Flushers : msg'[f] = msg[f]
      BY <2>1
    <3>4. QED
      BY <3>1, <3>2, <3>3
<1>8. ASSUME NEW f \in Flushers, Control!Flushing(f) PROVE HeadIsPosted'
  <2>1. CASE Control!TakeHead(f)
    BY <1>0, <2>1 DEF Control!TakeHead
  <2>2. CASE ~Control!TakeHead(f)
    <3>1. /\ UNCHANGED <<busy, inbox, logged, msg>> /\ pc[f] # "idle" /\ ~Flies(f)'
          /\ \A g \in Flushers \ {f} : pc'[g] = pc[g]
      BY <1>0, <1>8, <2>2 DEF Control!Flushing, Control!FlushEnds, Control!PopHead, Control!PopEmpty
    <3>2. \A g \in Flushers \ {f} : ~Flies(g)
      BY <3>1 DEF OneFlush
    <3>3. QED
      BY <3>1, <3>2
  <2>3. QED
    BY <2>1, <2>2
<1>9. CASE UNCHANGED Control!vars
  BY <1>9 DEF Control!vars
<1>10. QED
  BY <1>1, <1>2, <1>3, <1>4, <1>5, <1>6, <1>7, <1>8, <1>9 DEF Control!Next, Control!Sending

LEMMA NoneForgottenStep ==
    ASSUME QueueTurns = 1, ControlTypes, OneFlush, HeadIsPosted, NoneForgotten, [Control!Next]_(Control!vars)
    PROVE  NoneForgotten'
<1> USE DEF NoneForgotten, Somewhere, InQueue, InBox, Control!Goto
<1>0. /\ Senders \cap Flushers = {} /\ Control!Threads = Senders \cup Flushers /\ Control!Turns = {1}
      /\ pending \in Seq(Nat) /\ inbox[1] \in Seq(Nat) /\ sent \in Seq(Nat)
      /\ pc \in [Control!Threads -> {"idle", "send", "post", "call", "pop", "top"}]
      /\ msg \in [Control!Threads -> Nat]
  BY ControlConstants DEF ControlTypes, OneFlush
<1>1. CASE Control!Submit \/ Control!Dispatched \/ Control!Observe \/ Control!Complete
  <2>1. CASE Control!Submit
    <3>1. ~busy /\ turn < 1 /\ UNCHANGED sent
      BY <2>1 DEF Control!Submit
    <3>2. sent = <<>>
      BY <3>1 DEF OneFlush
    <3>3. QED
      BY <3>1, <3>2
  <2>2. CASE Control!Dispatched
    BY <2>2 DEF Control!Dispatched
  <2>3. CASE Control!Observe
    <3>1. /\ UNCHANGED <<busy, sent, pending, inbox, told, logged, warned, moot, msg>>
          /\ \A p \in Senders : pc'[p] = pc[p]
      BY <1>0, <2>3 DEF Control!Observe
    <3>2. QED
      BY <3>1
  <2>4. CASE Control!Complete
    BY <2>4 DEF Control!Complete
  <2>5. QED
    BY <1>1, <2>1, <2>2, <2>3, <2>4
<1>2. ASSUME NEW t \in Control!Turns, Control!Announce(t) \/ Control!WorkerEnds(t) PROVE NoneForgotten'
  <2>1. UNCHANGED <<busy, sent, pending, inbox, told, logged, warned, moot, msg, pc>>
    BY <1>2 DEF Control!Announce, Control!WorkerEnds
  <2>2. QED
    BY <2>1
<1>3. ASSUME NEW p \in Senders, Control!Send(p) PROVE NoneForgotten'
  <2>1. /\ UNCHANGED <<busy, pending, inbox, told, logged, warned, moot>>
        /\ sent' = Append(sent, turn) /\ Len(sent') = Len(sent) + 1 /\ Len(sent) \in Nat
        /\ pc[p] = "idle" /\ pc'[p] = "send" /\ msg'[p] = Len(sent')
        /\ \A q \in Senders \ {p} : pc'[q] = pc[q] /\ msg'[q] = msg[q]
    BY <1>0, <1>3 DEF Control!Send
  <2>2. ASSUME busy, NEW m \in 1..Len(sent') PROVE Somewhere(m)'
    <3>1. CASE m = Len(sent')
      BY <2>1, <3>1
    <3>2. CASE m \in 1..Len(sent)
      BY <2>1, <2>2, <3>2
    <3>3. QED
      BY <2>1, <3>1, <3>2
  <2>3. QED
    BY <2>1, <2>2
<1>4. ASSUME NEW p \in Senders, Control!Post(p) PROVE NoneForgotten'
  <2>1. /\ UNCHANGED <<busy, sent, inbox, told, logged, warned, moot, msg>>
        /\ \A q \in Senders \ {p} : pc'[q] = pc[q]
        /\ \/ UNCHANGED pending /\ pc'[p] = "post"
           \/ pending' = Append(pending, msg[p])
    BY <1>0, <1>4 DEF Control!Post
  <2>2. ASSUME pending' = Append(pending, msg[p]) PROVE InQueue(msg[p])' /\ \A m : InQueue(m) => InQueue(m)'
    <3>1. /\ Len(pending') = Len(pending) + 1 /\ Len(pending) \in Nat /\ pending'[Len(pending) + 1] = msg[p]
          /\ \A i \in 1..Len(pending) : pending'[i] = pending[i]
      BY <1>0, <2>2
    <3>2. QED
      BY <2>1, <3>1
  <2>3. QED
    BY <2>1, <2>2
<1>5. ASSUME NEW p \in Senders, Control!Interrupt(p) PROVE NoneForgotten'
  <2>1. /\ UNCHANGED <<busy, sent, inbox, told, logged, warned>> /\ pc[p] = "idle"
        /\ \A q \in Senders \ {p} : pc'[q] = pc[q] /\ msg'[q] = msg[q]
        /\ moot' = moot \cup Control!ToSet(pending)
    BY <1>0, <1>5 DEF Control!Interrupt
  <2>2. \A m : InQueue(m) => m \in moot'
    BY <1>0, <2>1 DEF Control!ToSet
  <2>3. QED
    BY <2>1, <2>2
<1>6. ASSUME NEW p \in Control!Threads, Control!Posting(p) PROVE NoneForgotten'
  <2>1. /\ UNCHANGED <<busy, sent, pending, warned, moot, msg>>
        /\ \A q \in Control!Threads \ {p} : pc'[q] = pc[q]
        /\ told \subseteq told' /\ logged \subseteq logged'
    BY <1>0, <1>6 DEF Control!Posting, Control!ReadTarget, Control!Delivered, Control!Refused, Control!Unavailable
  <2>2. /\ \A m : InBox(m) => InBox(m)'
        /\ Control!Delivered(p) => InBox(msg[p])'
    <3>1. CASE Control!Delivered(p)
      BY <3>1, Delivers
    <3>2. CASE ~Control!Delivered(p)
      BY <1>6, <3>2 DEF Control!Posting, Control!ReadTarget, Control!Refused
    <3>3. QED
      BY <3>1, <3>2
  <2>3. p \in Senders => pc'[p] = "call" \/ InBox(msg[p])' \/ msg[p] \in told' \cup {0}
    <3>1. CASE Control!Delivered(p)
      BY <2>2, <3>1
    <3>2. CASE ~Control!Delivered(p)
      BY <1>0, <1>6, <3>2 DEF Control!Posting, Control!ReadTarget, Control!Refused, Control!Unavailable
    <3>3. QED
      BY <3>1, <3>2
  <2>4. ASSUME busy, NEW m \in 1..Len(sent) PROVE Somewhere(m)'
    <3>1. Somewhere(m)
      BY <2>4
    <3>2. CASE \E q \in Senders : pc[q] # "idle" /\ msg[q] = m
      <4>1. PICK q \in Senders : pc[q] # "idle" /\ msg[q] = m
        BY <3>2
      <4>2. CASE q = p
        <5>1. pc'[p] = "call" \/ InBox(m)' \/ m \in told'
          BY <2>1, <2>3, <4>1, <4>2
        <5>2. CASE pc'[p] = "call"
          <6>1. p \in Senders /\ pc'[p] # "idle" /\ msg'[p] = m
            BY <2>1, <4>1, <4>2, <5>2
          <6>2. QED
            BY <6>1
        <5>3. QED
          BY <5>1, <5>2
      <4>3. CASE q # p
        BY <1>0, <2>1, <4>1, <4>3
      <4>4. QED
        BY <4>2, <4>3
    <3>3. CASE InBox(m)
      BY <2>2, <3>3
    <3>4. CASE InQueue(m) \/ m \in told \cup logged \cup warned \cup moot
      BY <2>1, <3>4
    <3>5. QED
      BY <3>1, <3>2, <3>3, <3>4
  <2>5. QED
    BY <2>1, <2>4
<1>7. ASSUME NEW f \in Flushers, Control!Flushing(f) PROVE NoneForgotten'
  <2>1. /\ UNCHANGED <<busy, sent, inbox, told, logged, warned, moot>>
        /\ \A p \in Senders : pc'[p] = pc[p] /\ msg'[p] = msg[p]
        /\ UNCHANGED pending \/ (pc[f] = "pop" /\ pending # <<>> /\ pending' = Tail(pending))
    BY <1>0, <1>7 DEF Control!Flushing, Control!TakeHead, Control!FlushEnds, Control!PopHead, Control!PopEmpty
  <2>2. CASE UNCHANGED pending
    BY <2>1, <2>2
  <2>3. CASE pc[f] = "pop" /\ pending # <<>> /\ pending' = Tail(pending)
    <3>1. busy => pending[1] = msg[f] /\ (InBox(msg[f]) \/ msg[f] \in logged)
      BY <2>3 DEF HeadIsPosted, Flies
    <3>2. /\ Len(pending) \in Nat \ {0} /\ Len(pending') = Len(pending) - 1
          /\ \A i \in 1..Len(pending') : pending'[i] = pending[i + 1]
      BY <1>0, <2>3
    <3>3. \A i \in 1..Len(pending) : i # 1 => i - 1 \in 1..Len(pending') /\ pending'[i - 1] = pending[i]
      BY <3>2
    <3>4. ASSUME NEW m, InQueue(m), m # pending[1] PROVE InQueue(m)'
      BY <3>3, <3>4
    <3>5. ASSUME busy, NEW m, Somewhere(m) PROVE Somewhere(m)'
      <4>1. CASE InQueue(m) /\ m = pending[1]
        BY <2>1, <3>1, <3>5, <4>1
      <4>2. CASE InQueue(m) /\ m # pending[1]
        <5>1. InQueue(m)'
          BY <3>4, <4>2
        <5>2. QED
          BY <5>1
      <4>3. CASE InBox(m) \/ m \in told \cup logged \cup warned \cup moot
        BY <2>1, <4>3
      <4>4. CASE \E p \in Senders : pc[p] # "idle" /\ msg[p] = m
        BY <2>1, <4>4
      <4>5. QED
        BY <3>5, <4>1, <4>2, <4>3, <4>4 DEF Somewhere
    <3> HIDE DEF Somewhere
    <3>6. busy' = busy /\ sent' = sent
      BY <2>1
    <3>7. QED
      BY <3>5, <3>6
  <2>4. QED
    BY <2>1, <2>2, <2>3
<1>8. CASE UNCHANGED Control!vars
  BY <1>8 DEF Control!vars
<1>9. QED
  BY <1>1, <1>2, <1>3, <1>4, <1>5, <1>6, <1>7, <1>8 DEF Control!Next, Control!Sending

LEMMA KeepsInit == QueueTurns = 1 /\ Init => KeepsInv
<1> SUFFICES ASSUME QueueTurns = 1, Init PROVE KeepsInv
  OBVIOUS
<1>1. Control!Init /\ 0 \in Nat /\ <<>> \in Seq(Nat)
  BY DEF Init
<1>2. ControlTypes
  BY <1>1 DEF Control!Init, ControlTypes
<1>3. OneFlush
  BY <1>1, ControlConstants DEF Control!Init, OneFlush
<1>4. HeadIsPosted /\ NoneForgotten
  BY <1>1 DEF Control!Init, HeadIsPosted, NoneForgotten
<1>5. QED
  BY <1>2, <1>3, <1>4 DEF KeepsInv

LEMMA KeepsStep == QueueTurns = 1 /\ KeepsInv /\ [Control!Next]_(Control!vars) => KeepsInv'
<1> SUFFICES ASSUME QueueTurns = 1, KeepsInv, [Control!Next]_(Control!vars) PROVE KeepsInv'
  OBVIOUS
<1>1. ControlTypes' /\ OneFlush'
  BY ControlTypesStep, OneFlushStep DEF KeepsInv
<1>2. HeadIsPosted' /\ NoneForgotten'
  BY <1>1, HeadIsPostedStep, NoneForgottenStep DEF KeepsInv
<1>3. QED
  BY <1>1, <1>2 DEF KeepsInv

\* While the one turn runs no message is forgotten (Control!NoneLost),
\* whoever sends, interrupts and flushes, and whichever call fails.
THEOREM NoMessageIsLost == QueueTurns = 1 => (Spec => [](part = "control" => Control!NoneLost))
<1> SUFFICES ASSUME QueueTurns = 1 PROVE Spec => [](part = "control" => Control!NoneLost)
  OBVIOUS
<1> DEFINE I == part = "control" => KeepsInv
<1>1. Init => I
  BY KeepsInit
<1>2. I /\ [Next]_vars => I'
  <2>1. SUFFICES ASSUME I, [Next]_vars PROVE I'
    OBVIOUS
  <2>2. part' = part
    BY <2>1 DEF Next, vars
  <2>3. QED
    BY <2>1, <2>2, ControlMoves, KeepsStep
<1>3. I => (part = "control" => Control!NoneLost)
  <2>1. SUFFICES ASSUME KeepsInv PROVE Control!NoneLost
    OBVIOUS
  <2>2. Control!Turns = {1} /\ 1 \in Control!Turns /\ pending \in Seq(Nat) /\ inbox[1] \in Seq(Nat) /\ sent \in Seq(Nat)
    BY <2>1, ControlConstants DEF KeepsInv, ControlTypes
  <2>3. ASSUME busy, NEW m \in Control!Messages
        PROVE  Control!InHand(m) \/ Control!Taken(m) \/ m \in told \cup logged \cup warned \cup moot
    <3>1. Somewhere(m)
      BY <2>1, <2>2, <2>3 DEF KeepsInv, NoneForgotten, Control!Messages
    <3>2. InQueue(m) => m \in Control!ToSet(pending)
      BY <2>2 DEF InQueue, Control!ToSet
    <3>3. InBox(m) => m \in Control!ToSet(inbox[1])
      BY <2>2 DEF InBox, Control!ToSet
    <3>4. QED
      BY <2>2, <3>1, <3>2, <3>3 DEF Somewhere, Control!InHand, Control!Taken
  <2>4. QED
    BY <2>3 DEF Control!NoneLost
<1>4. QED
  BY <1>1, <1>2, <1>3, PTL DEF Spec

\* One sender, one turn and no interrupt.
OneByOne == QueueTurns = 1 /\ MaxStops = 0 /\ \A p, q \in Senders : p = q

\* A sender posts only when no flusher does.
OnePosts ==
    /\ ~ready => \A p \in Senders : pc[p] \notin {"post", "call"}
    /\ \A p \in Senders : pc[p] \in {"post", "call"} => ~flushing /\ \A f \in Flushers : pc[f] = "idle"
    /\ sandbox # 0 /\ ready /\ ~flushing => \A f \in Flushers : pc[f] = "idle"

\* What is in a sender's hands is the last message.
Before(m) ==
    /\ \A i \in 1..Len(pending) : pending[i] < m
    /\ \A i \in 1..Len(inbox[1]) : inbox[1][i] < m
    /\ \A f \in Flushers : Flies(f) => msg[f] < m
LastInHand ==
    /\ Before(Len(sent) + 1)
    /\ \A p \in Senders : pc[p] # "idle" => msg[p] = Len(sent) /\ Before(msg[p])

\* What the worker took comes before what is posted, and that before what waits.
Ordered ==
    /\ \A i, j \in 1..Len(inbox[1]) : i < j => inbox[1][i] < inbox[1][j]
    /\ busy => \A i, j \in 1..Len(pending) : i < j => pending[i] < pending[j]
    /\ busy => \A i \in 1..Len(inbox[1]) : \A j \in 1..Len(pending) :
                 inbox[1][i] < pending[j] \/ (j = 1 /\ \E f \in Flushers : pc[f] = "pop")
    /\ \A f \in Flushers : pc[f] = "call" \/ (busy /\ pc[f] = "post") =>
         \A i \in 1..Len(inbox[1]) : inbox[1][i] < msg[f]
OrderInv == KeepsInv /\ stops = 0 /\ OnePosts /\ LastInHand /\ Ordered

LEMMA OnePostsStep ==
    ASSUME OneByOne, ControlTypes, OneFlush, HeadIsPosted, stops = 0, OnePosts, [Control!Next]_(Control!vars)
    PROVE  stops' = 0 /\ OnePosts'
<1> USE DEF OnePosts, Control!Goto
<1>0. /\ Senders \cap Flushers = {} /\ Control!Threads = Senders \cup Flushers /\ Control!Turns = {1}
      /\ pc \in [Control!Threads -> {"idle", "send", "post", "call", "pop", "top"}]
      /\ QueueTurns = 1
  BY ControlConstants DEF OneByOne, OneFlush
<1>1. CASE Control!Submit \/ Control!Dispatched \/ Control!Observe \/ Control!Complete
  <2>1. CASE Control!Submit
    <3>1. ~busy /\ turn < 1 /\ UNCHANGED <<stops, pc>> /\ ready' = FALSE /\ flushing' = FALSE
      BY <1>0, <2>1 DEF Control!Submit, Control!Drop
    <3>2. ~ready
      BY <3>1 DEF OneFlush
    <3>3. QED
      BY <3>1, <3>2
  <2>2. CASE Control!Dispatched
    <3>1. busy /\ sandbox = 0 /\ UNCHANGED <<stops, pc, ready, flushing>>
      BY <2>2 DEF Control!Dispatched
    <3>2. ~ready
      BY <3>1 DEF OneFlush
    <3>3. QED
      BY <3>1, <3>2
  <2>3. CASE Control!Observe
    <3>1. /\ ~ready /\ ready' = TRUE /\ UNCHANGED stops
          /\ \A p \in Senders : pc'[p] = pc[p]
          /\ (UNCHANGED pc /\ UNCHANGED flushing) \/ flushing' = TRUE
      BY <1>0, <2>3 DEF Control!Observe
    <3>2. \A f \in Flushers : pc[f] = "idle"
      BY <3>1 DEF OneFlush
    <3>3. QED
      BY <3>1, <3>2
  <2>4. CASE Control!Complete
    BY <2>4 DEF Control!Complete, Control!Drop
  <2>5. QED
    BY <1>1, <2>1, <2>2, <2>3, <2>4
<1>2. ASSUME NEW t \in Control!Turns, Control!Announce(t) \/ Control!WorkerEnds(t) PROVE stops' = 0 /\ OnePosts'
  BY <1>2 DEF Control!Announce, Control!WorkerEnds
<1>3. ASSUME NEW p \in Senders, Control!Sending(p) PROVE stops' = 0 /\ OnePosts'
  <2>1. ~Control!Interrupt(p)
    BY DEF Control!Interrupt, OneByOne
  <2>2. /\ UNCHANGED <<stops, ready, flushing, sandbox>>
        /\ pc' = [pc EXCEPT ![p] = "send"] \/ pc' = [pc EXCEPT ![p] = "idle"]
           \/ (pc' = [pc EXCEPT ![p] = "post"] /\ ready /\ sandbox # 0 /\ ~flushing)
    BY <1>3, <2>1 DEF Control!Sending, Control!Send, Control!Post
  <2>3. QED
    BY <1>0, <2>2
<1>4. ASSUME NEW p \in Control!Threads, Control!Posting(p) PROVE stops' = 0 /\ OnePosts'
  <2>1. /\ UNCHANGED <<stops, ready, flushing, sandbox>> /\ pc[p] \in {"post", "call"}
        /\ pc' = [pc EXCEPT ![p] = Control!After(p)] \/ pc' = [pc EXCEPT ![p] = "call"]
    BY <1>4 DEF Control!Posting, Control!ReadTarget, Control!Delivered, Control!Refused
  <2>2. Control!After(p) \in {"pop", "idle"}
    BY DEF Control!After
  <2>3. QED
    BY <1>0, <2>1, <2>2
<1>5. ASSUME NEW f \in Flushers, Control!Flushing(f) PROVE stops' = 0 /\ OnePosts'
  <2>1. /\ UNCHANGED <<stops, ready, sandbox>> /\ pc[f] # "idle"
        /\ \E w \in {"post", "idle", "top"} : pc' = [pc EXCEPT ![f] = w] /\ (UNCHANGED flushing \/ (w = "idle" /\ flushing' = FALSE))
    BY <1>5 DEF Control!Flushing, Control!TakeHead, Control!FlushEnds, Control!PopHead, Control!PopEmpty
  <2>2. \A g \in Flushers \ {f} : pc[g] = "idle"
    BY <2>1 DEF OneFlush
  <2>3. QED
    BY <1>0, <2>1, <2>2
<1>6. CASE UNCHANGED Control!vars
  BY <1>6 DEF Control!vars
<1>7. QED
  BY <1>1, <1>2, <1>3, <1>4, <1>5, <1>6 DEF Control!Next

LEMMA LastInHandStep ==
    ASSUME OneByOne, ControlTypes, ControlTypes', OneFlush, stops = 0, LastInHand, [Control!Next]_(Control!vars)
    PROVE  LastInHand'
<1> USE DEF LastInHand, Before, Flies, Control!Goto
<1>0. /\ Senders \cap Flushers = {} /\ Control!Threads = Senders \cup Flushers /\ Control!Turns = {1}
      /\ pending \in Seq(Nat) /\ inbox[1] \in Seq(Nat) /\ sent \in Seq(Nat) /\ Len(sent) \in Nat
      /\ pc \in [Control!Threads -> {"idle", "send", "post", "call", "pop", "top"}]
      /\ msg \in [Control!Threads -> Nat] /\ QueueTurns = 1 /\ (\A p, q \in Senders : p = q)
  BY ControlConstants DEF OneByOne, OneFlush, ControlTypes
<1>1. CASE Control!Submit \/ Control!Dispatched \/ Control!Complete
  <2>1. /\ UNCHANGED <<pc, msg, inbox, sent>> /\ (UNCHANGED pending \/ pending' = <<>>)
    BY <1>1 DEF Control!Submit, Control!Dispatched, Control!Complete, Control!Drop
  <2>2. QED
    BY <2>1
<1>2. CASE Control!Observe
  <2>1. /\ UNCHANGED <<pending, msg, inbox, sent>>
        /\ \A p \in Control!Threads : pc'[p] = pc[p] \/ (p \in Flushers /\ pc'[p] = "top")
    BY <1>0, <1>2 DEF Control!Observe
  <2>2. QED
    BY <1>0, <2>1
<1>3. ASSUME NEW t \in Control!Turns, Control!Announce(t) \/ Control!WorkerEnds(t) PROVE LastInHand'
  <2>1. UNCHANGED <<pc, msg, inbox, sent, pending>>
    BY <1>3 DEF Control!Announce, Control!WorkerEnds
  <2>2. QED
    BY <2>1
<1>4. ASSUME NEW p \in Senders, Control!Send(p) PROVE LastInHand'
  <2>1. /\ UNCHANGED <<pending, inbox>> /\ Len(sent') = Len(sent) + 1 /\ msg'[p] = Len(sent')
        /\ \A f \in Flushers : pc'[f] = pc[f] /\ msg'[f] = msg[f]
    BY <1>0, <1>4 DEF Control!Send
  <2>2. Before(Len(sent))'
    BY <2>1
  <2>3. Before(Len(sent) + 1)'
    <3>1. /\ \A i \in 1..Len(pending) : pending[i] \in Nat
          /\ \A i \in 1..Len(inbox[1]) : inbox[1][i] \in Nat
          /\ \A f \in Flushers : msg[f] \in Nat
      BY <1>0
    <3>2. \A x \in Nat : x < Len(sent) + 1 => x < Len(sent') + 1
      BY <1>0, <2>1
    <3>3. QED
      BY <2>1, <3>1, <3>2
  <2>4. \A q \in Senders : q = p
    BY <1>0
  <2>5. QED
    BY <2>1, <2>2, <2>3, <2>4
<1>5. ASSUME NEW p \in Senders, Control!Post(p) PROVE LastInHand'
  <2>1. /\ UNCHANGED <<sent, inbox, msg>> /\ pc[p] # "idle" /\ \A f \in Flushers : pc'[f] = pc[f]
        /\ (UNCHANGED pending) \/ (pc'[p] = "idle" /\ pending' = Append(pending, msg[p]))
    BY <1>0, <1>5 DEF Control!Post
  <2>2. msg[p] = Len(sent) /\ Before(msg[p])
    BY <2>1
  <2>3. CASE UNCHANGED pending
    BY <1>0, <2>1, <2>2, <2>3
  <2>4. CASE pc'[p] = "idle" /\ pending' = Append(pending, msg[p])
    <3>1. \A i \in 1..Len(pending') : pending'[i] = msg[p] \/ (i \in 1..Len(pending) /\ pending'[i] = pending[i])
      BY <1>0, <2>4
    <3>2. QED
      BY <1>0, <2>1, <2>2, <2>4, <3>1
  <2>5. QED
    BY <2>1, <2>3, <2>4
<1>6. ASSUME NEW p \in Senders, Control!Interrupt(p) PROVE LastInHand'
  BY <1>6 DEF Control!Interrupt, OneByOne
<1>7. ASSUME NEW p \in Control!Threads, Control!Posting(p) PROVE LastInHand'
  <2>1. /\ UNCHANGED <<pending, msg, sent>> /\ pc[p] \in {"post", "call"}
        /\ \A q \in Control!Threads \ {p} : pc'[q] = pc[q]
    BY <1>0, <1>7 DEF Control!Posting, Control!ReadTarget, Control!Delivered, Control!Refused
  <2>2. CASE UNCHANGED inbox
    <3>1. \A f \in Flushers : Flies(f)' => Flies(f)
      BY <1>0, <2>1
    <3>2. \A q \in Senders : pc'[q] # "idle" => pc[q] # "idle"
      BY <1>0, <2>1
    <3>3. QED
      BY <2>1, <2>2, <3>1, <3>2
  <2>3. CASE Control!Delivered(p)
    <3>1. \A i \in 1..Len(inbox'[1]) : inbox'[1][i] = msg[p] \/ (i \in 1..Len(inbox[1]) /\ inbox'[1][i] = inbox[1][i])
      <4>1. CASE UNCHANGED inbox
        BY <4>1
      <4>2. CASE inbox'[1] = Append(inbox[1], msg[p])
        BY <1>0, <4>2
      <4>3. QED
        BY <1>0, <2>3, <4>1, <4>2, Delivers
    <3>2. CASE p \in Senders
      <4>1. pc'[p] = "idle" /\ msg[p] = Len(sent)
        BY <1>0, <2>1, <2>3, <3>2 DEF Control!Delivered, Control!After
      <4>2. QED
        <5>1. /\ \A i \in 1..Len(inbox[1]) : inbox[1][i] < Len(sent) + 1
              /\ \A q \in Senders : q = p
          BY <1>0, <3>2
        <5>2. msg[p] < Len(sent) + 1
          BY <1>0, <4>1
        <5>3. \A f \in Flushers : Flies(f)' => Flies(f)
          BY <1>0, <2>1, <3>2
        <5>4. QED
          BY <2>1, <3>1, <4>1, <5>1, <5>2, <5>3
    <3>3. CASE p \in Flushers
      <4>1. pc'[p] = "pop"
        BY <1>0, <2>3, <3>3 DEF Control!Delivered, Control!After
      <4>2. QED
        <5>1. \A f \in Flushers : Flies(f)' => Flies(f)
          BY <1>0, <2>1, <3>3
        <5>2. \A q \in Senders : pc'[q] = pc[q]
          BY <1>0, <2>1, <3>3
        <5>3. Flies(p)
          BY <2>1
        <5>4. QED
          BY <2>1, <3>1, <3>3, <5>1, <5>2, <5>3
    <3>4. QED
      BY <1>0, <3>2, <3>3
  <2>4. QED
    BY <1>7, <2>2, <2>3 DEF Control!Posting, Control!ReadTarget, Control!Refused
<1>8. ASSUME NEW f \in Flushers, Control!Flushing(f) PROVE LastInHand'
  <2>1. /\ UNCHANGED <<inbox, sent>> /\ \A p \in Control!Threads \ {f} : pc'[p] = pc[p] /\ msg'[p] = msg[p]
    BY <1>0, <1>8 DEF Control!Flushing, Control!TakeHead, Control!FlushEnds, Control!PopHead, Control!PopEmpty
  <2>2. CASE Control!TakeHead(f)
    <3>1. UNCHANGED pending /\ msg'[f] = pending[1] /\ 1 \in 1..Len(pending)
      BY <1>0, <2>2 DEF Control!TakeHead
    <3>2. QED
      BY <1>0, <2>1, <3>1
  <2>3. CASE ~Control!TakeHead(f)
    <3>1. /\ ~Flies(f)'
          /\ UNCHANGED pending \/ (pending # <<>> /\ pending' = Tail(pending))
      BY <1>0, <1>8, <2>3 DEF Control!Flushing, Control!FlushEnds, Control!PopHead, Control!PopEmpty
    <3>2. \A i \in 1..Len(pending') : \E j \in 1..Len(pending) : pending'[i] = pending[j]
      <4>1. CASE pending # <<>> /\ pending' = Tail(pending)
        <5>1. Len(pending') = Len(pending) - 1 /\ \A i \in 1..Len(pending') : pending'[i] = pending[i + 1]
          BY <1>0, <4>1
        <5>2. \A i \in 1..Len(pending') : i + 1 \in 1..Len(pending)
          BY <1>0, <5>1
        <5>3. QED
          BY <5>1, <5>2
      <4>2. QED
        BY <3>1, <4>1
    <3>3. ASSUME NEW m, Before(m) PROVE Before(m)'
      <4>1. \A g \in Flushers : Flies(g)' => Flies(g) /\ msg'[g] = msg[g]
        BY <1>0, <2>1, <3>1
      <4>2. \A i \in 1..Len(pending') : pending'[i] < m
        BY <3>2, <3>3
      <4>3. QED
        BY <2>1, <3>3, <4>1, <4>2
    <3>4. \A q \in Senders : pc'[q] = pc[q] /\ msg'[q] = msg[q]
      BY <1>0, <2>1
    <3> HIDE DEF Before
    <3>5. QED
      BY <2>1, <3>3, <3>4
  <2>4. QED
    BY <2>2, <2>3
<1>9. CASE UNCHANGED Control!vars
  BY <1>9 DEF Control!vars
<1>10. QED
  BY <1>1, <1>2, <1>3, <1>4, <1>5, <1>6, <1>7, <1>8, <1>9 DEF Control!Next, Control!Sending

LEMMA OrderedStep ==
    ASSUME OneByOne, ControlTypes, OneFlush, OneFlush', HeadIsPosted, OnePosts, LastInHand, Ordered,
           [Control!Next]_(Control!vars)
    PROVE  Ordered'
<1> USE DEF Ordered, Control!Goto
<1>0. /\ Senders \cap Flushers = {} /\ Control!Threads = Senders \cup Flushers /\ Control!Turns = {1}
      /\ pending \in Seq(Nat) /\ inbox[1] \in Seq(Nat)
      /\ pc \in [Control!Threads -> {"idle", "send", "post", "call", "pop", "top"}]
      /\ msg \in [Control!Threads -> Nat] /\ QueueTurns = 1
  BY ControlConstants DEF OneByOne, OneFlush, ControlTypes
<1>1. CASE Control!Submit \/ Control!Dispatched \/ Control!Complete
  <2>1. CASE Control!Submit
    <3>1. ~busy /\ turn < 1 /\ pending' = <<>> /\ UNCHANGED <<pc, inbox>>
      BY <1>0, <2>1 DEF Control!Submit, Control!Drop
    <3>2. \A f \in Flushers : pc[f] = "idle"
      BY <3>1 DEF OneFlush
    <3>3. QED
      BY <3>1, <3>2
  <2>2. CASE Control!Dispatched
    BY <2>2 DEF Control!Dispatched
  <2>3. CASE Control!Complete
    BY <2>3 DEF Control!Complete
  <2>4. QED
    BY <1>1, <2>1, <2>2, <2>3
<1>2. CASE Control!Observe
  <2>1. UNCHANGED <<busy, pending, msg, inbox>> /\ ~ready
    BY <1>2 DEF Control!Observe
  <2>2. \A f \in Flushers : pc[f] = "idle"
    BY <2>1 DEF OneFlush
  <2>3. \A f \in Flushers : pc'[f] = "top" \/ pc'[f] = pc[f]
    BY <1>0, <1>2 DEF Control!Observe
  <2>4. QED
    BY <2>1, <2>2, <2>3
<1>3. ASSUME NEW t \in Control!Turns, Control!Announce(t) \/ Control!WorkerEnds(t) PROVE Ordered'
  <2>1. UNCHANGED <<busy, pc, msg, inbox, pending>>
    BY <1>3 DEF Control!Announce, Control!WorkerEnds
  <2>2. QED
    BY <2>1
<1>4. ASSUME NEW p \in Senders, Control!Send(p) PROVE Ordered'
  <2>1. /\ UNCHANGED <<busy, pending, inbox>> /\ \A f \in Flushers : pc'[f] = pc[f] /\ msg'[f] = msg[f]
    BY <1>0, <1>4 DEF Control!Send
  <2>2. QED
    BY <2>1
<1>5. ASSUME NEW p \in Senders, Control!Post(p) PROVE Ordered'
  <2>1. /\ UNCHANGED <<busy, inbox, msg>> /\ pc[p] # "idle" /\ \A f \in Flushers : pc'[f] = pc[f]
        /\ UNCHANGED pending \/ pending' = Append(pending, msg[p])
    BY <1>0, <1>5 DEF Control!Post
  <2>2. CASE pending' = Append(pending, msg[p])
    <3>1. /\ \A i \in 1..Len(pending) : pending[i] < msg[p]
          /\ \A i \in 1..Len(inbox[1]) : inbox[1][i] < msg[p]
      BY <2>1 DEF LastInHand, Before
    <3>2. /\ Len(pending) \in Nat /\ Len(pending') = Len(pending) + 1 /\ pending'[Len(pending) + 1] = msg[p]
          /\ \A i \in 1..Len(pending) : pending'[i] = pending[i]
      BY <1>0, <2>2
    <3>3. busy => \A i, j \in 1..Len(pending') : i < j => pending'[i] < pending'[j]
      <4>1. ASSUME busy, NEW i \in 1..Len(pending'), NEW j \in 1..Len(pending'), i < j PROVE pending'[i] < pending'[j]
        <5>1. i \in 1..Len(pending) /\ (j = Len(pending) + 1 \/ j \in 1..Len(pending))
          BY <3>2, <4>1
        <5>2. QED
          BY <3>1, <3>2, <4>1, <5>1
      <4>2. QED
        BY <4>1
    <3>4. busy => \A i \in 1..Len(inbox[1]) : \A j \in 1..Len(pending') :
                     inbox[1][i] < pending'[j] \/ (j = 1 /\ \E f \in Flushers : pc[f] = "pop")
      <4>1. \A j \in 1..Len(pending') : j = Len(pending) + 1 \/ j \in 1..Len(pending)
        BY <3>2
      <4>2. QED
        BY <3>1, <3>2, <4>1
    <3>5. QED
      BY <2>1, <3>3, <3>4
  <2>3. QED
    BY <2>1, <2>2
<1>6. ASSUME NEW p \in Senders, Control!Interrupt(p) PROVE Ordered'
  <2>1. /\ UNCHANGED <<busy, inbox>> /\ pending' = <<>>
        /\ \A f \in Flushers : pc'[f] = pc[f] /\ msg'[f] = msg[f]
    BY <1>0, <1>6 DEF Control!Interrupt, Control!Drop
  <2>2. QED
    BY <2>1
<1>7. ASSUME NEW p \in Control!Threads, Control!Posting(p) PROVE Ordered'
  <2>1. /\ UNCHANGED <<busy, pending, msg>> /\ pc[p] \in {"post", "call"}
        /\ \A f \in Control!Threads \ {p} : pc'[f] = pc[f]
        /\ pc'[p] = "call" => pc[p] = "post" /\ sandbox # 0
        /\ pc'[p] \in {"call", Control!After(p)}
    BY <1>0, <1>7 DEF Control!Posting, Control!ReadTarget, Control!Delivered, Control!Refused, Control!After
  <2>2. /\ p \in Flushers => Control!After(p) = "pop"
        /\ (sandbox # 0 => busy)
        /\ \A f \in Flushers : f # p => pc[f] = "idle"
    <3>1. p \in Flushers => \A f \in Flushers : f # p => pc[f] = "idle"
      BY <2>1 DEF OneFlush
    <3>2. p \in Senders => \A f \in Flushers : pc[f] = "idle"
      BY <2>1 DEF OnePosts
    <3>3. QED
      BY <1>0, <3>1, <3>2 DEF OneFlush, Control!After
  <2>3. CASE UNCHANGED inbox
    <3>1. \A f \in Flushers : pc[f] = "pop" => pc'[f] = "pop"
      BY <1>0, <2>1
    <3>2. \A f \in Flushers : pc'[f] = "call" \/ (busy /\ pc'[f] = "post") =>
             pc[f] = "call" \/ (busy /\ pc[f] = "post")
      BY <1>0, <2>1, <2>2
    <3>3. QED
      BY <2>1, <2>3, <3>1, <3>2
  <2>4. CASE inbox'[1] = Append(inbox[1], msg[p]) /\ pc[p] = "call" /\ pc'[p] = Control!After(p)
    <3>1. /\ Len(inbox[1]) \in Nat /\ Len(inbox'[1]) = Len(inbox[1]) + 1 /\ inbox'[1][Len(inbox[1]) + 1] = msg[p]
          /\ \A i \in 1..Len(inbox[1]) : inbox'[1][i] = inbox[1][i]
      BY <1>0, <2>4
    <3>2. \A i \in 1..Len(inbox[1]) : inbox[1][i] < msg[p]
      <4>1. CASE p \in Senders
        BY <2>4, <4>1 DEF LastInHand, Before
      <4>2. CASE p \in Flushers
        BY <2>4, <4>2
      <4>3. QED
        BY <1>0, <4>1, <4>2
    <3>3. \A i \in 1..Len(inbox'[1]) : i = Len(inbox[1]) + 1 \/ i \in 1..Len(inbox[1])
      BY <3>1
    <3>4. \A i, j \in 1..Len(inbox'[1]) : i < j => inbox'[1][i] < inbox'[1][j]
      <4>1. ASSUME NEW i \in 1..Len(inbox'[1]), NEW j \in 1..Len(inbox'[1]), i < j PROVE inbox'[1][i] < inbox'[1][j]
        <5>1. i \in 1..Len(inbox[1]) /\ (j = Len(inbox[1]) + 1 \/ j \in 1..Len(inbox[1]))
          BY <3>1, <4>1
        <5>2. QED
          BY <3>1, <3>2, <4>1, <5>1
      <4>2. QED
        BY <4>1
    <3>5. \A f \in Flushers : pc'[f] \notin {"post", "call"}
      BY <1>0, <2>1, <2>2, <2>4
    <3>6. ASSUME busy, NEW i \in 1..Len(inbox'[1]), NEW j \in 1..Len(pending)
          PROVE  inbox'[1][i] < pending[j] \/ (j = 1 /\ \E f \in Flushers : pc'[f] = "pop")
      <4>1. CASE p \in Senders
        <5>1. ~flushing /\ ready
          BY <2>1, <4>1 DEF OnePosts
        <5>2. pending = <<>>
          BY <3>6, <5>1 DEF OneFlush
        <5>3. QED
          BY <5>2
      <4>2. CASE p \in Flushers
        <5>1. pc'[p] = "pop" /\ \A f \in Flushers : pc[f] # "pop"
          BY <2>1, <2>2, <2>4, <4>2
        <5>2. CASE j = 1
          BY <4>2, <5>1, <5>2
        <5>3. CASE j # 1
          <6>1. pending # <<>> /\ 1 \in 1..Len(pending) /\ 1 < j
            BY <1>0, <3>6, <5>3
          <6>2. pending[1] = msg[p]
            BY <2>1, <3>6, <4>2, <6>1 DEF HeadIsPosted, Flies
          <6>3. pending[1] < pending[j]
            BY <3>6, <6>1
          <6>4. CASE i = Len(inbox[1]) + 1
            BY <3>1, <6>2, <6>3, <6>4
          <6>5. CASE i \in 1..Len(inbox[1])
            BY <3>1, <3>6, <5>1, <6>5
          <6>6. QED
            BY <3>3, <6>4, <6>5
        <5>4. QED
          BY <5>2, <5>3
      <4>3. QED
        BY <1>0, <4>1, <4>2
    <3>7. QED
      BY <2>1, <3>4, <3>5, <3>6
  <2>5. QED
    <3>1. CASE Control!Delivered(p)
      <4>1. pc[p] = "call" /\ pc'[p] = Control!After(p)
        BY <1>0, <3>1 DEF Control!Delivered
      <4>2. QED
        BY <1>0, <2>3, <2>4, <3>1, <4>1, Delivers
    <3>2. QED
      BY <1>7, <2>3, <3>1 DEF Control!Posting, Control!ReadTarget, Control!Refused
<1>8. ASSUME NEW f \in Flushers, Control!Flushing(f) PROVE Ordered'
  <2>1. /\ UNCHANGED <<busy, inbox>> /\ \A g \in Flushers \ {f} : pc'[g] = pc[g] /\ msg'[g] = msg[g]
        /\ pc[f] # "idle" /\ pc'[f] # "call"
    BY <1>0, <1>8 DEF Control!Flushing, Control!TakeHead, Control!FlushEnds, Control!PopHead, Control!PopEmpty
  <2>2. \A g \in Flushers \ {f} : pc[g] = "idle"
    BY <2>1 DEF OneFlush
  <2>3. CASE Control!TakeHead(f)
    <3>1. UNCHANGED pending /\ msg'[f] = pending[1] /\ 1 \in 1..Len(pending) /\ pc[f] = "top"
      BY <1>0, <2>3 DEF Control!TakeHead
    <3>2. \A g \in Flushers : pc[g] # "pop"
      BY <2>2, <3>1
    <3>3. QED
      BY <2>1, <2>2, <3>1, <3>2
  <2>4. CASE Control!PopHead(f)
    <3>1. pc[f] = "pop" /\ pc'[f] = "top" /\ pending # <<>> /\ pending' = Tail(pending)
      BY <1>0, <2>4 DEF Control!PopHead
    <3>2. /\ Len(pending) \in Nat /\ Len(pending') = Len(pending) - 1
          /\ \A i \in 1..Len(pending') : pending'[i] = pending[i + 1]
      BY <1>0, <3>1
    <3>3. \A i \in 1..Len(pending') : i + 1 \in 1..Len(pending) /\ i + 1 # 1
      BY <3>2
    <3>4. \A i, j \in 1..Len(pending') : i < j => i + 1 < j + 1
      OBVIOUS
    <3>5. busy => \A i, j \in 1..Len(pending') : i < j => pending'[i] < pending'[j]
      BY <3>2, <3>3, <3>4
    <3>6. busy => \A i \in 1..Len(inbox[1]) : \A j \in 1..Len(pending') : inbox[1][i] < pending'[j]
      BY <3>2, <3>3
    <3>7. QED
      BY <2>1, <2>2, <3>1, <3>5, <3>6
  <2>5. CASE Control!FlushEnds(f) \/ Control!PopEmpty(f)
    <3>1. pending = <<>> /\ pending' = <<>> /\ pc'[f] = "idle"
      BY <1>0, <2>5 DEF Control!FlushEnds, Control!PopEmpty
    <3>2. QED
      BY <2>1, <3>1
  <2>6. QED
    BY <1>8, <2>3, <2>4, <2>5 DEF Control!Flushing
<1>9. CASE UNCHANGED Control!vars
  <2>1. UNCHANGED <<busy, pc, msg, inbox, pending>>
    BY <1>9 DEF Control!vars
  <2>2. QED
    BY <2>1
<1>10. QED
  BY <1>1, <1>2, <1>3, <1>4, <1>5, <1>6, <1>7, <1>8, <1>9 DEF Control!Next, Control!Sending

\* What one thread sends into a turn reaches the worker in that order,
\* queued or not (Control!InOrder), as long as nobody interrupts.
THEOREM MessagesKeepTheirOrder == OneByOne => (Spec => [](part = "control" => Control!InOrder))
<1> SUFFICES ASSUME OneByOne PROVE Spec => [](part = "control" => Control!InOrder)
  OBVIOUS
<1> DEFINE I == part = "control" => OrderInv
<1>0. QueueTurns = 1
  BY DEF OneByOne
<1>1. Init => I
  <2>1. SUFFICES ASSUME Init PROVE OrderInv
    OBVIOUS
  <2>2. Control!Init /\ Control!Turns = {1} /\ Control!Threads = Senders \cup Flushers
    BY <1>0, <2>1, ControlConstants DEF Init
  <2>3. /\ pc = [p \in Control!Threads |-> "idle"] /\ inbox[1] = <<>> /\ pending = <<>> /\ sent = <<>> /\ stops = 0
        /\ sandbox = 0
    BY <2>2 DEF Control!Init
  <2>4. Len(<<>>) = 0
    OBVIOUS
  <2>5. OnePosts /\ LastInHand /\ Ordered
    BY <2>2, <2>3, <2>4 DEF OnePosts, LastInHand, Before, Flies, Ordered
  <2>6. QED
    BY <1>0, <2>1, <2>3, <2>5, KeepsInit DEF OrderInv
<1>2. I /\ [Next]_vars => I'
  <2>1. SUFFICES ASSUME I, [Next]_vars PROVE I'
    OBVIOUS
  <2>2. part' = part
    BY <2>1 DEF Next, vars
  <2>3. SUFFICES ASSUME part = "control" PROVE OrderInv'
    BY <2>2
  <2>4. [Control!Next]_(Control!vars) /\ OrderInv
    BY <2>1, <2>3, ControlMoves
  <2>5. KeepsInv'
    BY <1>0, <2>4, KeepsStep DEF OrderInv
  <2>6. stops' = 0 /\ OnePosts' /\ LastInHand' /\ Ordered'
    BY <2>4, <2>5, OnePostsStep, LastInHandStep, OrderedStep DEF OrderInv, KeepsInv
  <2>7. QED
    BY <2>5, <2>6 DEF OrderInv
<1>3. I => (part = "control" => Control!InOrder)
  <2>1. SUFFICES ASSUME OrderInv PROVE Control!InOrder
    OBVIOUS
  <2>2. Control!Turns = {1} /\ inbox[1] \in Seq(Nat)
    BY <1>0, <2>1, ControlConstants DEF OrderInv, KeepsInv, ControlTypes
  <2>3. DOMAIN inbox[1] = 1..Len(inbox[1])
    BY <2>2
  <2>4. QED
    BY <2>1, <2>2, <2>3 DEF Control!InOrder, OrderInv, Ordered
<1>4. QED
  BY <1>1, <1>2, <1>3, PTL DEF Spec

-----------------------------------------------------------------------------
(* The local runtime: a session and its turns.                             *)

Emitted == {"ready", "user", "result", "error", "end"}

LocalTypes ==
    /\ cur \in 0..LocalRuns
    /\ task \in [Local!Runs -> {"none", "created", "running", "cancelling", "ended"}]
    /\ status \in [Local!Runs -> {"pending", "running", "idle"}]
    /\ harness \in [Local!Runs -> {"off", "prep", "model", "stopping", "ending", "after", "out"}]
    /\ DOMAIN first = Local!Runs /\ DOMAIN l_result = Local!Runs
    /\ l_inbox \in [Local!Runs -> Seq(Nat)]
    /\ l_sent \in Seq(Nat) /\ heard \in Seq(SUBSET Nat) /\ Len(heard) = Len(l_sent)
    /\ queue \in [Local!Runs -> Seq(Emitted)]

\* A run has a harness while its task has it in hand, and is done when that
\* ends; all turns but the last are done, and none is begun before its time.
RunsInTurn ==
    \A r \in Local!Runs :
        /\ task[r] \in {"none", "created"} => status[r] = "pending" /\ harness[r] = "off"
        /\ task[r] \in {"running", "cancelling"} => status[r] = "running"
        /\ task[r] = "ended" => status[r] = "idle" /\ harness[r] = "out"
        /\ r < cur => task[r] = "ended"
        /\ r > cur => task[r] = "none"

\* A message waits where it was sent.
WaitsWhereSent ==
    \A r \in Local!Runs : \A i \in DOMAIN l_inbox[r] :
        l_inbox[r][i] # 0 => l_inbox[r][i] \in DOMAIN l_sent /\ l_sent[l_inbox[r][i]] = r

\* The end of the stream comes last, when the task ends.
EndComesLast ==
    \A r \in Local!Runs : \A i \in DOMAIN queue[r] :
        queue[r][i] = "end" => i = Len(queue[r]) /\ task[r] = "ended"

LocalInv ==
    /\ LocalTypes /\ RunsInTurn /\ WaitsWhereSent /\ EndComesLast
    /\ Local!ResultIsKept /\ Local!SessionIsItsLastTurn /\ Local!HeardWhereSent

\* A reader takes the end only when it leaves.
EndIsThere ==
    /\ reads \in [Readers -> [run : 0..LocalRuns, past : SUBSET Nat]]
    /\ \A x \in Readers : reads[x].run # 0 => reads[x].run \in reads[x].past
    /\ \A x \in Readers : \A r \in Local!Runs :
         task[r] = "ended" /\ (r \notin reads[x].past \/ reads[x].run = r) =>
             queue[r] # <<>> /\ queue[r][Len(queue[r])] = "end"

\* A run is not cancelled before its task's first step, and has one reader.
OneReader == "early" \notin ReadingFaults /\ \A x, y \in Readers : x = y

\* What callers and readers do to the turns.
Sends ==
    /\ Local!Busy
    /\ l_sent' = Append(l_sent, cur) /\ heard' = Append(heard, {})
    /\ l_inbox' = [l_inbox EXCEPT ![cur] = Append(@, Len(l_sent) + 1)]
    /\ UNCHANGED <<cur, sess, task, status, harness, first, l_result, queue, reads>>

Stops ==
    /\ Local!Busy /\ Local!EnsureStarted(cur) /\ l_inbox' = [l_inbox EXCEPT ![cur] = Append(@, 0)]
    /\ UNCHANGED <<cur, sess, status, harness, first, l_result, queue, reads, l_sent, heard>>

Wakes ==
    /\ cur # 0 /\ Local!EnsureStarted(cur)
    /\ UNCHANGED <<cur, sess, status, harness, l_inbox, first, l_result, queue, l_sent, heard>>
    /\ \/ UNCHANGED reads
       \/ \E x \in Readers : /\ reads[x].run = 0 /\ cur \notin reads[x].past
                             /\ reads' = [reads EXCEPT ![x] = [run |-> cur, past |-> @.past \cup {cur}]]

Cancels ==
    /\ \/ UNCHANGED task
       \/ \E r \in Local!Runs : task[r] = "running" /\ task' = [task EXCEPT ![r] = "cancelling"]
    /\ UNCHANGED <<cur, sess, status, harness, l_inbox, first, l_result, queue, reads, l_sent, heard>>

LocalStep ==
    \/ \E c \in Callers \cup ReadingCallers : Local!StartTurn(c)
    \/ Sends \/ Stops \/ Wakes \/ Cancels
    \/ \E r \in Local!Runs : Local!Drives(r)
    \/ \E x \in Readers : Reading!Read(x)

LEMMA LocalConstants == LocalRuns \in Nat /\ Local!Runs = 1..LocalRuns
BY SessionAssumption DEF Local!LocalSessionAssumption, Local!Runs

\* Whether or not a reader looks on, and whoever cancels, those are the steps.
LEMMA CancelsTask ==
    ASSUME LocalTypes, NEW r, NEW why, Local!Cancel(r, why), r \in Local!Runs => task[r] # "created"
    PROVE  \/ UNCHANGED task
           \/ r \in Local!Runs /\ task[r] = "running" /\ task' = [task EXCEPT ![r] = "cancelling"]
<1>1. CASE r \in Local!Runs
  BY <1>1 DEF Local!Cancel, LocalTypes
<1>2. CASE r \notin Local!Runs
  BY <1>2 DEF Local!Cancel, LocalTypes
<1>3. QED
  BY <1>1, <1>2

LEMMA LocalSteps ==
    ASSUME LocalTypes, Local!Next
    PROVE  LocalStep
<1>1. ASSUME NEW c \in Callers, Local!Calls(c) PROVE LocalStep
  <2>1. CASE Local!StartTurn(c)
    BY <2>1 DEF LocalStep
  <2>2. CASE Local!SendIntoTurn(c)
    BY <2>2 DEF LocalStep, Sends, Local!SendIntoTurn
  <2>3. CASE Local!Interrupt(c)
    BY <2>3 DEF LocalStep, Stops, Local!Interrupt
  <2>4. CASE Local!GraceOver(c)
    BY <2>4, CancelsTask DEF LocalStep, Cancels, Local!GraceOver
  <2>5. CASE Local!Await(c)
    BY <2>5 DEF LocalStep, Wakes, Local!Await
  <2>6. CASE Local!Returns(c) \/ Local!InterrupterCancelled(c)
    BY <2>6 DEF LocalStep, Cancels, Local!Returns, Local!InterrupterCancelled, Local!run_
  <2>7. CASE Local!AwaiterCancelled(c)
    BY <2>7, CancelsTask DEF LocalStep, Cancels, Local!AwaiterCancelled, Local!Cancellable
  <2>8. QED
    BY <1>1, <2>1, <2>2, <2>3, <2>4, <2>5, <2>6, <2>7 DEF Local!Calls
<1>2. CASE Local!CancelRun
  BY <1>2, CancelsTask DEF LocalStep, Cancels, Local!CancelRun, Local!Cancellable
<1>3. QED
  BY <1>1, <1>2 DEF Local!Next, LocalStep

LEMMA ReadingSteps ==
    ASSUME OneReader, LocalTypes, Reading!Next
    PROVE  LocalStep
<1>0. /\ Reading!Runs = Local!Runs /\ (Reading!Busy <=> Local!Busy)
      /\ (Reading!EnsureStarted(cur) <=> Local!EnsureStarted(cur))
      /\ \A r, why : Reading!Cancel(r, why) => Local!Cancel(r, why)
  BY DEF Reading!Runs, Local!Runs, Reading!Busy, Local!Busy, Reading!Done, Local!Done,
         Reading!EnsureStarted, Local!EnsureStarted, Reading!Cancel, Local!Cancel
<1>1. ASSUME NEW c \in ReadingCallers, Reading!Calls(c) PROVE LocalStep
  <2>1. CASE Reading!StartTurn(c)
    BY <1>0, <2>1 DEF LocalStep, Reading!StartTurn, Local!StartTurn
  <2>2. CASE Reading!SendIntoTurn(c)
    BY <1>0, <2>2 DEF LocalStep, Sends, Reading!SendIntoTurn
  <2>3. CASE Reading!Interrupt(c)
    BY <1>0, <2>3 DEF LocalStep, Stops, Reading!Interrupt
  <2>4. CASE Reading!GraceOver(c)
    BY <1>0, <2>4, CancelsTask DEF LocalStep, Cancels, Reading!GraceOver
  <2>5. CASE Reading!Await(c)
    BY <1>0, <2>5 DEF LocalStep, Wakes, Reading!Await
  <2>6. CASE Reading!Returns(c) \/ Reading!InterrupterCancelled(c)
    BY <2>6 DEF LocalStep, Cancels, Reading!Returns, Reading!InterrupterCancelled, Reading!run_
  <2>7. CASE Reading!AwaiterCancelled(c)
    BY <1>0, <2>7, CancelsTask DEF LocalStep, Cancels, Reading!AwaiterCancelled, Reading!Cancellable, OneReader
  <2>8. QED
    BY <1>1, <2>1, <2>2, <2>3, <2>4, <2>5, <2>6, <2>7 DEF Reading!Calls
<1>2. CASE Reading!CancelRun
  BY <1>0, <1>2, CancelsTask DEF LocalStep, Cancels, Reading!CancelRun, Reading!Cancellable, OneReader
<1>3. ASSUME NEW r \in Reading!Runs, Reading!Drives(r) PROVE LocalStep
  <2>1. Local!Drives(r)
    BY <1>3
       DEF Reading!Drives, Local!Drives, Reading!FirstStep, Local!FirstStep, Reading!Prepared, Local!Prepared,
           Reading!TakesControl, Local!TakesControl, Reading!EndsTurn, Local!EndsTurn,
           Reading!YieldsResult, Local!YieldsResult, Reading!HarnessExhausted, Local!HarnessExhausted,
           Reading!HarnessDies, Local!HarnessDies, Reading!DriverCancelled, Local!DriverCancelled,
           Reading!Driven, Local!Driven, Reading!Emit, Local!Emit, Reading!Finalize, Local!Finalize,
           Reading!StopReasonFor, Local!StopReasonFor
  <2>2. QED
    BY <1>0, <2>1, SMTT(30) DEF LocalStep
<1>4. ASSUME NEW x \in Readers, Reading!Iterate(x) PROVE LocalStep
  BY <1>0, <1>4 DEF LocalStep, Wakes, Reading!Iterate
<1>5. QED
  BY <1>1, <1>2, <1>3, <1>4 DEF Reading!Next, LocalStep

\* What emitting an event does to the stream of a run whose task goes on.
LEMMA Emits ==
    ASSUME LocalTypes, NEW r \in Local!Runs, NEW e \in Emitted, Local!Emit(r, <<e>>)
    PROVE  /\ queue' \in [Local!Runs -> Seq(Emitted)] /\ queue' = [queue EXCEPT ![r] = Append(queue[r], e)]
           /\ EndComesLast /\ e # "end" /\ task[r] # "ended" /\ UNCHANGED task => EndComesLast'
<1>1. queue[r] \in Seq(Emitted) /\ queue[r] \o <<e>> = Append(queue[r], e) /\ Append(queue[r], e) \in Seq(Emitted)
  BY DEF LocalTypes
<1>2. queue' = [queue EXCEPT ![r] = Append(queue[r], e)]
  BY <1>1 DEF Local!Emit
<1>3. queue' \in [Local!Runs -> Seq(Emitted)]
  BY <1>1, <1>2 DEF LocalTypes
<1>4. ASSUME EndComesLast, e # "end", task[r] # "ended", UNCHANGED task PROVE EndComesLast'
  <2>1. \A i \in DOMAIN queue'[r] : queue'[r][i] # "end"
    <3>1. \A i \in DOMAIN queue[r] : queue[r][i] # "end"
      BY <1>4 DEF EndComesLast
    <3>2. queue'[r] = Append(queue[r], e)
      BY <1>2 DEF LocalTypes
    <3>3. QED
      BY <1>1, <1>4, <3>1, <3>2
  <2>2. \A s \in Local!Runs \ {r} : queue'[s] = queue[s]
    BY <1>2 DEF LocalTypes
  <2>3. QED
    BY <1>4, <2>1, <2>2 DEF EndComesLast
<1>5. QED
  BY <1>2, <1>3, <1>4

LEMMA NotEmpty ==
    ASSUME NEW s, Len(s) \in Nat, Len(s) > 0
    PROVE  s # <<>>
<1>1. Len(<<>>) = 0
  OBVIOUS
<1>2. Len(s) # 0
  OBVIOUS
<1>3. ASSUME s = <<>> PROVE FALSE
  <2>1. Len(s) = Len(<<>>)
    BY <1>3, Zenon
  <2>2. QED
    BY <1>1, <1>2, <2>1
<1>4. QED
  BY <1>3

LEMMA AppendEnd ==
    ASSUME NEW S, NEW q \in Seq(S), NEW e \in S, \A i \in DOMAIN q : q[i] # e
    PROVE  /\ Append(q, e) \in Seq(S) /\ Append(q, e) # <<>> /\ Append(q, e)[Len(Append(q, e))] = e
           /\ \A i \in DOMAIN Append(q, e) : Append(q, e)[i] = e => i = Len(Append(q, e))
<1>1. Append(q, e) \in Seq(S) /\ Len(Append(q, e)) = Len(q) + 1
  OBVIOUS
<1>2. Append(q, e)[Len(q) + 1] = e /\ \A i \in 1..Len(q) : Append(q, e)[i] = q[i]
  OBVIOUS
<1>3. Append(q, e) # <<>>
  <2>1. Len(Append(q, e)) \in Nat /\ Len(Append(q, e)) > 0
    BY <1>1
  <2>2. QED
    BY <2>1, NotEmpty
<1>4. \A i \in 1..Len(q) + 1 : i \in 1..Len(q) \/ i = Len(q) + 1
  OBVIOUS
<1>5. \A i \in DOMAIN Append(q, e) : Append(q, e)[i] = e => i = Len(Append(q, e))
  BY <1>1, <1>2, <1>4
<1>6. QED
  BY <1>1, <1>2, <1>3, <1>5

LEMMA ErrorThenEnd ==
    ASSUME NEW S, NEW q \in Seq(S), NEW e \in S, NEW f \in S
    PROVE  q \o <<e>> = Append(q, e) /\ q \o <<f, e>> = Append(Append(q, f), e)
<1>1. q \o <<e>> = Append(q, e)
  OBVIOUS
<1> DEFINE s == q \o <<f, e>>
           t == Append(Append(q, f), e)
<1>2. Append(q, f) \in Seq(S) /\ Len(Append(q, f)) = Len(q) + 1
  OBVIOUS
<1>3. t \in Seq(S) /\ Len(t) = Len(q) + 2
  BY <1>2
<1>4. <<f, e>> \in Seq(S)
  OBVIOUS
<1>4a. Len(<<f, e>>) = 2
  OBVIOUS
<1>5. s \in Seq(S) /\ Len(s) = Len(q) + 2
  BY <1>4, <1>4a
<1>6. \A i \in 1..Len(q) + 2 : s[i] = t[i]
  BY <1>2, <1>3, <1>4, <1>4a, <1>5
<1>7. s = t
  BY <1>3, <1>5, <1>6
<1>8. QED
  BY <1>1, <1>7

\* ... and the end, to that of a run whose task ends.
LEMMA EmitsEnd ==
    ASSUME LocalTypes, EndComesLast, NEW r \in Local!Runs, task[r] # "ended",
           Local!Emit(r, <<"end">>) \/ Local!Emit(r, <<"error", "end">>)
    PROVE  /\ queue' \in [Local!Runs -> Seq(Emitted)]
           /\ \A i \in DOMAIN queue'[r] : queue'[r][i] = "end" => i = Len(queue'[r])
           /\ queue'[r] # <<>> /\ queue'[r][Len(queue'[r])] = "end"
           /\ \A s \in Local!Runs \ {r} : queue'[s] = queue[s]
<1>1. queue \in [Local!Runs -> Seq(Emitted)] /\ queue[r] \in Seq(Emitted) /\ \A i \in DOMAIN queue[r] : queue[r][i] # "end"
  BY DEF LocalTypes, EndComesLast
<1> DEFINE e == Append(queue[r], "error")
<1>2. e \in Seq(Emitted) /\ \A i \in DOMAIN e : e[i] # "end"
  <2>1. e \in Seq(Emitted) /\ Len(e) = Len(queue[r]) + 1
    BY <1>1 DEF Emitted
  <2>2. e[Len(queue[r]) + 1] = "error" /\ \A i \in 1..Len(queue[r]) : e[i] = queue[r][i]
    BY <1>1 DEF Emitted
  <2>3. \A i \in DOMAIN e : e[i] # "end"
    BY <1>1, <2>1, <2>2
  <2>4. QED
    BY <2>1, <2>3
<1> HIDE DEF e
<1>3. PICK q \in {queue[r], e} : queue' = [queue EXCEPT ![r] = Append(q, "end")]
  BY <1>1, ErrorThenEnd DEF Local!Emit, e, Emitted
<1>4. /\ Append(q, "end") \in Seq(Emitted) /\ Append(q, "end") # <<>>
      /\ Append(q, "end")[Len(Append(q, "end"))] = "end"
      /\ \A i \in DOMAIN Append(q, "end") : Append(q, "end")[i] = "end" => i = Len(Append(q, "end"))
  <2>1. q \in Seq(Emitted) /\ (\A i \in DOMAIN q : q[i] # "end") /\ "end" \in Emitted
    BY <1>1, <1>2, <1>3 DEF Emitted
  <2>2. QED
    BY <2>1, AppendEnd
<1>5. queue'[r] = Append(q, "end")
  BY <1>1, <1>3
<1>6. queue' \in [Local!Runs -> Seq(Emitted)] /\ \A s \in Local!Runs \ {r} : queue'[s] = queue[s]
  BY <1>1, <1>3, <1>4
<1>7. QED
  BY <1>4, <1>5, <1>6

LEMMA Finalizes ==
    ASSUME LocalTypes, NEW r \in Local!Runs, NEW error, Local!Finalize(r, error)
    PROVE  /\ DOMAIN l_result' = Local!Runs /\ status' = [status EXCEPT ![r] = "idle"]
           /\ l_result'[r].text = first[r] /\ \A s \in Local!Runs \ {r} : l_result'[s] = l_result[s]
           /\ sess' = [status |-> "idle", stop |-> Local!StopReasonFor(first[r]), last |-> l_result'[r]]
<1>1. PICK warning : /\ l_result' = [l_result EXCEPT ![r] = [text |-> first[r], warning |-> warning]]
                     /\ sess' = [status |-> "idle", stop |-> Local!StopReasonFor(first[r]),
                                 last |-> [text |-> first[r], warning |-> warning]]
                     /\ status' = [status EXCEPT ![r] = "idle"]
  BY DEF Local!Finalize
<1>2. QED
  BY <1>1 DEF LocalTypes

\* The three ways in which a task that is in hand ends.
TaskEnds(r) ==
    /\ task[r] \in {"running", "cancelling"} /\ task' = [task EXCEPT ![r] = "ended"]
    /\ harness' = [harness EXCEPT ![r] = "out"] /\ \E error : Local!Finalize(r, error)
    /\ Local!Emit(r, <<"end">>) \/ Local!Emit(r, <<"error", "end">>)
    /\ UNCHANGED <<cur, l_inbox, first, reads, l_sent, heard>>

LEMMA DrivesEnd ==
    ASSUME NEW r \in Local!Runs, Local!HarnessExhausted(r) \/ Local!HarnessDies(r) \/ Local!DriverCancelled(r)
    PROVE  TaskEnds(r)
BY DEF TaskEnds, Local!HarnessExhausted, Local!HarnessDies, Local!DriverCancelled, Local!Driven

\* Somebody reads an event of a run.
LEMMA Reads ==
    ASSUME LocalTypes, NEW x \in Readers, Reading!Read(x)
    PROVE  /\ queue' \in [Local!Runs -> Seq(Emitted)]
           /\ \A s \in Local!Runs : queue'[s] = queue[s] \/ (s = reads[x].run /\ queue[s] # <<>> /\ queue'[s] = Tail(queue[s]))
<1> DEFINE r == reads[x].run
<1>1. queue[r] # <<>> /\ queue' = [queue EXCEPT ![r] = Tail(queue[r])]
  BY DEF Reading!Read
<1>2. queue \in [Local!Runs -> Seq(Emitted)]
  BY DEF LocalTypes
<1> HIDE DEF r
<1>3. r \in Local!Runs => Tail(queue[r]) \in Seq(Emitted)
  BY <1>1, <1>2
<1>4. \A s \in Local!Runs : queue'[s] = queue[s] \/ (s = r /\ queue[s] # <<>> /\ queue'[s] = Tail(queue[s]))
  <2>1. CASE r \in Local!Runs
    BY <1>1, <1>2, <2>1
  <2>2. CASE r \notin Local!Runs
    <3>1. queue' = queue
      BY <1>1, <1>2, <2>2
    <3>2. QED
      BY <3>1
  <2>3. QED
    BY <2>1, <2>2
<1>5. queue' \in [Local!Runs -> Seq(Emitted)]
  <2>1. CASE r \in Local!Runs
    BY <1>1, <1>2, <1>3, <2>1
  <2>2. CASE r \notin Local!Runs
    BY <1>1, <1>2, <2>2
  <2>3. QED
    BY <2>1, <2>2
<1>6. QED
  BY <1>4, <1>5 DEF r

\* Every step keeps the types.
LEMMA LocalTypesStep ==
    ASSUME LocalTypes, EndComesLast, LocalStep
    PROVE  LocalTypes'
<1>1. ASSUME NEW c \in Callers \cup ReadingCallers, Local!StartTurn(c) PROVE LocalTypes'
  BY <1>1, LocalConstants DEF Local!StartTurn, Local!Busy, Local!Done, LocalTypes
<1>2. CASE Sends
  BY <1>2, LocalConstants DEF Sends, Local!Busy, Local!Done, LocalTypes
<1>3. CASE Stops
  BY <1>3, LocalConstants DEF Stops, Local!Busy, Local!EnsureStarted, LocalTypes
<1>4. CASE Wakes
  BY <1>4, LocalConstants DEF Wakes, Local!EnsureStarted, LocalTypes
<1>5. CASE Cancels
  BY <1>5, LocalConstants DEF Cancels, LocalTypes
<1>6. ASSUME NEW x \in Readers, Reading!Read(x) PROVE LocalTypes'
  <2>1. queue' \in [Local!Runs -> Seq(Emitted)]
    BY <1>6, Reads
  <2>2. QED
    BY <1>6, <2>1 DEF Reading!Read, LocalTypes
<1>7. ASSUME NEW r \in Local!Runs, Local!FirstStep(r) PROVE LocalTypes'
  BY <1>7, LocalConstants DEF Local!FirstStep, LocalTypes
<1>8. ASSUME NEW r \in Local!Runs, Local!Prepared(r) PROVE LocalTypes'
  <2>1. queue' \in [Local!Runs -> Seq(Emitted)]
    <3>1. CASE Local!Emit(r, <<"ready">>)
      BY <3>1, Emits DEF Emitted
    <3>2. CASE UNCHANGED queue
      BY <3>2 DEF LocalTypes
    <3>3. QED
      BY <1>8, <3>1, <3>2 DEF Local!Prepared
  <2>2. QED
    BY <1>8, <2>1, Zenon DEF Local!Prepared, LocalTypes
<1>9. ASSUME NEW r \in Local!Runs, Local!TakesControl(r) PROVE LocalTypes'
  <2>1. queue' \in [Local!Runs -> Seq(Emitted)]
    <3>1. CASE Local!Emit(r, <<"user">>)
      BY <3>1, Emits DEF Emitted
    <3>2. CASE UNCHANGED queue
      BY <3>2 DEF LocalTypes
    <3>3. QED
      BY <1>9, <3>1, <3>2 DEF Local!TakesControl
  <2> DEFINE m == Head(l_inbox[r])
  <2>2. l_inbox[r] \in Seq(Nat) /\ l_inbox[r] # <<>>
    BY <1>9 DEF Local!TakesControl, LocalTypes
  <2>3. Tail(l_inbox[r]) \in Seq(Nat)
    BY <2>2
  <2>4. l_inbox' \in [Local!Runs -> Seq(Nat)]
    BY <1>9, <2>3 DEF Local!TakesControl, LocalTypes
  <2>5. heard' \in Seq(SUBSET Nat) /\ Len(heard') = Len(l_sent)
    <3>1. CASE UNCHANGED heard
      BY <3>1 DEF LocalTypes
    <3>2. CASE heard' = [heard EXCEPT ![m] = heard[m] \cup {r}]
      <4>1. heard \in Seq(SUBSET Nat) /\ Len(heard) = Len(l_sent) /\ r \in Nat
        BY LocalConstants DEF LocalTypes
      <4>2. m \in DOMAIN heard => heard[m] \cup {r} \in SUBSET Nat
        BY <4>1
      <4> HIDE DEF m
      <4>3. CASE m \in DOMAIN heard
        <5>1. heard' = [heard EXCEPT ![m] = heard[m] \cup {r}] /\ heard[m] \cup {r} \in SUBSET Nat
          BY <3>2, <4>2, <4>3
        <5>2. QED
          BY <4>1, <4>3, <5>1
      <4>4. CASE m \notin DOMAIN heard
        <5>1. heard' = heard
          BY <3>2, <4>1, <4>4
        <5>2. QED
          BY <4>1, <5>1
      <4>5. QED
        BY <4>3, <4>4
    <3>3. UNCHANGED heard \/ heard' = [heard EXCEPT ![m] = heard[m] \cup {r}]
      BY <1>9 DEF Local!TakesControl
    <3>4. QED
      BY <3>1, <3>2, <3>3
  <2>6. QED
    BY <1>9, <2>1, <2>4, <2>5 DEF Local!TakesControl, LocalTypes
<1>10. ASSUME NEW r \in Local!Runs, Local!EndsTurn(r) PROVE LocalTypes'
  BY <1>10, LocalConstants DEF Local!EndsTurn, Local!Driven, LocalTypes
<1>11. ASSUME NEW r \in Local!Runs, Local!YieldsResult(r) PROVE LocalTypes'
  <2>1. queue' \in [Local!Runs -> Seq(Emitted)]
    BY <1>11, Emits DEF Local!YieldsResult, Emitted
  <2>2. QED
    BY <1>11, <2>1 DEF Local!YieldsResult, LocalTypes
<1>12. ASSUME NEW r \in Local!Runs, TaskEnds(r) PROVE LocalTypes'
  <2>1. queue' \in [Local!Runs -> Seq(Emitted)]
    BY <1>12, EmitsEnd DEF TaskEnds
  <2>2. DOMAIN l_result' = Local!Runs /\ status' = [status EXCEPT ![r] = "idle"]
    BY <1>12, Finalizes DEF TaskEnds
  <2>3. QED
    BY <1>12, <2>1, <2>2 DEF TaskEnds, LocalTypes
<1>13. QED
  BY <1>1, <1>2, <1>3, <1>4, <1>5, <1>6, <1>7, <1>8, <1>9, <1>10, <1>11, <1>12, DrivesEnd
     DEF LocalStep, Local!Drives

\* A turn begins when the one before is over.
LEMMA RunsInTurnStep ==
    ASSUME LocalTypes, RunsInTurn, LocalStep
    PROVE  RunsInTurn'
<1>1. ASSUME NEW c \in Callers \cup ReadingCallers, Local!StartTurn(c) PROVE RunsInTurn'
  BY <1>1, LocalConstants DEF Local!StartTurn, Local!Busy, Local!Done, LocalTypes, RunsInTurn
<1>2. CASE Sends
  BY <1>2, LocalConstants DEF Sends, Local!Busy, Local!Done, LocalTypes, RunsInTurn
<1>3. CASE Stops
  BY <1>3, LocalConstants DEF Stops, Local!Busy, Local!EnsureStarted, LocalTypes, RunsInTurn
<1>4. CASE Wakes
  BY <1>4, LocalConstants DEF Wakes, Local!EnsureStarted, LocalTypes, RunsInTurn
<1>5. CASE Cancels
  BY <1>5, LocalConstants DEF Cancels, LocalTypes, RunsInTurn
<1>6. ASSUME NEW x \in Readers, Reading!Read(x) PROVE RunsInTurn'
  BY <1>6, LocalConstants DEF Reading!Read, LocalTypes, RunsInTurn
<1>7. ASSUME NEW r \in Local!Runs, Local!FirstStep(r) PROVE RunsInTurn'
  BY <1>7, LocalConstants DEF Local!FirstStep, LocalTypes, RunsInTurn
<1>8. ASSUME NEW r \in Local!Runs, Local!Prepared(r) PROVE RunsInTurn'
  BY <1>8, LocalConstants DEF Local!Prepared, Local!Driven, Local!Emit, LocalTypes, RunsInTurn
<1>9. ASSUME NEW r \in Local!Runs, Local!TakesControl(r) PROVE RunsInTurn'
  BY <1>9, LocalConstants, ZenonT(30) DEF Local!TakesControl, Local!Driven, Local!Emit, LocalTypes, RunsInTurn
<1>10. ASSUME NEW r \in Local!Runs, Local!EndsTurn(r) PROVE RunsInTurn'
  BY <1>10, LocalConstants DEF Local!EndsTurn, Local!Driven, LocalTypes, RunsInTurn
<1>11. ASSUME NEW r \in Local!Runs, Local!YieldsResult(r) PROVE RunsInTurn'
  BY <1>11, LocalConstants DEF Local!YieldsResult, Local!Driven, Local!Emit, LocalTypes, RunsInTurn
<1>12. ASSUME NEW r \in Local!Runs, TaskEnds(r) PROVE RunsInTurn'
  <2>1. status' = [status EXCEPT ![r] = "idle"]
    BY <1>12, Finalizes DEF TaskEnds
  <2>2. QED
    BY <1>12, <2>1, LocalConstants DEF TaskEnds, LocalTypes, RunsInTurn
<1>13. QED
  BY <1>1, <1>2, <1>3, <1>4, <1>5, <1>6, <1>7, <1>8, <1>9, <1>10, <1>11, <1>12, DrivesEnd
     DEF LocalStep, Local!Drives

\* A channel belongs to its run.
LEMMA WaitsWhereSentStep ==
    ASSUME LocalTypes, WaitsWhereSent, LocalStep
    PROVE  WaitsWhereSent'
<1>1. ASSUME NEW c \in Callers \cup ReadingCallers, Local!StartTurn(c) PROVE WaitsWhereSent'
  BY <1>1, LocalConstants DEF Local!StartTurn, Local!Busy, Local!Done, LocalTypes, WaitsWhereSent
<1>2. CASE Sends
  <2> DEFINE m == Len(l_sent) + 1
  <2>1. cur \in Local!Runs /\ l_sent \in Seq(Nat) /\ l_inbox \in [Local!Runs -> Seq(Nat)] /\ m \in Nat
    BY <1>2, LocalConstants DEF Sends, Local!Busy, LocalTypes
  <2>2. DOMAIN l_sent' = DOMAIN l_sent \cup {m} /\ l_sent'[m] = cur /\ \A i \in DOMAIN l_sent : l_sent'[i] = l_sent[i]
    BY <1>2, <2>1 DEF Sends
  <2> HIDE DEF m
  <2>3. l_inbox' = [l_inbox EXCEPT ![cur] = Append(l_inbox[cur], m)]
    BY <1>2 DEF Sends, m
  <2>4. \A i \in DOMAIN l_inbox'[cur] :
           \/ l_inbox'[cur][i] = m
           \/ i \in DOMAIN l_inbox[cur] /\ l_inbox'[cur][i] = l_inbox[cur][i]
    <3>1. l_inbox[cur] \in Seq(Nat) /\ l_inbox'[cur] = Append(l_inbox[cur], m)
      BY <2>1, <2>3
    <3>2. QED
      BY <2>1, <3>1
  <2>5. \A s \in Local!Runs \ {cur} : l_inbox'[s] = l_inbox[s]
    BY <2>1, <2>3
  <2>6. ASSUME NEW s \in Local!Runs, NEW i \in DOMAIN l_inbox'[s], l_inbox'[s][i] # 0
        PROVE  l_inbox'[s][i] \in DOMAIN l_sent' /\ l_sent'[l_inbox'[s][i]] = s
    <3>1. CASE s # cur
      <4>1. l_inbox'[s] = l_inbox[s]
        BY <2>5, <3>1
      <4>2. l_inbox[s][i] \in DOMAIN l_sent /\ l_sent[l_inbox[s][i]] = s
        BY <2>6, <4>1 DEF WaitsWhereSent
      <4>3. QED
        BY <2>2, <4>1, <4>2
    <3>2. CASE s = cur /\ l_inbox'[cur][i] = m
      BY <2>2, <3>2
    <3>3. CASE s = cur /\ i \in DOMAIN l_inbox[cur] /\ l_inbox'[cur][i] = l_inbox[cur][i]
      <4>1. l_inbox[cur][i] \in DOMAIN l_sent /\ l_sent[l_inbox[cur][i]] = cur
        BY <2>1, <2>6, <3>3 DEF WaitsWhereSent
      <4>2. QED
        BY <2>2, <3>3, <4>1
    <3>4. QED
      BY <2>4, <2>6, <3>1, <3>2, <3>3
  <2>7. QED
    BY <2>6 DEF WaitsWhereSent
<1>3. CASE Stops
  BY <1>3, LocalConstants, SMTT(30) DEF Stops, Local!Busy, Local!EnsureStarted, LocalTypes, WaitsWhereSent
<1>4. CASE Wakes
  BY <1>4, LocalConstants DEF Wakes, Local!EnsureStarted, LocalTypes, WaitsWhereSent
<1>5. CASE Cancels
  BY <1>5, LocalConstants DEF Cancels, LocalTypes, WaitsWhereSent
<1>6. ASSUME NEW x \in Readers, Reading!Read(x) PROVE WaitsWhereSent'
  BY <1>6, LocalConstants DEF Reading!Read, LocalTypes, WaitsWhereSent
<1>7. ASSUME NEW r \in Local!Runs, Local!FirstStep(r) PROVE WaitsWhereSent'
  BY <1>7, LocalConstants DEF Local!FirstStep, LocalTypes, WaitsWhereSent
<1>8. ASSUME NEW r \in Local!Runs, Local!Prepared(r) PROVE WaitsWhereSent'
  BY <1>8, LocalConstants DEF Local!Prepared, Local!Driven, Local!Emit, LocalTypes, WaitsWhereSent
<1>9. ASSUME NEW r \in Local!Runs, Local!TakesControl(r) PROVE WaitsWhereSent'
  <2>1. l_inbox[r] \in Seq(Nat) /\ l_inbox[r] # <<>> /\ l_inbox' = [l_inbox EXCEPT ![r] = Tail(l_inbox[r])] /\ UNCHANGED l_sent
    BY <1>9 DEF Local!TakesControl, LocalTypes
  <2>2. l_inbox'[r] = Tail(l_inbox[r]) /\ \A s \in Local!Runs \ {r} : l_inbox'[s] = l_inbox[s]
    BY <2>1 DEF LocalTypes
  <2>3. \A i \in DOMAIN l_inbox'[r] : i + 1 \in DOMAIN l_inbox[r] /\ l_inbox'[r][i] = l_inbox[r][i + 1]
    <3> DEFINE q == l_inbox[r]
    <3>1. q \in Seq(Nat) /\ q # <<>>
      BY <2>1
    <3> HIDE DEF q
    <3>2. \A i \in DOMAIN Tail(q) : i + 1 \in DOMAIN q /\ Tail(q)[i] = q[i + 1]
      BY <3>1
    <3>3. QED
      BY <2>2, <3>2 DEF q
  <2>4. QED
    BY <2>1, <2>2, <2>3 DEF WaitsWhereSent
<1>10. ASSUME NEW r \in Local!Runs, Local!EndsTurn(r) PROVE WaitsWhereSent'
  BY <1>10, LocalConstants DEF Local!EndsTurn, Local!Driven, LocalTypes, WaitsWhereSent
<1>11. ASSUME NEW r \in Local!Runs, Local!YieldsResult(r) PROVE WaitsWhereSent'
  BY <1>11, LocalConstants DEF Local!YieldsResult, Local!Driven, Local!Emit, LocalTypes, WaitsWhereSent
<1>12. ASSUME NEW r \in Local!Runs, TaskEnds(r) PROVE WaitsWhereSent'
  BY <1>12, LocalConstants DEF TaskEnds, LocalTypes, WaitsWhereSent
<1>13. QED
  BY <1>1, <1>2, <1>3, <1>4, <1>5, <1>6, <1>7, <1>8, <1>9, <1>10, <1>11, <1>12, DrivesEnd
     DEF LocalStep, Local!Drives

\* Nothing is emitted after the end.
LEMMA EndComesLastStep ==
    ASSUME LocalTypes, RunsInTurn, EndComesLast, LocalStep
    PROVE  EndComesLast'
<1>1. ASSUME NEW c \in Callers \cup ReadingCallers, Local!StartTurn(c) PROVE EndComesLast'
  <2>1. UNCHANGED queue /\ cur \in Nat /\ cur + 1 \in Local!Runs
    BY <1>1, LocalConstants DEF Local!StartTurn, LocalTypes
  <2>1a. task[cur + 1] = "none"
    BY <2>1 DEF RunsInTurn
  <2>2. \A s \in Local!Runs : task[s] = "ended" => task'[s] = "ended"
    BY <1>1, <2>1, <2>1a DEF Local!StartTurn, LocalTypes
  <2>3. QED
    BY <2>1, <2>2 DEF EndComesLast
<1>2. CASE Sends
  BY <1>2, LocalConstants DEF Sends, Local!Busy, Local!Done, LocalTypes, RunsInTurn, EndComesLast
<1>3. CASE Stops
  BY <1>3, LocalConstants DEF Stops, Local!Busy, Local!EnsureStarted, LocalTypes, RunsInTurn, EndComesLast
<1>4. CASE Wakes
  BY <1>4, LocalConstants DEF Wakes, Local!EnsureStarted, LocalTypes, RunsInTurn, EndComesLast
<1>5. CASE Cancels
  BY <1>5, LocalConstants DEF Cancels, LocalTypes, RunsInTurn, EndComesLast
<1>6. ASSUME NEW x \in Readers, Reading!Read(x) PROVE EndComesLast'
  <2>1. UNCHANGED task /\ \A s \in Local!Runs :
          queue'[s] = queue[s] \/ (queue[s] # <<>> /\ queue'[s] = Tail(queue[s]))
    BY <1>6, Reads DEF Reading!Read
  <2>2. ASSUME NEW s \in Local!Runs, NEW i \in DOMAIN queue'[s], queue'[s][i] = "end"
        PROVE  i = Len(queue'[s]) /\ task[s] = "ended"
    <3>1. queue[s] \in Seq(Emitted)
      BY DEF LocalTypes
    <3>2. CASE queue'[s] = queue[s]
      BY <2>2, <3>2 DEF EndComesLast
    <3>3. CASE queue[s] # <<>> /\ queue'[s] = Tail(queue[s])
      <4>1. /\ i \in Nat /\ i + 1 \in DOMAIN queue[s] /\ queue'[s][i] = queue[s][i + 1]
            /\ Len(queue[s]) = Len(queue'[s]) + 1 /\ Len(queue'[s]) \in Nat
        BY <3>1, <3>3
      <4>2. i + 1 = Len(queue[s]) /\ task[s] = "ended"
        BY <2>2, <4>1 DEF EndComesLast
      <4>3. QED
        BY <4>1, <4>2
    <3>4. QED
      BY <2>1, <3>2, <3>3
  <2>3. QED
    BY <2>1, <2>2 DEF EndComesLast
<1>7. ASSUME NEW r \in Local!Runs, Local!FirstStep(r) PROVE EndComesLast'
  BY <1>7, LocalConstants DEF Local!FirstStep, LocalTypes, RunsInTurn, EndComesLast
<1>8. ASSUME NEW r \in Local!Runs, Local!Prepared(r) PROVE EndComesLast'
  <2>1. UNCHANGED task
    BY <1>8 DEF Local!Prepared
  <2>2. CASE Local!Driven(r) /\ Local!Emit(r, <<"ready">>)
    <3>1. task[r] # "ended"
      BY <2>2 DEF Local!Driven
    <3>2. QED
      BY <2>1, <2>2, <3>1, Emits DEF Emitted
  <2>3. CASE UNCHANGED queue
    BY <2>1, <2>3 DEF EndComesLast
  <2>4. QED
    BY <1>8, <2>2, <2>3 DEF Local!Prepared
<1>9. ASSUME NEW r \in Local!Runs, Local!TakesControl(r) PROVE EndComesLast'
  <2>1. UNCHANGED task /\ task[r] # "ended"
    BY <1>9 DEF Local!TakesControl, Local!Driven
  <2>2. CASE Local!Emit(r, <<"user">>)
    BY <2>1, <2>2, Emits DEF Emitted
  <2>3. CASE UNCHANGED queue
    BY <2>1, <2>3 DEF EndComesLast
  <2>4. QED
    BY <1>9, <2>2, <2>3 DEF Local!TakesControl
<1>10. ASSUME NEW r \in Local!Runs, Local!EndsTurn(r) PROVE EndComesLast'
  BY <1>10, LocalConstants DEF Local!EndsTurn, Local!Driven, LocalTypes, RunsInTurn, EndComesLast
<1>11. ASSUME NEW r \in Local!Runs, Local!YieldsResult(r) PROVE EndComesLast'
  <2>1. UNCHANGED task /\ task[r] # "ended" /\ Local!Emit(r, <<"result">>)
    BY <1>11 DEF Local!YieldsResult, Local!Driven
  <2>2. QED
    BY <2>1, Emits DEF Emitted
<1>12. ASSUME NEW r \in Local!Runs, TaskEnds(r) PROVE EndComesLast'
  <2>1. /\ \A i \in DOMAIN queue'[r] : queue'[r][i] = "end" => i = Len(queue'[r])
        /\ \A s \in Local!Runs \ {r} : queue'[s] = queue[s]
    BY <1>12, EmitsEnd DEF TaskEnds
  <2>2. task'[r] = "ended" /\ \A s \in Local!Runs \ {r} : task'[s] = task[s]
    BY <1>12 DEF TaskEnds, LocalTypes
  <2>3. QED
    BY <2>1, <2>2 DEF EndComesLast
<1>13. QED
  BY <1>1, <1>2, <1>3, <1>4, <1>5, <1>6, <1>7, <1>8, <1>9, <1>10, <1>11, <1>12, DrivesEnd
     DEF LocalStep, Local!Drives

\* A run that is done sees no further event.
LEMMA ResultIsKeptStep ==
    ASSUME LocalTypes, RunsInTurn, Local!ResultIsKept, LocalStep
    PROVE  Local!ResultIsKept'
<1>1. ASSUME NEW c \in Callers \cup ReadingCallers, Local!StartTurn(c) PROVE Local!ResultIsKept'
  BY <1>1, LocalConstants DEF Local!StartTurn, Local!Busy, Local!Done, LocalTypes, RunsInTurn, Local!ResultIsKept
<1>2. CASE Sends
  BY <1>2, LocalConstants DEF Sends, Local!Busy, Local!Done, LocalTypes, RunsInTurn, Local!ResultIsKept
<1>3. CASE Stops
  BY <1>3, LocalConstants DEF Stops, Local!Busy, Local!EnsureStarted, LocalTypes, RunsInTurn, Local!ResultIsKept, Local!Done
<1>4. CASE Wakes
  BY <1>4, LocalConstants DEF Wakes, Local!EnsureStarted, LocalTypes, RunsInTurn, Local!ResultIsKept, Local!Done
<1>5. CASE Cancels
  BY <1>5, LocalConstants DEF Cancels, LocalTypes, RunsInTurn, Local!ResultIsKept, Local!Done
<1>6. ASSUME NEW x \in Readers, Reading!Read(x) PROVE Local!ResultIsKept'
  BY <1>6, LocalConstants DEF Reading!Read, LocalTypes, RunsInTurn, Local!ResultIsKept, Local!Done
<1>7. ASSUME NEW r \in Local!Runs, Local!FirstStep(r) PROVE Local!ResultIsKept'
  BY <1>7, LocalConstants DEF Local!FirstStep, LocalTypes, RunsInTurn, Local!ResultIsKept, Local!Done
<1>8. ASSUME NEW r \in Local!Runs, Local!Prepared(r) PROVE Local!ResultIsKept'
  BY <1>8, LocalConstants DEF Local!Prepared, Local!Driven, Local!Emit, LocalTypes, RunsInTurn, Local!ResultIsKept, Local!Done
<1>9. ASSUME NEW r \in Local!Runs, Local!TakesControl(r) PROVE Local!ResultIsKept'
  BY <1>9, LocalConstants DEF Local!TakesControl, Local!Driven, Local!Emit, LocalTypes, RunsInTurn, Local!ResultIsKept, Local!Done
<1>10. ASSUME NEW r \in Local!Runs, Local!EndsTurn(r) PROVE Local!ResultIsKept'
  BY <1>10, LocalConstants DEF Local!EndsTurn, Local!Driven, LocalTypes, RunsInTurn, Local!ResultIsKept, Local!Done
<1>11. ASSUME NEW r \in Local!Runs, Local!YieldsResult(r) PROVE Local!ResultIsKept'
  BY <1>11, LocalConstants DEF Local!YieldsResult, Local!Driven, Local!Emit, LocalTypes, RunsInTurn, Local!ResultIsKept, Local!Done
<1>12. ASSUME NEW r \in Local!Runs, TaskEnds(r) PROVE Local!ResultIsKept'
  <2>1. /\ l_result'[r].text = first[r] /\ \A s \in Local!Runs \ {r} : l_result'[s] = l_result[s]
        /\ status' = [status EXCEPT ![r] = "idle"] /\ UNCHANGED first
    BY <1>12, Finalizes DEF TaskEnds
  <2>2. QED
    BY <2>1 DEF LocalTypes, Local!ResultIsKept, Local!Done
<1>13. QED
  BY <1>1, <1>2, <1>3, <1>4, <1>5, <1>6, <1>7, <1>8, <1>9, <1>10, <1>11, <1>12, DrivesEnd
     DEF LocalStep, Local!Drives

\* A run that ends is the session's last.
LEMMA SessionIsItsLastTurnStep ==
    ASSUME LocalTypes, RunsInTurn, Local!SessionIsItsLastTurn, LocalStep
    PROVE  Local!SessionIsItsLastTurn'
<1>1. ASSUME NEW c \in Callers \cup ReadingCallers, Local!StartTurn(c) PROVE Local!SessionIsItsLastTurn'
  <2>1. cur' = cur + 1 /\ cur + 1 \in Local!Runs /\ UNCHANGED status
    BY <1>1, LocalConstants DEF Local!StartTurn, LocalTypes
  <2>2. status[cur + 1] = "pending"
    BY <2>1, LocalConstants DEF RunsInTurn, LocalTypes
  <2>3. QED
    BY <2>1, <2>2 DEF Local!SessionIsItsLastTurn, Local!Done
<1>2. CASE Sends
  BY <1>2, LocalConstants DEF Sends, Local!Busy, Local!Done, LocalTypes, RunsInTurn, Local!SessionIsItsLastTurn
<1>3. CASE Stops
  BY <1>3, LocalConstants DEF Stops, Local!Busy, Local!EnsureStarted, LocalTypes, RunsInTurn, Local!SessionIsItsLastTurn, Local!Done
<1>4. CASE Wakes
  BY <1>4, LocalConstants DEF Wakes, Local!EnsureStarted, LocalTypes, RunsInTurn, Local!SessionIsItsLastTurn, Local!Done
<1>5. CASE Cancels
  BY <1>5, LocalConstants DEF Cancels, LocalTypes, RunsInTurn, Local!SessionIsItsLastTurn, Local!Done
<1>6. ASSUME NEW x \in Readers, Reading!Read(x) PROVE Local!SessionIsItsLastTurn'
  BY <1>6, LocalConstants DEF Reading!Read, LocalTypes, RunsInTurn, Local!SessionIsItsLastTurn, Local!Done
<1>7. ASSUME NEW r \in Local!Runs, Local!FirstStep(r) PROVE Local!SessionIsItsLastTurn'
  BY <1>7, LocalConstants DEF Local!FirstStep, LocalTypes, RunsInTurn, Local!SessionIsItsLastTurn, Local!Done
<1>8. ASSUME NEW r \in Local!Runs, Local!Prepared(r) PROVE Local!SessionIsItsLastTurn'
  BY <1>8, LocalConstants DEF Local!Prepared, Local!Driven, Local!Emit, LocalTypes, RunsInTurn, Local!SessionIsItsLastTurn, Local!Done
<1>9. ASSUME NEW r \in Local!Runs, Local!TakesControl(r) PROVE Local!SessionIsItsLastTurn'
  BY <1>9, LocalConstants DEF Local!TakesControl, Local!Driven, Local!Emit, LocalTypes, RunsInTurn, Local!SessionIsItsLastTurn, Local!Done
<1>10. ASSUME NEW r \in Local!Runs, Local!EndsTurn(r) PROVE Local!SessionIsItsLastTurn'
  BY <1>10, LocalConstants DEF Local!EndsTurn, Local!Driven, LocalTypes, RunsInTurn, Local!SessionIsItsLastTurn, Local!Done
<1>11. ASSUME NEW r \in Local!Runs, Local!YieldsResult(r) PROVE Local!SessionIsItsLastTurn'
  BY <1>11, LocalConstants DEF Local!YieldsResult, Local!Driven, Local!Emit, LocalTypes, RunsInTurn, Local!SessionIsItsLastTurn, Local!Done
<1>12. ASSUME NEW r \in Local!Runs, TaskEnds(r) PROVE Local!SessionIsItsLastTurn'
  <2>1. r = cur /\ UNCHANGED <<cur, first>>
    <3>1. r \in Nat /\ cur \in Nat /\ task[r] \in {"running", "cancelling"} /\ UNCHANGED <<cur, first>>
      BY <1>12, LocalConstants DEF TaskEnds, LocalTypes
    <3>2. ~(r < cur) /\ ~(r > cur)
      BY <3>1 DEF RunsInTurn
    <3>3. QED
      BY <3>1, <3>2
  <2>2. sess' = [status |-> "idle", stop |-> Local!StopReasonFor(first[r]), last |-> l_result'[r]]
    BY <1>12, Finalizes DEF TaskEnds
  <2>3. QED
    BY <2>1, <2>2 DEF Local!SessionIsItsLastTurn, Local!StopReasonFor
<1>13. QED
  BY <1>1, <1>2, <1>3, <1>4, <1>5, <1>6, <1>7, <1>8, <1>9, <1>10, <1>11, <1>12, DrivesEnd
     DEF LocalStep, Local!Drives

\* The model takes messages from the channel of its own run.
LEMMA HeardWhereSentStep ==
    ASSUME LocalTypes, WaitsWhereSent, Local!HeardWhereSent, LocalStep
    PROVE  Local!HeardWhereSent'
<1>1. ASSUME NEW c \in Callers \cup ReadingCallers, Local!StartTurn(c) PROVE Local!HeardWhereSent'
  BY <1>1, LocalConstants DEF Local!StartTurn, Local!Busy, Local!Done, LocalTypes, WaitsWhereSent, Local!HeardWhereSent
<1>2. CASE Sends
  BY <1>2, LocalConstants, SMTT(30) DEF Sends, Local!Busy, Local!Done, LocalTypes, WaitsWhereSent, Local!HeardWhereSent
<1>3. CASE Stops
  BY <1>3, LocalConstants DEF Stops, Local!Busy, Local!EnsureStarted, LocalTypes, WaitsWhereSent, Local!HeardWhereSent
<1>4. CASE Wakes
  BY <1>4, LocalConstants DEF Wakes, Local!EnsureStarted, LocalTypes, WaitsWhereSent, Local!HeardWhereSent
<1>5. CASE Cancels
  BY <1>5, LocalConstants DEF Cancels, LocalTypes, WaitsWhereSent, Local!HeardWhereSent
<1>6. ASSUME NEW x \in Readers, Reading!Read(x) PROVE Local!HeardWhereSent'
  BY <1>6, LocalConstants DEF Reading!Read, LocalTypes, WaitsWhereSent, Local!HeardWhereSent
<1>7. ASSUME NEW r \in Local!Runs, Local!FirstStep(r) PROVE Local!HeardWhereSent'
  BY <1>7, LocalConstants DEF Local!FirstStep, LocalTypes, WaitsWhereSent, Local!HeardWhereSent
<1>8. ASSUME NEW r \in Local!Runs, Local!Prepared(r) PROVE Local!HeardWhereSent'
  BY <1>8, LocalConstants DEF Local!Prepared, Local!Driven, Local!Emit, LocalTypes, WaitsWhereSent, Local!HeardWhereSent
<1>9. ASSUME NEW r \in Local!Runs, Local!TakesControl(r) PROVE Local!HeardWhereSent'
  <2> DEFINE m == Head(l_inbox[r])
  <2>1. l_inbox[r] \in Seq(Nat) /\ l_inbox[r] # <<>> /\ UNCHANGED l_sent
    BY <1>9 DEF Local!TakesControl, LocalTypes
  <2>2. m = l_inbox[r][1] /\ 1 \in DOMAIN l_inbox[r]
    BY <2>1
  <2>3. CASE m = 0
    BY <1>9, <2>1, <2>3 DEF Local!TakesControl, Local!HeardWhereSent
  <2>4. CASE m # 0
    <3>1. m \in DOMAIN l_sent /\ l_sent[m] = r
      BY <2>2, <2>4 DEF WaitsWhereSent
    <3>2. heard' = [heard EXCEPT ![m] = heard[m] \cup {r}]
      BY <1>9, <2>4 DEF Local!TakesControl
    <3>3. DOMAIN heard = DOMAIN l_sent
      BY DEF LocalTypes
    <3> HIDE DEF m
    <3>4. QED
      BY <2>1, <3>1, <3>2, <3>3 DEF Local!HeardWhereSent
  <2>5. QED
    BY <2>3, <2>4
<1>10. ASSUME NEW r \in Local!Runs, Local!EndsTurn(r) PROVE Local!HeardWhereSent'
  BY <1>10, LocalConstants DEF Local!EndsTurn, Local!Driven, LocalTypes, WaitsWhereSent, Local!HeardWhereSent
<1>11. ASSUME NEW r \in Local!Runs, Local!YieldsResult(r) PROVE Local!HeardWhereSent'
  BY <1>11, LocalConstants DEF Local!YieldsResult, Local!Driven, Local!Emit, LocalTypes, WaitsWhereSent, Local!HeardWhereSent
<1>12. ASSUME NEW r \in Local!Runs, TaskEnds(r) PROVE Local!HeardWhereSent'
  BY <1>12, LocalConstants DEF TaskEnds, LocalTypes, WaitsWhereSent, Local!HeardWhereSent
<1>13. QED
  BY <1>1, <1>2, <1>3, <1>4, <1>5, <1>6, <1>7, <1>8, <1>9, <1>10, <1>11, <1>12, DrivesEnd
     DEF LocalStep, Local!Drives

\* The reader that takes the end stops reading.
LEMMA EndIsThereStep ==
    ASSUME OneReader, LocalTypes, RunsInTurn, EndComesLast, EndIsThere, LocalStep
    PROVE  EndIsThere'
<1>1. ASSUME NEW c \in Callers \cup ReadingCallers, Local!StartTurn(c) PROVE EndIsThere'
  BY <1>1, LocalConstants DEF Local!StartTurn, Local!Busy, Local!Done, OneReader, LocalTypes, RunsInTurn, EndComesLast, EndIsThere
<1>2. CASE Sends
  BY <1>2, LocalConstants DEF Sends, Local!Busy, Local!Done, OneReader, LocalTypes, RunsInTurn, EndComesLast, EndIsThere
<1>3. CASE Stops
  BY <1>3, LocalConstants DEF Stops, Local!Busy, Local!EnsureStarted, OneReader, LocalTypes, RunsInTurn, EndComesLast, EndIsThere
<1>4. CASE Wakes
  BY <1>4, LocalConstants, SMTT(30) DEF Wakes, Local!EnsureStarted, OneReader, LocalTypes, RunsInTurn, EndComesLast, EndIsThere
<1>5. CASE Cancels
  BY <1>5, LocalConstants, SMTT(30) DEF Cancels, OneReader, LocalTypes, RunsInTurn, EndComesLast, EndIsThere
<1>6. ASSUME NEW x \in Readers, Reading!Read(x) PROVE EndIsThere'
  <2>1. queue \in [Local!Runs -> Seq(Emitted)] /\ queue' \in [Local!Runs -> Seq(Emitted)] /\ UNCHANGED task
    BY <1>6, Reads DEF Reading!Read, LocalTypes
  <2>2. /\ reads' \in [Readers -> [run : 0..LocalRuns, past : SUBSET Nat]]
        /\ \A y \in Readers : reads'[y].run # 0 => reads'[y].run \in reads'[y].past
    <3>1. reads[x] \in [run : 0..LocalRuns, past : SUBSET Nat] /\ 0 \in 0..LocalRuns
      BY LocalConstants DEF EndIsThere
    <3>2. [reads[x] EXCEPT !.run = 0] \in [run : 0..LocalRuns, past : SUBSET Nat] /\ [reads[x] EXCEPT !.run = 0].run = 0
      BY <3>1
    <3>3. reads' = reads \/ reads' = [reads EXCEPT ![x] = [reads[x] EXCEPT !.run = 0]]
      BY <1>6 DEF Reading!Read
    <3>4. CASE reads' = reads
      BY <3>4 DEF EndIsThere
    <3>5. CASE reads' = [reads EXCEPT ![x] = [reads[x] EXCEPT !.run = 0]]
      <4>1. reads'[x] = [reads[x] EXCEPT !.run = 0] /\ \A y \in Readers \ {x} : reads'[y] = reads[y]
        BY <3>5 DEF EndIsThere
      <4>2. reads' \in [Readers -> [run : 0..LocalRuns, past : SUBSET Nat]]
        BY <3>2, <3>5 DEF EndIsThere
      <4>3. QED
        BY <3>2, <4>1, <4>2 DEF EndIsThere
    <3>6. QED
      BY <3>3, <3>4, <3>5
  <2>3. ASSUME NEW s \in Local!Runs, task[s] = "ended", s \notin reads'[x].past \/ reads'[x].run = s
        PROVE  queue'[s] # <<>> /\ queue'[s][Len(queue'[s])] = "end"
    <3>1. s \notin reads[x].past \/ reads[x].run = s
      BY <1>6, <2>3, LocalConstants DEF Reading!Read, EndIsThere
    <3>2. queue[s] # <<>> /\ queue[s][Len(queue[s])] = "end"
      BY <2>3, <3>1 DEF EndIsThere
    <3>3. CASE queue'[s] = queue[s]
      BY <3>2, <3>3
    <3>4. CASE s = reads[x].run /\ queue'[s] = Tail(queue[s])
      <4>1. Head(queue[s]) # "end"
        <5>1. CASE Head(queue[s]) = "end"
          <6>1. reads'[x] = [reads[x] EXCEPT !.run = 0] /\ s # 0
            BY <1>6, <3>4, <5>1, LocalConstants DEF Reading!Read, EndIsThere
          <6>2. reads'[x].run = 0 /\ reads'[x].past = reads[x].past
            BY <6>1 DEF EndIsThere
          <6>3. s \notin reads[x].past
            BY <2>3, <6>1, <6>2
          <6>4. s \in reads[x].past
            BY <3>4, <6>1 DEF EndIsThere
          <6>5. QED
            BY <6>3, <6>4
        <5>2. QED
          BY <5>1
      <4>2. queue[s] \in Seq(Emitted)
        BY <2>1
      <4>3. Len(queue[s]) > 1
        BY <3>2, <4>1, <4>2
      <4>4. /\ Tail(queue[s]) \in Seq(Emitted) /\ Len(Tail(queue[s])) = Len(queue[s]) - 1
            /\ Tail(queue[s])[Len(queue[s]) - 1] = queue[s][Len(queue[s])]
        BY <4>2, <4>3
      <4>5. Tail(queue[s])[Len(Tail(queue[s]))] = "end" /\ Len(Tail(queue[s])) > 0
        BY <3>2, <4>2, <4>3, <4>4
      <4>6. Tail(queue[s]) # <<>>
        BY <4>5, NotEmpty
      <4>7. QED
        BY <3>4, <4>5, <4>6
    <3>5. QED
      BY <1>6, <3>3, <3>4, Reads
  <2>4. QED
    BY <2>1, <2>2, <2>3 DEF EndIsThere, OneReader
<1>7. ASSUME NEW r \in Local!Runs, Local!FirstStep(r) PROVE EndIsThere'
  BY <1>7, LocalConstants DEF Local!FirstStep, OneReader, LocalTypes, RunsInTurn, EndComesLast, EndIsThere
<1>8. ASSUME NEW r \in Local!Runs, Local!Prepared(r) PROVE EndIsThere'
  <2>1. UNCHANGED <<task, reads>>
    BY <1>8 DEF Local!Prepared
  <2>2. \A s \in Local!Runs : task[s] = "ended" => queue'[s] = queue[s]
    BY <1>8 DEF Local!Prepared, Local!Driven, Local!Emit, LocalTypes
  <2>3. QED
    BY <2>1, <2>2 DEF EndIsThere
<1>9. ASSUME NEW r \in Local!Runs, Local!TakesControl(r) PROVE EndIsThere'
  <2>1. UNCHANGED <<task, reads>>
    BY <1>9 DEF Local!TakesControl
  <2>2. \A s \in Local!Runs : task[s] = "ended" => queue'[s] = queue[s]
    BY <1>9 DEF Local!TakesControl, Local!Driven, Local!Emit, LocalTypes
  <2>3. QED
    BY <2>1, <2>2 DEF EndIsThere
<1>10. ASSUME NEW r \in Local!Runs, Local!EndsTurn(r) PROVE EndIsThere'
  BY <1>10, LocalConstants DEF Local!EndsTurn, Local!Driven, OneReader, LocalTypes, RunsInTurn, EndComesLast, EndIsThere
<1>11. ASSUME NEW r \in Local!Runs, Local!YieldsResult(r) PROVE EndIsThere'
  <2>1. UNCHANGED <<task, reads>>
    BY <1>11 DEF Local!YieldsResult
  <2>2. \A s \in Local!Runs : task[s] = "ended" => queue'[s] = queue[s]
    BY <1>11 DEF Local!YieldsResult, Local!Driven, Local!Emit, LocalTypes
  <2>3. QED
    BY <2>1, <2>2 DEF EndIsThere
<1>12. ASSUME NEW r \in Local!Runs, TaskEnds(r) PROVE EndIsThere'
  <2>1. /\ queue'[r] # <<>> /\ queue'[r][Len(queue'[r])] = "end"
        /\ \A s \in Local!Runs \ {r} : queue'[s] = queue[s]
    BY <1>12, EmitsEnd DEF TaskEnds
  <2>2. UNCHANGED reads /\ \A s \in Local!Runs \ {r} : task'[s] = task[s]
    BY <1>12 DEF TaskEnds, LocalTypes
  <2>3. QED
    BY <2>1, <2>2 DEF EndIsThere
<1>13. QED
  BY <1>1, <1>2, <1>3, <1>4, <1>5, <1>6, <1>7, <1>8, <1>9, <1>10, <1>11, <1>12, DrivesEnd
     DEF LocalStep, Local!Drives
\* Where somebody reads, the end waits for the reader.
LocalAll == LocalInv /\ (part = "reading" => EndIsThere)

LEMMA LocalInvInit == Init => LocalAll
<1> SUFFICES ASSUME Init PROVE LocalAll
  OBVIOUS
<1>1. Local!Init \/ Reading!Init
  BY DEF Init
<1>2. /\ cur = 0 /\ sess = Local!Idle
      /\ task = [r \in Local!Runs |-> "none"] /\ status = [r \in Local!Runs |-> "pending"]
      /\ harness = [r \in Local!Runs |-> "off"]
      /\ l_inbox = [r \in Local!Runs |-> <<>>] /\ queue = [r \in Local!Runs |-> <<>>]
      /\ first = [r \in Local!Runs |-> "none"] /\ DOMAIN l_result = Local!Runs
      /\ l_sent = <<>> /\ heard = <<>>
  BY <1>1 DEF Local!Init, Reading!Init, Local!Idle, Reading!Idle, Local!NoResult, Reading!NoResult, Local!Runs, Reading!Runs
<1>3. part = "reading" => reads = [x \in Readers |-> [run |-> 0, past |-> {}]]
  BY DEF Init, Reading!Init
<1>4. LocalTypes
  <2>1. <<>> \in Seq(Emitted) /\ <<>> \in Seq(Nat) /\ <<>> \in Seq(SUBSET Nat)
    OBVIOUS
  <2>2. QED
    BY <1>2, <2>1, LocalConstants DEF LocalTypes
<1>5. RunsInTurn /\ WaitsWhereSent /\ EndComesLast
  BY <1>2, LocalConstants DEF RunsInTurn, WaitsWhereSent, EndComesLast
<1>6. Local!ResultIsKept /\ Local!SessionIsItsLastTurn /\ Local!HeardWhereSent
  BY <1>2 DEF Local!ResultIsKept, Local!SessionIsItsLastTurn, Local!HeardWhereSent, Local!Done
<1>7. part = "reading" => EndIsThere
  BY <1>2, <1>3, LocalConstants DEF EndIsThere
<1>8. QED
  BY <1>4, <1>5, <1>6, <1>7 DEF LocalAll, LocalInv

\* A step of the whole is a step of the turns, or leaves them alone.
LEMMA LocalMoves ==
    ASSUME OneReader, LocalTypes, [Next]_vars
    PROVE  UNCHANGED part /\ (LocalStep \/ UNCHANGED local)
<1>1. CASE Next
  <2>1. UNCHANGED part /\ (Local!Next \/ Reading!Next \/ UNCHANGED local)
    BY <1>1 DEF Next
  <2>2. QED
    BY <2>1, LocalSteps, ReadingSteps
<1>2. CASE UNCHANGED vars
  BY <1>2 DEF vars
<1>3. QED
  BY <1>1, <1>2

LEMMA LocalAllStep == OneReader /\ LocalAll /\ [Next]_vars => LocalAll'
<1> SUFFICES ASSUME OneReader, LocalAll, [Next]_vars PROVE LocalAll'
  OBVIOUS
<1>1. UNCHANGED part /\ (LocalStep \/ UNCHANGED local)
  BY LocalMoves DEF LocalAll, LocalInv
<1>2. CASE LocalStep
  <2>1. LocalInv'
    BY <1>2, LocalTypesStep, RunsInTurnStep, WaitsWhereSentStep, EndComesLastStep, ResultIsKeptStep,
       SessionIsItsLastTurnStep, HeardWhereSentStep DEF LocalAll, LocalInv
  <2>2. part = "reading" => EndIsThere'
    BY <1>2, EndIsThereStep DEF LocalAll, LocalInv
  <2>3. QED
    BY <1>1, <2>1, <2>2 DEF LocalAll
<1>3. CASE UNCHANGED local
  <2>1. LocalTypes' /\ RunsInTurn' /\ WaitsWhereSent' /\ EndComesLast'
    BY <1>3 DEF local, LocalAll, LocalInv, LocalTypes, RunsInTurn, WaitsWhereSent, EndComesLast
  <2>2. Local!ResultIsKept' /\ Local!SessionIsItsLastTurn' /\ Local!HeardWhereSent'
    BY <1>3 DEF local, LocalAll, LocalInv, Local!ResultIsKept, Local!SessionIsItsLastTurn, Local!HeardWhereSent,
                Local!Done
  <2>3. part = "reading" => EndIsThere'
    BY <1>3 DEF local, LocalAll, EndIsThere
  <2>4. QED
    BY <1>1, <2>1, <2>2, <2>3 DEF LocalAll, LocalInv
<1>4. QED
  BY <1>1, <1>2, <1>3

\* A session's turns follow one another with one harness at a time; each is
\* its result, the session is its last one, a message reaches the turn it was
\* sent into, and the reader finds the end - whichever way callers send,
\* await, interrupt or cancel, when nobody cancels a run that has not begun
\* and its events have one reader (_drive, _finalize, _on_complete, __aiter__).
THEOREM LocalTurns == OneReader => (Spec => []LocalTurnsHold)
<1> SUFFICES ASSUME OneReader PROVE Spec => []LocalTurnsHold
  OBVIOUS
<1>1. Init => LocalAll
  BY LocalInvInit
<1>2. LocalAll /\ [Next]_vars => LocalAll'
  BY LocalAllStep
<1>3. LocalAll => LocalTurnsHold
  <2> SUFFICES ASSUME LocalAll PROVE LocalTurnsHold
    OBVIOUS
  <2>1. Local!OneHarness
    <3>1. \A r \in Local!Runs : harness[r] \notin {"off", "out"} => r = cur
      <4> SUFFICES ASSUME NEW r \in Local!Runs, harness[r] \notin {"off", "out"} PROVE r = cur
        OBVIOUS
      <4>1. task[r] \in {"running", "cancelling"}
        BY DEF LocalAll, LocalInv, LocalTypes, RunsInTurn
      <4>2. r \in Nat /\ cur \in Nat
        BY LocalConstants DEF LocalAll, LocalInv, LocalTypes
      <4>3. ~(r < cur) /\ ~(r > cur)
        BY <4>1, <4>2 DEF LocalAll, LocalInv, RunsInTurn
      <4>4. QED
        BY <4>2, <4>3
    <3>2. QED
      BY <3>1 DEF Local!OneHarness
  <2>2. ASSUME part = "reading" PROVE Reading!ReaderReachesTheEnd
    <3>1. \A x \in Readers : reads[x].run \in 0..LocalRuns
      BY <2>2 DEF LocalAll, EndIsThere
    <3>2. \A x \in Readers : reads[x].run # 0 => reads[x].run \in Local!Runs
      BY <3>1, LocalConstants
    <3>3. QED
      BY <2>2, <3>2 DEF LocalAll, EndIsThere, Reading!ReaderReachesTheEnd
  <2>3. QED
    BY <2>1, <2>2 DEF LocalAll, LocalInv, LocalTurnsHold
<1>4. QED
  BY <1>1, <1>2, <1>3, PTL DEF Spec

\* A caller that waits does so for a turn of the session.
CallersWait ==
    part = "local" =>
        /\ DOMAIN l_pc = Callers /\ DOMAIN on = Callers
        /\ \A c \in Callers : l_pc[c] # "free" => on[c] \in Local!Runs

LEMMA CallersWaitStep ==
    ASSUME LocalTypes, CallersWait, UNCHANGED part, part = "local" => Local!Next \/ UNCHANGED local
    PROVE  CallersWait'
<1> SUFFICES ASSUME part = "local" PROVE CallersWait'
  BY DEF CallersWait
<1> USE DEF CallersWait
<1>0. cur # 0 => cur \in Local!Runs
  BY LocalConstants DEF LocalTypes
<1>1. ASSUME NEW c \in Callers, Local!Calls(c) PROVE CallersWait'
  <2>1. CASE Local!StartTurn(c) \/ Local!SendIntoTurn(c) \/ Local!AwaiterCancelled(c)
    BY <2>1 DEF Local!StartTurn, Local!SendIntoTurn, Local!AwaiterCancelled
  <2>2. CASE Local!Interrupt(c) \/ Local!Await(c)
    <3>1. cur # 0 /\ on' = [on EXCEPT ![c] = cur] /\ \E w : l_pc' = [l_pc EXCEPT ![c] = w]
      BY <2>2 DEF Local!Interrupt, Local!Await, Local!Busy
    <3>2. QED
      BY <1>0, <3>1
  <2>3. CASE Local!GraceOver(c)
    BY <2>3 DEF Local!GraceOver
  <2>4. CASE Local!Returns(c) \/ Local!InterrupterCancelled(c)
    BY <2>4 DEF Local!Returns, Local!InterrupterCancelled
  <2>5. QED
    BY <1>1, <2>1, <2>2, <2>3, <2>4 DEF Local!Calls
<1>2. ASSUME NEW r \in Local!Runs, Local!Drives(r) PROVE CallersWait'
  BY <1>2 DEF Local!Drives, Local!FirstStep, Local!Prepared, Local!TakesControl, Local!EndsTurn,
              Local!YieldsResult, Local!HarnessExhausted, Local!HarnessDies, Local!DriverCancelled
<1>3. CASE Local!CancelRun
  BY <1>3 DEF Local!CancelRun
<1>4. CASE UNCHANGED local
  BY <1>4 DEF local
<1>5. QED
  BY <1>1, <1>2, <1>3, <1>4 DEF Local!Next

\* Where no caller is cancelled, interrupt() returns when its turn is over and
\* the session idle, however other callers send, await or interrupt meanwhile
\* and whether the model stops by itself or has to be cancelled (interrupt,
\* _cancel_and_settle).
THEOREM InterruptsLeaveIdle == OneReader => (Spec => (part = "local" => Local!InterruptLeavesIdle))
<1> SUFFICES ASSUME OneReader PROVE Spec => (part = "local" => Local!InterruptLeavesIdle)
  OBVIOUS
<1> DEFINE Inv == LocalAll /\ CallersWait
<1>1. Init => Inv
  BY LocalInvInit DEF Init, Local!Init, CallersWait
<1>2. [Next]_vars => UNCHANGED part /\ (part = "local" => Local!Next \/ UNCHANGED local)
  BY DEF Next, vars
<1>3. Inv /\ [Next]_vars => Inv'
  BY <1>2, LocalAllStep, CallersWaitStep DEF LocalAll, LocalInv
<1>4. Inv /\ [Next]_vars /\ part = "local" =>
        [\A c \in Callers : l_pc[c] \in {"grace", "cancelled"} /\ l_pc'[c] = "free" => Local!Done(on[c])]_(Local!vars)
  <2> SUFFICES ASSUME Inv, [Next]_vars, part = "local", NEW c \in Callers,
                      l_pc[c] \in {"grace", "cancelled"}, l_pc'[c] = "free"
               PROVE  Local!Done(on[c])
    OBVIOUS
  <2>1. Local!Next \/ UNCHANGED local
    BY <1>2
  <2>2. task[on[c]] = "ended"
    <3>1. ASSUME NEW d \in Callers, Local!Calls(d) PROVE task[on[c]] = "ended"
      <4>1. CASE Local!Returns(d)
        BY <4>1 DEF Local!Returns, CallersWait
      <4>2. CASE ~Local!Returns(d)
        BY <3>1, <4>2 DEF Local!Calls, Local!StartTurn, Local!SendIntoTurn, Local!Interrupt, Local!GraceOver,
                          Local!Await, Local!InterrupterCancelled, Local!AwaiterCancelled, CallersWait
      <4>3. QED
        BY <4>1, <4>2
    <3>2. ASSUME NEW r \in Local!Runs, Local!Drives(r) PROVE UNCHANGED l_pc
      BY <3>2 DEF Local!Drives, Local!FirstStep, Local!Prepared, Local!TakesControl, Local!EndsTurn,
                  Local!YieldsResult, Local!HarnessExhausted, Local!HarnessDies, Local!DriverCancelled
    <3>3. Local!CancelRun \/ UNCHANGED local => UNCHANGED l_pc
      BY DEF Local!CancelRun, local
    <3>4. QED
      BY <2>1, <3>1, <3>2, <3>3 DEF Local!Next
  <2>3. on[c] \in Local!Runs
    BY DEF CallersWait
  <2>4. QED
    BY <2>2, <2>3 DEF LocalAll, LocalInv, RunsInTurn, Local!Done
<1>5. [Next]_vars /\ part = "local" => (part = "local")'
  BY <1>2
<1> HIDE DEF Inv
<1>6. QED
  BY <1>1, <1>3, <1>4, <1>5, PTL DEF Spec, Local!InterruptLeavesIdle

-----------------------------------------------------------------------------
(* The configuration of a session.                                         *)

AllChoices == SessionChoices \cup LaterChoices \cup {Nothing, Config!Unset}
SpecOf(v, c, d) == Config!Apply(Config!Apply(Versions[v], c), d)
AllSpecs == {SpecOf(v, c, d) : v \in Nat, c \in AllChoices, d \in TurnChoices}
AllRepos == {s["repos"] : s \in AllSpecs} \cup {"none"}
TurnRecord ==
    [version : Nat, by : ConfigProcs, config : AllChoices, turn_config : TurnChoices,
     state : {"running", "refused", "done", "dead"}, spec : AllSpecs, workspace : AllRepos]
SessionRecord(S) == [open : BOOLEAN, resolved : BOOLEAN, foreign : BOOLEAN, config : S]

\* The fields that the worker of a version knows.
Knows == IF part = "config" THEN ImageKnows ELSE KnowsAll

\* What a session may be opened with.
Choices == IF part = "config" THEN LaterChoices ELSE SessionChoices

ConfigTypes ==
    /\ recorded \in Seq(BOOLEAN) /\ Len(recorded) \in 1..Len(Versions)
    /\ opened \in AllChoices /\ stored \in AllChoices
    /\ handle \in [ConfigProcs -> [version : Nat, known : BOOLEAN]]
    /\ session \in [ConfigProcs -> SessionRecord(AllChoices)]
    /\ DOMAIN g_run = ConfigProcs
    /\ turns \in Seq(TurnRecord) /\ snapshot \in AllRepos

\* A session is open where there is an engine, once it was opened.
OpenWithEngine ==
    \A p \in ConfigProcs :
        /\ handle[p] = Config!NoHandle \/ handle[p].version \in 1..Len(Versions)
        /\ session[p].open => handle[p] # Config!NoHandle /\ opened # Nothing

\* A turn's spec is the merge of its three layers; if it runs, its worker
\* understood them and has the harness.
Merged ==
    \A t \in DOMAIN turns :
        /\ turns[t].version \in 1..Len(Versions)
        /\ turns[t].spec = SpecOf(turns[t].version, turns[t].config, turns[t].turn_config)
        /\ turns[t].state # "refused" =>
             /\ turns[t].spec["harness"] \in Images[turns[t].version]
             /\ Config!SetFields(turns[t].config) \cup Config!SetFields(turns[t].turn_config)
                   \subseteq Knows[turns[t].version]

\* Who started a turn and has the deploy record reads its result as the worker wrote it.
ReadsAsStarted(r) ==
    r.informed /\ ~r.adopted => r.turn \in DOMAIN turns /\ r.schema = turns[r.turn].spec["schema"]
Schemas == (\A p \in ConfigProcs : ReadsAsStarted(g_run[p])) /\ (\A r \in read : ReadsAsStarted(r))

\* What a process or a turn took for the session's config is that config,
\* unless it was reaped.
IsBound(c) == opened # Nothing /\ (c = opened \/ (Config!Reaped /\ c = Config!Unset))
ConfigBound ==
    part # "local_config" =>
        /\ stored \in {Nothing, opened}
        /\ \A p \in ConfigProcs : session[p].open /\ session[p].resolved => IsBound(session[p].config)
        /\ \A t \in DOMAIN turns : IsBound(turns[t].config)

\* The versions of the engine declare the same repos, and a turn declares none.
OneWorld ==
    /\ \A v, w \in 1..Len(Versions) : Versions[v]["repos"] = Versions[w]["repos"]
    /\ \A d \in TurnChoices : d["repos"] = Inherit

World(c) == IF c["repos"] = Inherit THEN Versions[1]["repos"] ELSE c["repos"]

Workspaces ==
    part # "local_config" =>
        /\ opened = Nothing => snapshot = "none"
        /\ ~Config!Reaped => /\ snapshot \in {"none", World(opened)}
                             /\ \A t \in DOMAIN turns : turns[t].workspace = World(opened)

ConfigInv == ConfigTypes /\ OpenWithEngine /\ Merged /\ Schemas /\ ConfigBound

\* The steps of the three instances.
Deploys ==
    /\ Len(recorded) < Len(Versions) /\ recorded' = Append(recorded, TRUE)
    /\ UNCHANGED <<opened, stored, handle, session, g_run, turns, snapshot, read>>

GetsEngine(p) ==
    /\ handle[p] = Config!NoHandle
    /\ \E k \in {recorded[Len(recorded)], FALSE} : handle' = [handle EXCEPT ![p] = [version |-> Len(recorded), known |-> k]]
    /\ UNCHANGED <<recorded, opened, stored, session, g_run, turns, snapshot, read>>

Resolved(p, c) == session' = [session EXCEPT ![p] = [open |-> TRUE, resolved |-> TRUE, foreign |-> FALSE, config |-> c]]

StartsSession(p) ==
    /\ handle[p] # Config!NoHandle /\ opened = Nothing
    /\ opened' \in Choices \ {Nothing}
    /\ stored' = (IF opened' = Config!Unset THEN stored ELSE opened') /\ Resolved(p, opened')
    /\ UNCHANGED <<recorded, handle, g_run, turns, snapshot, read>>

GetsSession(p) ==
    /\ handle[p] # Config!NoHandle /\ opened # Nothing /\ ~session[p].open
    /\ \/ /\ part = "local_config" /\ \E c \in {Config!Found, Config!Unset} : Resolved(p, c)
       \/ session' = [session EXCEPT ![p] = [open |-> TRUE, resolved |-> FALSE, foreign |-> TRUE, config |-> Nothing]]
    /\ UNCHANGED <<recorded, opened, stored, handle, g_run, turns, snapshot, read>>

Attaches(p) ==
    /\ session[p].open /\ g_run[p] = Config!NoRun
    /\ \/ session' = [session EXCEPT ![p].foreign = FALSE] /\ UNCHANGED g_run
       \/ /\ Resolved(p, Config!ConfigOf(p))
          /\ g_run' = g_run \/ \E r : r.adopted = TRUE /\ r.turn \in 0..Len(turns) /\ g_run' = [g_run EXCEPT ![p] = r]
    /\ UNCHANGED <<recorded, opened, stored, handle, turns, snapshot, read>>

\* With a turn config, on a workspace, and refused or not.
Submission(p, d, w, state) ==
    LET c == Config!ConfigOf(p)
        v == handle[p].version
        spec == SpecOf(v, c, d)
    IN /\ w = spec["repos"] \/ (w = snapshot /\ snapshot # "none")
       /\ state = "running" =>
            /\ spec["harness"] \in Images[v]
            /\ Config!SetFields(c) \cup Config!SetFields(d) \subseteq Knows[v]
       /\ turns' = Append(turns, [version |-> v, by |-> p, config |-> c, turn_config |-> d, state |-> state,
                                  spec |-> spec, workspace |-> w])
       /\ \E schema : /\ handle[p].known => schema = spec["schema"]
                      /\ g_run' = [g_run EXCEPT ![p] = [turn |-> Len(turns) + 1, adopted |-> FALSE, schema |-> schema,
                                                       informed |-> handle[p].known]]

Submits(p) ==
    /\ session[p].open /\ Len(turns) < ConfigTurns /\ Resolved(p, Config!ConfigOf(p))
    /\ \E d \in TurnChoices, state \in {"running", "refused"} : \E w : Submission(p, d, w, state)
    /\ UNCHANGED <<recorded, opened, stored, handle, snapshot, read>>

Finishes(t) ==
    /\ turns[t].state = "running"
    /\ turns' = [turns EXCEPT ![t].state = "done"] /\ snapshot' = turns[t].workspace
    /\ UNCHANGED <<recorded, opened, stored, handle, session, g_run, read>>

Concludes(p) ==
    /\ read' = read \cup {g_run[p]} /\ g_run' = [g_run EXCEPT ![p] = Config!NoRun]
    /\ UNCHANGED <<recorded, opened, stored, handle, session, turns, snapshot>>

Restarts(p) ==
    /\ handle' = [handle EXCEPT ![p] = Config!NoHandle] /\ session' = [session EXCEPT ![p] = Config!NoSession]
    /\ g_run' = [g_run EXCEPT ![p] = Config!NoRun]
    /\ \E dead \in SUBSET {t \in 1..Len(turns) : turns[t].state = "running"} :
         turns' = [t \in 1..Len(turns) |-> IF t \in dead THEN [turns[t] EXCEPT !.state = "dead"] ELSE turns[t]]
    /\ UNCHANGED <<recorded, opened, stored, snapshot, read>>

Reaps ==
    /\ stored # Nothing /\ stored' = Nothing
    /\ UNCHANGED <<recorded, opened, handle, session, g_run, turns, snapshot, read>>

ConfigStep ==
    \/ Deploys \/ Reaps
    \/ \E p \in ConfigProcs : \/ GetsEngine(p) \/ StartsSession(p) \/ GetsSession(p) \/ Attaches(p)
                              \/ Submits(p) \/ Concludes(p) \/ Restarts(p)
    \/ \E t \in 1..Len(turns) : Finishes(t)

LEMMA SameSession ==
    ASSUME NEW S, NEW s \in SessionRecord(S), NEW t \in SessionRecord(S),
           s.open = t.open, s.resolved = t.resolved, s.foreign = t.foreign, s.config = t.config
    PROVE  s = t
BY DEF SessionRecord

LEMMA Rebound ==
    ASSUME NEW s \in SessionRecord(AllChoices), s.open = TRUE, NEW c \in AllChoices
    PROVE  /\ [s EXCEPT !.foreign = FALSE, !.resolved = TRUE, !.config = c]
                = [open |-> TRUE, resolved |-> TRUE, foreign |-> FALSE, config |-> c]
           /\ s.foreign = FALSE => [s EXCEPT !.resolved = TRUE, !.config = c]
                                     = [open |-> TRUE, resolved |-> TRUE, foreign |-> FALSE, config |-> c]
<1> DEFINE r == [open |-> TRUE, resolved |-> TRUE, foreign |-> FALSE, config |-> c]
           t == [s EXCEPT !.foreign = FALSE, !.resolved = TRUE, !.config = c]
           u == [s EXCEPT !.resolved = TRUE, !.config = c]
<1>1. r \in SessionRecord(AllChoices) /\ r.open = TRUE /\ r.resolved = TRUE /\ r.foreign = FALSE /\ r.config = c
  BY DEF SessionRecord
<1>2. t \in SessionRecord(AllChoices) /\ t.open = TRUE /\ t.resolved = TRUE /\ t.foreign = FALSE /\ t.config = c
  BY DEF SessionRecord
<1>3. u \in SessionRecord(AllChoices) /\ u.open = TRUE /\ u.resolved = TRUE /\ u.foreign = s.foreign /\ u.config = c
  BY DEF SessionRecord
<1> HIDE DEF r, t, u
<1>4. t = r /\ (s.foreign = FALSE => u = r)
  BY <1>1, <1>2, <1>3, SameSession
<1>5. QED
  BY <1>4 DEF r, t, u

LEMMA ConfigOfIsAChoice ==
    ASSUME ConfigTypes, NEW p \in ConfigProcs
    PROVE  Config!ConfigOf(p) \in AllChoices /\ Config!Found \in AllChoices /\ Config!Unset \in AllChoices
BY DEF ConfigTypes, SessionRecord, Config!ConfigOf, Config!Found, AllChoices

\* Definitions that the instances share.
LEMMA ConfigsShare ==
    /\ ReapedConfig!Unset = Config!Unset /\ LocalConfig!Unset = Config!Unset
    /\ \A c : ReapedConfig!SetFields(c) = Config!SetFields(c) /\ LocalConfig!SetFields(c) = Config!SetFields(c)
    /\ \A s, c : ReapedConfig!Apply(s, c) = Config!Apply(s, c) /\ LocalConfig!Apply(s, c) = Config!Apply(s, c)
    /\ \A p : ReapedConfig!ConfigOf(p) = Config!ConfigOf(p) /\ LocalConfig!ConfigOf(p) = Config!ConfigOf(p)
    /\ ReapedConfig!Found = Config!Found /\ LocalConfig!Found = Config!Found
    /\ ReapedConfig!NoHandle = Config!NoHandle /\ LocalConfig!NoHandle = Config!NoHandle
    /\ ReapedConfig!NoSession = Config!NoSession /\ LocalConfig!NoSession = Config!NoSession
    /\ ReapedConfig!NoRun = Config!NoRun /\ LocalConfig!NoRun = Config!NoRun
BY DEF Config!Unset, ReapedConfig!Unset, LocalConfig!Unset, Config!SetFields, ReapedConfig!SetFields, LocalConfig!SetFields,
       Config!Apply, ReapedConfig!Apply, LocalConfig!Apply, Config!ConfigOf, ReapedConfig!ConfigOf, LocalConfig!ConfigOf,
       Config!Found, ReapedConfig!Found, LocalConfig!Found, Config!NoHandle, ReapedConfig!NoHandle, LocalConfig!NoHandle,
       Config!NoSession, ReapedConfig!NoSession, LocalConfig!NoSession, Config!NoRun, ReapedConfig!NoRun, LocalConfig!NoRun

LEMMA ConfigSteps ==
    ASSUME part = "config", ConfigTypes, Config!Next
    PROVE  ConfigStep
<1>1. ASSUME Config!Deploy PROVE ConfigStep
  BY <1>1 DEF Config!Deploy, ConfigStep, Deploys
<1>2. ASSUME Config!Reap PROVE ConfigStep
  BY <1>2 DEF Config!Reap, ConfigStep, Reaps
<1>3. ASSUME NEW p \in ConfigProcs, Config!GetEngine(p) PROVE ConfigStep
  <2>1. GetsEngine(p)
    BY <1>3 DEF Config!GetEngine, GetsEngine
  <2>2. QED
    BY <2>1 DEF ConfigStep
<1>4. ASSUME NEW p \in ConfigProcs, Config!StartSession(p) PROVE ConfigStep
  <2>1. Nothing \notin LaterChoices
    BY SessionAssumption DEF Config!SessionConfigsAssumption
  <2>2. StartsSession(p)
    BY <1>4, <2>1, ConfigsShare DEF Config!StartSession, StartsSession, Choices, Resolved
  <2>3. QED
    BY <2>2 DEF ConfigStep
<1>5. ASSUME NEW p \in ConfigProcs, Config!GetSession(p) PROVE ConfigStep
  <2>1. GetsSession(p)
    BY <1>5, ConfigsShare DEF Config!GetSession, Config!LoadLocally, GetsSession, Resolved
  <2>2. QED
    BY <2>1 DEF ConfigStep
<1>6. ASSUME NEW p \in ConfigProcs, Config!Attach(p) PROVE ConfigStep
  <2>1. session[p] \in SessionRecord(AllChoices) /\ session[p].open = TRUE /\ Config!ConfigOf(p) \in AllChoices
    BY <1>6, ConfigOfIsAChoice DEF Config!Attach, ConfigTypes
  <2>2. [session[p] EXCEPT !.foreign = FALSE, !.resolved = TRUE, !.config = Config!ConfigOf(p)]
          = [open |-> TRUE, resolved |-> TRUE, foreign |-> FALSE, config |-> Config!ConfigOf(p)]
    BY ONLY <2>1, Rebound, Zenon
  <2>3. \A t, a, b : Config!Follows(p, t, TRUE, a, b).adopted = TRUE /\ Config!Follows(p, t, TRUE, a, b).turn = t
    BY DEF Config!Follows
  <2>5. Config!FindRunning \in 0..Len(turns) /\ g_run[p] = Config!NoRun
    BY <1>6, ConfigsShare DEF Config!FindRunning, Config!Attach, ConfigTypes
  <2>4. Attaches(p)
    <3>1. CASE Config!ResolveRaises(p) /\ session' = [session EXCEPT ![p].foreign = FALSE] /\ g_run' = g_run
      BY <1>6, <2>5, <3>1 DEF Config!Attach, Attaches
    <3>2. CASE /\ session' = [session EXCEPT ![p] = [session[p] EXCEPT !.foreign = FALSE, !.resolved = TRUE, !.config = Config!ConfigOf(p)]]
               /\ g_run' = IF Config!FindRunning = 0 THEN g_run
                           ELSE [g_run EXCEPT ![p] = Config!Follows(p, Config!FindRunning, TRUE, Config!ConfigOf(p), Config!Unset)]
      <4>1. Resolved(p, Config!ConfigOf(p))
        BY <2>2, <3>2, ConfigsShare DEF Resolved
      <4>2. g_run' = g_run \/ \E r : r.adopted = TRUE /\ r.turn \in 0..Len(turns) /\ g_run' = [g_run EXCEPT ![p] = r]
        <5> DEFINE r == Config!Follows(p, Config!FindRunning, TRUE, Config!ConfigOf(p), Config!Unset)
        <5>1. r.adopted = TRUE /\ r.turn \in 0..Len(turns)
          BY <2>3, <2>5
        <5>2. g_run' = g_run \/ g_run' = [g_run EXCEPT ![p] = r]
          BY <3>2
        <5> HIDE DEF r
        <5>3. QED
          BY <5>1, <5>2
      <4>3. QED
        BY <1>6, <2>5, <4>1, <4>2 DEF Config!Attach, Attaches
    <3>3. QED
      BY <1>6, <3>1, <3>2 DEF Config!Attach
  <2>6. QED
    BY <2>4 DEF ConfigStep
<1>7. ASSUME NEW p \in ConfigProcs, Config!Submit(p) PROVE ConfigStep
  <2> DEFINE c == Config!ConfigOf(p)
             v == handle[p].version
  <2>1. PICK d \in TurnChoices, resume \in BOOLEAN :
          /\ turns' = Append(turns, Config!WorkerTurn(v, p, c, d, resume))
          /\ g_run' = [g_run EXCEPT ![p] = Config!Follows(p, Len(turns) + 1, FALSE, c, d)]
    BY <1>7, ConfigsShare DEF Config!Submit
  <2>2. Resolved(p, c) /\ session[p].open
    <3>1. /\ session[p] \in SessionRecord(AllChoices) /\ session[p].open = TRUE /\ session[p].foreign = FALSE
          /\ c \in AllChoices
      BY <1>7, ConfigOfIsAChoice DEF Config!Submit, ConfigTypes, SessionRecord
    <3>2. [session[p] EXCEPT !.resolved = TRUE, !.config = c] = [open |-> TRUE, resolved |-> TRUE, foreign |-> FALSE, config |-> c]
      BY ONLY <3>1, Rebound, Zenon
    <3>3. QED
      BY <1>7, <3>1, <3>2, ConfigsShare DEF Config!Submit, Resolved
  <2> DEFINE w == IF resume /\ snapshot # "none" THEN snapshot ELSE SpecOf(v, c, d)["repos"]
             ok == /\ SpecOf(v, c, d)["harness"] \in Images[v]
                   /\ Config!SetFields(c) \cup Config!SetFields(d) \subseteq Knows[v]
  <2>3. Config!WorkerTurn(v, p, c, d, resume) =
          [version |-> v, by |-> p, config |-> c, turn_config |-> d, state |-> IF ok THEN "running" ELSE "refused",
           spec |-> SpecOf(v, c, d), workspace |-> w]
    <3>1. Knows = ImageKnows
      BY DEF Knows
    <3>2. /\ Config!Apply(Config!Apply(Versions[v], c), d) = SpecOf(v, c, d)
          /\ Config!SetFields(c) = Config!SetFields(c) /\ Config!SetFields(d) = Config!SetFields(d)
      BY ConfigsShare DEF SpecOf
    <3> HIDE DEF c, v
    <3>3. QED
      BY <3>1, <3>2 DEF Config!WorkerTurn, Config!Understands, Config!HarnessBaked
  <2>4. \E schema : /\ handle[p].known => schema = SpecOf(v, c, d)["schema"]
                    /\ Config!Follows(p, Len(turns) + 1, FALSE, c, d) =
                         [turn |-> Len(turns) + 1, adopted |-> FALSE, schema |-> schema, informed |-> handle[p].known]
    BY ConfigsShare DEF Config!Follows, Config!ClientSpec, SpecOf
  <2>5. Len(turns) < ConfigTurns /\ UNCHANGED <<recorded, opened, stored, handle, snapshot, read>>
    BY <1>7 DEF Config!Submit
  <2>6. Submits(p)
    <3>1. w = SpecOf(v, c, d)["repos"] \/ (w = snapshot /\ snapshot # "none")
      OBVIOUS
    <3>2. PICK state \in {"running", "refused"} : state = (IF ok THEN "running" ELSE "refused")
      OBVIOUS
    <3>3. state = "running" => ok
      BY <3>2
    <3> HIDE DEF w
    <3>4. turns' = Append(turns, [version |-> v, by |-> p, config |-> c, turn_config |-> d, state |-> state,
                                  spec |-> SpecOf(v, c, d), workspace |-> w])
      BY <2>1, <2>3, <3>2
    <3>5. Submission(p, d, w, state)
      BY <2>1, <2>4, <3>1, <3>3, <3>4 DEF Submission
    <3>6. QED
      BY <2>2, <2>5, <3>5 DEF Submits
  <2>7. QED
    BY <2>6 DEF ConfigStep
<1>8. ASSUME NEW p \in ConfigProcs, Config!ClientEnds(p) PROVE ConfigStep
  <2>1. Concludes(p)
    BY <1>8, ConfigsShare DEF Config!ClientEnds, Concludes
  <2>2. QED
    BY <2>1 DEF ConfigStep
<1>9. ASSUME NEW p \in ConfigProcs, Config!Restart(p) PROVE ConfigStep
  <2> DEFINE dead == {t \in 1..Len(turns) : FALSE /\ turns[t].state = "running"}
  <2>1. dead \in SUBSET {t \in 1..Len(turns) : turns[t].state = "running"}
    OBVIOUS
  <2>2. turns' = [t \in 1..Len(turns) |-> IF t \in dead THEN [turns[t] EXCEPT !.state = "dead"] ELSE turns[t]]
    BY <1>9 DEF Config!Restart
  <2> HIDE DEF dead
  <2>3. Restarts(p)
    BY <1>9, <2>1, <2>2, ConfigsShare DEF Config!Restart, Restarts
  <2>4. QED
    BY <2>3 DEF ConfigStep
<1>10. ASSUME NEW t \in 1..Len(turns), Config!WorkerEnds(t) PROVE ConfigStep
  BY <1>10 DEF Config!WorkerEnds, ConfigStep, Finishes
<1>11. QED
  BY <1>1, <1>2, <1>3, <1>4, <1>5, <1>6, <1>7, <1>8, <1>9, <1>10 DEF Config!Next

LEMMA ReapedConfigSteps ==
    ASSUME part = "reaped_config", ConfigTypes, ReapedConfig!Next
    PROVE  ConfigStep
<1>1. ASSUME ReapedConfig!Deploy PROVE ConfigStep
  BY <1>1 DEF ReapedConfig!Deploy, ConfigStep, Deploys
<1>2. ASSUME ReapedConfig!Reap PROVE ConfigStep
  BY <1>2 DEF ReapedConfig!Reap, ConfigStep, Reaps
<1>3. ASSUME NEW p \in ConfigProcs, ReapedConfig!GetEngine(p) PROVE ConfigStep
  <2>1. GetsEngine(p)
    BY <1>3, ConfigsShare DEF ReapedConfig!GetEngine, GetsEngine
  <2>2. QED
    BY <2>1 DEF ConfigStep
<1>4. ASSUME NEW p \in ConfigProcs, ReapedConfig!StartSession(p) PROVE ConfigStep
  <2>1. Nothing \notin SessionChoices
    BY SessionAssumption DEF ReapedConfig!SessionConfigsAssumption
  <2>2. StartsSession(p)
    BY <1>4, <2>1, ConfigsShare DEF ReapedConfig!StartSession, StartsSession, Choices, Resolved
  <2>3. QED
    BY <2>2 DEF ConfigStep
<1>5. ASSUME NEW p \in ConfigProcs, ReapedConfig!GetSession(p) PROVE ConfigStep
  <2>1. GetsSession(p)
    BY <1>5, ConfigsShare DEF ReapedConfig!GetSession, ReapedConfig!LoadLocally, GetsSession, Resolved
  <2>2. QED
    BY <2>1 DEF ConfigStep
<1>6. ASSUME NEW p \in ConfigProcs, ReapedConfig!Attach(p) PROVE ConfigStep
  <2>1. session[p] \in SessionRecord(AllChoices) /\ session[p].open = TRUE /\ Config!ConfigOf(p) \in AllChoices
    BY <1>6, ConfigOfIsAChoice DEF ReapedConfig!Attach, ConfigTypes
  <2>2. [session[p] EXCEPT !.foreign = FALSE, !.resolved = TRUE, !.config = Config!ConfigOf(p)]
          = [open |-> TRUE, resolved |-> TRUE, foreign |-> FALSE, config |-> Config!ConfigOf(p)]
    BY ONLY <2>1, Rebound, Zenon
  <2>3. \A t, a, b : ReapedConfig!Follows(p, t, TRUE, a, b).adopted = TRUE /\ ReapedConfig!Follows(p, t, TRUE, a, b).turn = t
    BY DEF ReapedConfig!Follows
  <2>5. ReapedConfig!FindRunning \in 0..Len(turns) /\ g_run[p] = Config!NoRun
    BY <1>6, ConfigsShare DEF ReapedConfig!FindRunning, ReapedConfig!Attach, ConfigTypes
  <2>4. Attaches(p)
    <3>1. CASE ReapedConfig!ResolveRaises(p) /\ session' = [session EXCEPT ![p].foreign = FALSE] /\ g_run' = g_run
      BY <1>6, <2>5, <3>1 DEF ReapedConfig!Attach, Attaches
    <3>2. CASE /\ session' = [session EXCEPT ![p] = [session[p] EXCEPT !.foreign = FALSE, !.resolved = TRUE, !.config = ReapedConfig!ConfigOf(p)]]
               /\ g_run' = IF ReapedConfig!FindRunning = 0 THEN g_run
                           ELSE [g_run EXCEPT ![p] = ReapedConfig!Follows(p, ReapedConfig!FindRunning, TRUE, ReapedConfig!ConfigOf(p), ReapedConfig!Unset)]
      <4>1. Resolved(p, Config!ConfigOf(p))
        BY <2>2, <3>2, ConfigsShare DEF Resolved
      <4>2. g_run' = g_run \/ \E r : r.adopted = TRUE /\ r.turn \in 0..Len(turns) /\ g_run' = [g_run EXCEPT ![p] = r]
        <5> DEFINE r == ReapedConfig!Follows(p, ReapedConfig!FindRunning, TRUE, ReapedConfig!ConfigOf(p), ReapedConfig!Unset)
        <5>1. r.adopted = TRUE /\ r.turn \in 0..Len(turns)
          BY <2>3, <2>5
        <5>2. g_run' = g_run \/ g_run' = [g_run EXCEPT ![p] = r]
          BY <3>2
        <5> HIDE DEF r
        <5>3. QED
          BY <5>1, <5>2
      <4>3. QED
        BY <1>6, <2>5, <4>1, <4>2 DEF ReapedConfig!Attach, Attaches
    <3>3. QED
      BY <1>6, <3>1, <3>2 DEF ReapedConfig!Attach
  <2>6. QED
    BY <2>4 DEF ConfigStep
<1>7. ASSUME NEW p \in ConfigProcs, ReapedConfig!Submit(p) PROVE ConfigStep
  <2> DEFINE c == Config!ConfigOf(p)
             v == handle[p].version
  <2>1. PICK d \in TurnChoices, resume \in BOOLEAN :
          /\ turns' = Append(turns, ReapedConfig!WorkerTurn(v, p, c, d, resume))
          /\ g_run' = [g_run EXCEPT ![p] = ReapedConfig!Follows(p, Len(turns) + 1, FALSE, c, d)]
    BY <1>7, ConfigsShare, SessionAssumption DEF ReapedConfig!Submit
  <2>2. Resolved(p, c) /\ session[p].open
    <3>1. /\ session[p] \in SessionRecord(AllChoices) /\ session[p].open = TRUE /\ session[p].foreign = FALSE
          /\ c \in AllChoices
      BY <1>7, ConfigOfIsAChoice DEF ReapedConfig!Submit, ConfigTypes, SessionRecord
    <3>2. [session[p] EXCEPT !.resolved = TRUE, !.config = c] = [open |-> TRUE, resolved |-> TRUE, foreign |-> FALSE, config |-> c]
      BY ONLY <3>1, Rebound, Zenon
    <3>3. QED
      BY <1>7, <3>1, <3>2, ConfigsShare DEF ReapedConfig!Submit, Resolved
  <2> DEFINE w == IF resume /\ snapshot # "none" THEN snapshot ELSE SpecOf(v, c, d)["repos"]
             ok == /\ SpecOf(v, c, d)["harness"] \in Images[v]
                   /\ Config!SetFields(c) \cup Config!SetFields(d) \subseteq Knows[v]
  <2>3. ReapedConfig!WorkerTurn(v, p, c, d, resume) =
          [version |-> v, by |-> p, config |-> c, turn_config |-> d, state |-> IF ok THEN "running" ELSE "refused",
           spec |-> SpecOf(v, c, d), workspace |-> w]
    <3>1. Knows = KnowsAll
      BY DEF Knows
    <3>2. /\ ReapedConfig!Apply(ReapedConfig!Apply(Versions[v], c), d) = SpecOf(v, c, d)
          /\ ReapedConfig!SetFields(c) = Config!SetFields(c) /\ ReapedConfig!SetFields(d) = Config!SetFields(d)
      BY ConfigsShare DEF SpecOf
    <3> HIDE DEF c, v
    <3>3. QED
      BY <3>1, <3>2 DEF ReapedConfig!WorkerTurn, ReapedConfig!Understands, ReapedConfig!HarnessBaked
  <2>4. \E schema : /\ handle[p].known => schema = SpecOf(v, c, d)["schema"]
                    /\ ReapedConfig!Follows(p, Len(turns) + 1, FALSE, c, d) =
                         [turn |-> Len(turns) + 1, adopted |-> FALSE, schema |-> schema, informed |-> handle[p].known]
    BY ConfigsShare DEF ReapedConfig!Follows, ReapedConfig!ClientSpec, SpecOf
  <2>5. Len(turns) < ConfigTurns /\ UNCHANGED <<recorded, opened, stored, handle, snapshot, read>>
    BY <1>7 DEF ReapedConfig!Submit
  <2>6. Submits(p)
    <3>1. w = SpecOf(v, c, d)["repos"] \/ (w = snapshot /\ snapshot # "none")
      OBVIOUS
    <3>2. PICK state \in {"running", "refused"} : state = (IF ok THEN "running" ELSE "refused")
      OBVIOUS
    <3>3. state = "running" => ok
      BY <3>2
    <3> HIDE DEF w
    <3>4. turns' = Append(turns, [version |-> v, by |-> p, config |-> c, turn_config |-> d, state |-> state,
                                  spec |-> SpecOf(v, c, d), workspace |-> w])
      BY <2>1, <2>3, <3>2
    <3>5. Submission(p, d, w, state)
      BY <2>1, <2>4, <3>1, <3>3, <3>4 DEF Submission
    <3>6. QED
      BY <2>2, <2>5, <3>5 DEF Submits
  <2>7. QED
    BY <2>6 DEF ConfigStep
<1>8. ASSUME NEW p \in ConfigProcs, ReapedConfig!ClientEnds(p) PROVE ConfigStep
  <2>1. Concludes(p)
    BY <1>8, ConfigsShare DEF ReapedConfig!ClientEnds, Concludes
  <2>2. QED
    BY <2>1 DEF ConfigStep
<1>9. ASSUME NEW p \in ConfigProcs, ReapedConfig!Restart(p) PROVE ConfigStep
  <2> DEFINE dead == {t \in 1..Len(turns) : FALSE /\ turns[t].state = "running"}
  <2>1. dead \in SUBSET {t \in 1..Len(turns) : turns[t].state = "running"}
    OBVIOUS
  <2>2. turns' = [t \in 1..Len(turns) |-> IF t \in dead THEN [turns[t] EXCEPT !.state = "dead"] ELSE turns[t]]
    BY <1>9 DEF ReapedConfig!Restart
  <2> HIDE DEF dead
  <2>3. Restarts(p)
    BY <1>9, <2>1, <2>2, ConfigsShare DEF ReapedConfig!Restart, Restarts
  <2>4. QED
    BY <2>3 DEF ConfigStep
<1>10. ASSUME NEW t \in 1..Len(turns), ReapedConfig!WorkerEnds(t) PROVE ConfigStep
  BY <1>10 DEF ReapedConfig!WorkerEnds, ConfigStep, Finishes
<1>11. QED
  BY <1>1, <1>2, <1>3, <1>4, <1>5, <1>6, <1>7, <1>8, <1>9, <1>10 DEF ReapedConfig!Next

LEMMA LocalConfigSteps ==
    ASSUME part = "local_config", ConfigTypes, LocalConfig!Next
    PROVE  ConfigStep
<1>1. ASSUME LocalConfig!Deploy PROVE ConfigStep
  BY <1>1 DEF LocalConfig!Deploy, ConfigStep, Deploys
<1>2. ASSUME LocalConfig!Reap PROVE ConfigStep
  BY <1>2 DEF LocalConfig!Reap, ConfigStep, Reaps
<1>3. ASSUME NEW p \in ConfigProcs, LocalConfig!GetEngine(p) PROVE ConfigStep
  <2>1. GetsEngine(p)
    BY <1>3, ConfigsShare DEF LocalConfig!GetEngine, GetsEngine
  <2>2. QED
    BY <2>1 DEF ConfigStep
<1>4. ASSUME NEW p \in ConfigProcs, LocalConfig!StartSession(p) PROVE ConfigStep
  <2>1. Nothing \notin SessionChoices
    BY SessionAssumption DEF LocalConfig!SessionConfigsAssumption
  <2>2. StartsSession(p)
    BY <1>4, <2>1, ConfigsShare DEF LocalConfig!StartSession, StartsSession, Choices, Resolved
  <2>3. QED
    BY <2>2 DEF ConfigStep
<1>5. ASSUME NEW p \in ConfigProcs, LocalConfig!GetSession(p) PROVE ConfigStep
  <2>1. GetsSession(p)
    BY <1>5, ConfigsShare DEF LocalConfig!GetSession, LocalConfig!LoadLocally, GetsSession, Resolved
  <2>2. QED
    BY <2>1 DEF ConfigStep
<1>6. ASSUME NEW p \in ConfigProcs, LocalConfig!Attach(p) PROVE ConfigStep
  <2>1. session[p] \in SessionRecord(AllChoices) /\ session[p].open = TRUE /\ Config!ConfigOf(p) \in AllChoices
    BY <1>6, ConfigOfIsAChoice DEF LocalConfig!Attach, ConfigTypes
  <2>2. [session[p] EXCEPT !.foreign = FALSE, !.resolved = TRUE, !.config = Config!ConfigOf(p)]
          = [open |-> TRUE, resolved |-> TRUE, foreign |-> FALSE, config |-> Config!ConfigOf(p)]
    BY ONLY <2>1, Rebound, Zenon
  <2>3. \A t, a, b : LocalConfig!Follows(p, t, TRUE, a, b).adopted = TRUE /\ LocalConfig!Follows(p, t, TRUE, a, b).turn = t
    BY DEF LocalConfig!Follows
  <2>5. LocalConfig!FindRunning \in 0..Len(turns) /\ g_run[p] = Config!NoRun
    BY <1>6, ConfigsShare DEF LocalConfig!FindRunning, LocalConfig!Attach, ConfigTypes
  <2>4. Attaches(p)
    <3>1. CASE LocalConfig!ResolveRaises(p) /\ session' = [session EXCEPT ![p].foreign = FALSE] /\ g_run' = g_run
      BY <1>6, <2>5, <3>1 DEF LocalConfig!Attach, Attaches
    <3>2. CASE /\ session' = [session EXCEPT ![p] = [session[p] EXCEPT !.foreign = FALSE, !.resolved = TRUE, !.config = LocalConfig!ConfigOf(p)]]
               /\ g_run' = IF LocalConfig!FindRunning = 0 THEN g_run
                           ELSE [g_run EXCEPT ![p] = LocalConfig!Follows(p, LocalConfig!FindRunning, TRUE, LocalConfig!ConfigOf(p), LocalConfig!Unset)]
      <4>1. Resolved(p, Config!ConfigOf(p))
        BY <2>2, <3>2, ConfigsShare DEF Resolved
      <4>2. g_run' = g_run \/ \E r : r.adopted = TRUE /\ r.turn \in 0..Len(turns) /\ g_run' = [g_run EXCEPT ![p] = r]
        <5> DEFINE r == LocalConfig!Follows(p, LocalConfig!FindRunning, TRUE, LocalConfig!ConfigOf(p), LocalConfig!Unset)
        <5>1. r.adopted = TRUE /\ r.turn \in 0..Len(turns)
          BY <2>3, <2>5
        <5>2. g_run' = g_run \/ g_run' = [g_run EXCEPT ![p] = r]
          BY <3>2
        <5> HIDE DEF r
        <5>3. QED
          BY <5>1, <5>2
      <4>3. QED
        BY <1>6, <2>5, <4>1, <4>2 DEF LocalConfig!Attach, Attaches
    <3>3. QED
      BY <1>6, <3>1, <3>2 DEF LocalConfig!Attach
  <2>6. QED
    BY <2>4 DEF ConfigStep
<1>7. ASSUME NEW p \in ConfigProcs, LocalConfig!Submit(p) PROVE ConfigStep
  <2> DEFINE c == Config!ConfigOf(p)
             v == handle[p].version
  <2>1. PICK d \in TurnChoices, resume \in BOOLEAN :
          /\ turns' = Append(turns, LocalConfig!WorkerTurn(v, p, c, d, resume))
          /\ g_run' = [g_run EXCEPT ![p] = LocalConfig!Follows(p, Len(turns) + 1, FALSE, c, d)]
    BY <1>7, ConfigsShare DEF LocalConfig!Submit
  <2>2. Resolved(p, c) /\ session[p].open
    <3>1. /\ session[p] \in SessionRecord(AllChoices) /\ session[p].open = TRUE /\ session[p].foreign = FALSE
          /\ c \in AllChoices
      BY <1>7, ConfigOfIsAChoice DEF LocalConfig!Submit, ConfigTypes, SessionRecord
    <3>2. [session[p] EXCEPT !.resolved = TRUE, !.config = c] = [open |-> TRUE, resolved |-> TRUE, foreign |-> FALSE, config |-> c]
      BY ONLY <3>1, Rebound, Zenon
    <3>3. QED
      BY <1>7, <3>1, <3>2, ConfigsShare DEF LocalConfig!Submit, Resolved
  <2> DEFINE w == IF resume /\ snapshot # "none" THEN snapshot ELSE SpecOf(v, c, d)["repos"]
             ok == /\ SpecOf(v, c, d)["harness"] \in Images[v]
                   /\ Config!SetFields(c) \cup Config!SetFields(d) \subseteq Knows[v]
  <2>3. LocalConfig!WorkerTurn(v, p, c, d, resume) =
          [version |-> v, by |-> p, config |-> c, turn_config |-> d, state |-> IF ok THEN "running" ELSE "refused",
           spec |-> SpecOf(v, c, d), workspace |-> w]
    <3>1. Knows = KnowsAll
      BY DEF Knows
    <3>2. /\ LocalConfig!Apply(LocalConfig!Apply(Versions[v], c), d) = SpecOf(v, c, d)
          /\ LocalConfig!SetFields(c) = Config!SetFields(c) /\ LocalConfig!SetFields(d) = Config!SetFields(d)
      BY ConfigsShare DEF SpecOf
    <3> HIDE DEF c, v
    <3>3. QED
      BY <3>1, <3>2 DEF LocalConfig!WorkerTurn, LocalConfig!Understands, LocalConfig!HarnessBaked
  <2>4. \E schema : /\ handle[p].known => schema = SpecOf(v, c, d)["schema"]
                    /\ LocalConfig!Follows(p, Len(turns) + 1, FALSE, c, d) =
                         [turn |-> Len(turns) + 1, adopted |-> FALSE, schema |-> schema, informed |-> handle[p].known]
    BY ConfigsShare DEF LocalConfig!Follows, LocalConfig!ClientSpec, SpecOf
  <2>5. Len(turns) < ConfigTurns /\ UNCHANGED <<recorded, opened, stored, handle, snapshot, read>>
    BY <1>7 DEF LocalConfig!Submit
  <2>6. Submits(p)
    <3>1. w = SpecOf(v, c, d)["repos"] \/ (w = snapshot /\ snapshot # "none")
      OBVIOUS
    <3>2. PICK state \in {"running", "refused"} : state = (IF ok THEN "running" ELSE "refused")
      OBVIOUS
    <3>3. state = "running" => ok
      BY <3>2
    <3> HIDE DEF w
    <3>4. turns' = Append(turns, [version |-> v, by |-> p, config |-> c, turn_config |-> d, state |-> state,
                                  spec |-> SpecOf(v, c, d), workspace |-> w])
      BY <2>1, <2>3, <3>2
    <3>5. Submission(p, d, w, state)
      BY <2>1, <2>4, <3>1, <3>3, <3>4 DEF Submission
    <3>6. QED
      BY <2>2, <2>5, <3>5 DEF Submits
  <2>7. QED
    BY <2>6 DEF ConfigStep
<1>8. ASSUME NEW p \in ConfigProcs, LocalConfig!ClientEnds(p) PROVE ConfigStep
  <2>1. Concludes(p)
    BY <1>8, ConfigsShare DEF LocalConfig!ClientEnds, Concludes
  <2>2. QED
    BY <2>1 DEF ConfigStep
<1>9. ASSUME NEW p \in ConfigProcs, LocalConfig!Restart(p) PROVE ConfigStep
  <2> DEFINE dead == {t \in 1..Len(turns) : t = g_run[p].turn /\ turns[t].state = "running"}
  <2>1. dead \in SUBSET {t \in 1..Len(turns) : turns[t].state = "running"}
    OBVIOUS
  <2>2. turns' = [t \in 1..Len(turns) |-> IF t \in dead THEN [turns[t] EXCEPT !.state = "dead"] ELSE turns[t]]
    BY <1>9 DEF LocalConfig!Restart
  <2> HIDE DEF dead
  <2>3. Restarts(p)
    BY <1>9, <2>1, <2>2, ConfigsShare DEF LocalConfig!Restart, Restarts
  <2>4. QED
    BY <2>3 DEF ConfigStep
<1>10. ASSUME NEW t \in 1..Len(turns), LocalConfig!WorkerEnds(t) PROVE ConfigStep
  BY <1>10 DEF LocalConfig!WorkerEnds, ConfigStep, Finishes
<1>11. QED
  BY <1>1, <1>2, <1>3, <1>4, <1>5, <1>6, <1>7, <1>8, <1>9, <1>10 DEF LocalConfig!Next
\* A turn that was submitted keeps what it was submitted with.
Aged ==
    /\ DOMAIN turns' = DOMAIN turns
    /\ \A i \in DOMAIN turns :
         /\ turns'[i].version = turns[i].version /\ turns'[i].config = turns[i].config
         /\ turns'[i].turn_config = turns[i].turn_config /\ turns'[i].spec = turns[i].spec
         /\ turns'[i].workspace = turns[i].workspace
         /\ turns'[i].state = "refused" <=> turns[i].state = "refused"

\* What is submitted: the merge, by a worker that may refuse it, on what was restored or made.
Made(r, p) ==
    /\ r.version = handle[p].version /\ r.config = Config!ConfigOf(p) /\ r.turn_config \in TurnChoices
    /\ r.spec = SpecOf(r.version, r.config, r.turn_config)
    /\ r.state # "refused" =>
         /\ r.spec["harness"] \in Images[r.version]
         /\ Config!SetFields(r.config) \cup Config!SetFields(r.turn_config) \subseteq Knows[r.version]
    /\ r.workspace = r.spec["repos"] \/ (snapshot # "none" /\ r.workspace = snapshot)

LEMMA Submitted ==
    ASSUME ConfigTypes, NEW p \in ConfigProcs, Submits(p)
    PROVE  \E r \in TurnRecord :
             /\ turns' = Append(turns, r) /\ Made(r, p)
             /\ \E schema : /\ handle[p].known => schema = r.spec["schema"]
                            /\ g_run' = [g_run EXCEPT ![p] = [turn |-> Len(turns) + 1, adopted |-> FALSE,
                                                             schema |-> schema, informed |-> handle[p].known]]
<1> DEFINE c == Config!ConfigOf(p)
           v == handle[p].version
<1>0. PICK d \in TurnChoices, state \in {"running", "refused"} : \E w : Submission(p, d, w, state)
  BY DEF Submits
<1>1. PICK w : Submission(p, d, w, state)
  BY <1>0
<1> DEFINE r == [version |-> v, by |-> p, config |-> c, turn_config |-> d, state |-> state,
                 spec |-> SpecOf(v, c, d), workspace |-> w]
<1>2. v \in Nat /\ c \in AllChoices /\ snapshot \in AllRepos
  BY ConfigOfIsAChoice DEF ConfigTypes
<1>3. SpecOf(v, c, d) \in AllSpecs
  BY <1>2 DEF AllSpecs
<1>4. w \in AllRepos
  BY <1>1, <1>2, <1>3 DEF Submission, AllRepos
<1> HIDE DEF c, v
<1>5. r \in TurnRecord
  BY <1>2, <1>3, <1>4 DEF TurnRecord
<1>6. Made(r, p)
  BY <1>1 DEF Submission, Made, c, v
<1>7. r.spec = SpecOf(v, c, d)
  OBVIOUS
<1>8. turns' = Append(turns, r)
  BY <1>1 DEF Submission, c, v
<1>9. \E schema : /\ handle[p].known => schema = r.spec["schema"]
                  /\ g_run' = [g_run EXCEPT ![p] = [turn |-> Len(turns) + 1, adopted |-> FALSE,
                                                    schema |-> schema, informed |-> handle[p].known]]
  BY <1>1, <1>7 DEF Submission, c, v
<1> HIDE DEF r
<1>10. QED
  BY <1>5, <1>6, <1>8, <1>9

LEMMA Grown ==
    ASSUME ConfigTypes, NEW r \in TurnRecord, turns' = Append(turns, r)
    PROVE  /\ turns' \in Seq(TurnRecord) /\ DOMAIN turns' = DOMAIN turns \cup {Len(turns) + 1}
           /\ Len(turns) \in Nat /\ DOMAIN turns = 1..Len(turns)
           /\ turns'[Len(turns) + 1] = r /\ \A i \in DOMAIN turns : turns'[i] = turns[i]
BY DEF ConfigTypes

LEMMA Ages ==
    ASSUME ConfigTypes, (\E t \in 1..Len(turns) : Finishes(t)) \/ (\E p \in ConfigProcs : Restarts(p))
    PROVE  turns' \in Seq(TurnRecord) /\ Aged
<1> DEFINE n == Len(turns)
<1>1. n \in Nat /\ DOMAIN turns = 1..n /\ \A i \in 1..n : turns[i] \in TurnRecord
  BY DEF ConfigTypes
<1>2. PICK f \in {"done", "dead"}, S \in SUBSET (1..n) :
        /\ \A i \in S : turns[i].state = "running"
        /\ turns' = [i \in 1..n |-> turns'[i]]
        /\ \A i \in 1..n : turns'[i] = IF i \in S THEN [turns[i] EXCEPT !.state = f] ELSE turns[i]
  <2>1. CASE \E t \in 1..n : Finishes(t)
    <3>1. PICK t \in 1..n : turns[t].state = "running" /\ turns' = [turns EXCEPT ![t].state = "done"]
      BY <2>1 DEF Finishes
    <3> DEFINE over == [turns[t] EXCEPT !.state = "done"]
    <3>2. turns' = [turns EXCEPT ![t] = over]
      BY <3>1
    <3>3. over = [turns[t] EXCEPT !.state = "done"]
      OBVIOUS
    <3> HIDE DEF over
    <3>4. turns' = [i \in 1..n |-> turns'[i]] /\ \A i \in 1..n : turns'[i] = IF i = t THEN over ELSE turns[i]
      BY ONLY <1>1, <3>2
    <3>5. \A i \in 1..n : turns'[i] = IF i \in {t} THEN [turns[i] EXCEPT !.state = "done"] ELSE turns[i]
      BY ONLY <3>3, <3>4
    <3>6. QED
      BY <3>1, <3>4, <3>5
  <2>2. CASE \E p \in ConfigProcs : Restarts(p)
    <3>1. PICK dead \in SUBSET {t \in 1..n : turns[t].state = "running"} :
            turns' = [t \in 1..n |-> IF t \in dead THEN [turns[t] EXCEPT !.state = "dead"] ELSE turns[t]]
      BY <2>2 DEF Restarts
    <3>2. dead \in SUBSET (1..n) /\ \A i \in dead : turns[i].state = "running"
      OBVIOUS
    <3>3. /\ turns' = [t \in 1..n |-> turns'[t]]
          /\ \A i \in 1..n : turns'[i] = IF i \in dead THEN [turns[i] EXCEPT !.state = "dead"] ELSE turns[i]
      BY ONLY <3>1
    <3>4. QED
      BY <3>2, <3>3
  <2>3. QED
    BY <2>1, <2>2
<1>3. ASSUME NEW i \in 1..n, NEW r, r = IF i \in S THEN [turns[i] EXCEPT !.state = f] ELSE turns[i]
      PROVE  /\ r \in TurnRecord /\ r.version = turns[i].version /\ r.config = turns[i].config
             /\ r.turn_config = turns[i].turn_config /\ r.spec = turns[i].spec /\ r.workspace = turns[i].workspace
             /\ r.state = "refused" <=> turns[i].state = "refused"
  <2>1. CASE i \in S
    BY <1>1, <1>2, <1>3, <2>1 DEF TurnRecord
  <2>2. CASE i \notin S
    BY <1>1, <1>3, <2>2
  <2>3. QED
    BY <2>1, <2>2
<1>4. \A i \in 1..n : turns'[i] = IF i \in S THEN [turns[i] EXCEPT !.state = f] ELSE turns[i]
  BY <1>2
<1>5. DOMAIN turns' = 1..n /\ turns' = [i \in 1..n |-> turns'[i]]
  BY ONLY <1>2
<1>6. \A i \in 1..n : turns'[i] \in TurnRecord
  BY <1>3, <1>4
<1>7. turns' \in [1..n -> TurnRecord]
  BY <1>5, <1>6
<1>8. turns' \in Seq(TurnRecord)
  BY <1>1, <1>7
<1>9. Aged
  BY <1>1, <1>3, <1>4, <1>5 DEF Aged
<1>10. QED
  BY <1>8, <1>9

\* What is touched: the turns by three kinds of steps only.
LEMMA TurnsStep ==
    ASSUME ConfigTypes, ConfigStep
    PROVE  \/ UNCHANGED turns
           \/ turns' \in Seq(TurnRecord) /\ Aged
           \/ \E p \in ConfigProcs : Submits(p)
<1>1. CASE (\E t \in 1..Len(turns) : Finishes(t)) \/ (\E p \in ConfigProcs : Restarts(p))
  BY <1>1, Ages
<1>2. CASE Deploys \/ Reaps
  BY <1>2 DEF Deploys, Reaps
<1>3. ASSUME NEW p \in ConfigProcs, GetsEngine(p) \/ StartsSession(p) \/ GetsSession(p) \/ Attaches(p) \/ Concludes(p)
      PROVE  UNCHANGED turns
  BY <1>3 DEF GetsEngine, StartsSession, GetsSession, Attaches, Concludes
<1>4. QED
  BY <1>1, <1>2, <1>3 DEF ConfigStep

\* A turn is merged when it is submitted.
LEMMA MergedStep ==
    ASSUME ConfigTypes, OpenWithEngine, Merged, UNCHANGED part, ConfigStep
    PROVE  Merged'
<1>1. Knows' = Knows
  BY DEF Knows
<1>2. CASE UNCHANGED turns
  BY <1>1, <1>2 DEF Merged
<1>3. CASE Aged
  BY <1>1, <1>3 DEF Merged, Aged
<1>4. ASSUME NEW p \in ConfigProcs, Submits(p) PROVE Merged'
  <2>1. PICK r \in TurnRecord : turns' = Append(turns, r) /\ Made(r, p)
    BY <1>4, Submitted
  <2>2. handle[p].version \in 1..Len(Versions)
    BY <1>4 DEF Submits, OpenWithEngine
  <2>3. /\ DOMAIN turns' = DOMAIN turns \cup {Len(turns) + 1}
        /\ turns'[Len(turns) + 1] = r /\ \A i \in DOMAIN turns : turns'[i] = turns[i]
    BY <2>1, Grown
  <2> DEFINE MergedTurn(q) ==
        /\ q.version \in 1..Len(Versions) /\ q.spec = SpecOf(q.version, q.config, q.turn_config)
        /\ q.state # "refused" =>
             /\ q.spec["harness"] \in Images[q.version]
             /\ Config!SetFields(q.config) \cup Config!SetFields(q.turn_config) \subseteq Knows[q.version]
  <2>4. MergedTurn(r)
    BY <2>1, <2>2 DEF Made
  <2>5. \A t \in DOMAIN turns : MergedTurn(turns[t])
    BY DEF Merged
  <2> HIDE DEF MergedTurn
  <2>6. \A t \in DOMAIN turns' : MergedTurn(turns'[t])
    BY <2>3, <2>4, <2>5
  <2>7. QED
    BY <1>1, <2>6 DEF Merged, MergedTurn
<1>5. QED
  BY <1>2, <1>3, <1>4, TurnsStep

\* A handle does not change while a turn is followed.
ReadsLater(r) ==
    r.informed /\ ~r.adopted => r.turn \in DOMAIN turns' /\ r.schema = turns'[r.turn].spec["schema"]

LEMMA SchemasStep ==
    ASSUME ConfigTypes, Schemas, ConfigStep
    PROVE  Schemas'
<1>1. ASSUME NEW r, ReadsAsStarted(r) PROVE ReadsLater(r)
  <2>1. CASE UNCHANGED turns
    BY <1>1, <2>1 DEF ReadsAsStarted, ReadsLater
  <2>2. CASE Aged
    BY <1>1, <2>2 DEF ReadsAsStarted, ReadsLater, Aged
  <2>3. ASSUME NEW p \in ConfigProcs, Submits(p) PROVE ReadsLater(r)
    <3>1. PICK e \in TurnRecord : turns' = Append(turns, e)
      BY <2>3, Submitted
    <3>2. QED
      BY <1>1, <3>1, Grown DEF ReadsAsStarted, ReadsLater
  <2>4. QED
    BY <2>1, <2>2, <2>3, TurnsStep
<1>2. SUFFICES (\A q \in ConfigProcs : ReadsLater(g_run'[q])) /\ (\A r \in read' : ReadsLater(r))
  BY DEF Schemas, ReadsAsStarted, ReadsLater
<1>3. /\ \A q \in ConfigProcs : ReadsLater(g_run[q])
      /\ \A r \in read : ReadsLater(r)
  BY <1>1 DEF Schemas
<1>4. CASE UNCHANGED <<g_run, read>>
  BY <1>3, <1>4
\* Another run in the place of one.
<1>5. ASSUME NEW p \in ConfigProcs, NEW r, ReadsLater(r), g_run' = [g_run EXCEPT ![p] = r]
      PROVE  \A q \in ConfigProcs : ReadsLater(g_run'[q])
  BY <1>3, <1>5 DEF ConfigTypes
<1>6. ReadsLater(Config!NoRun)
  BY DEF ReadsLater, Config!NoRun
<1>7. ASSUME NEW p \in ConfigProcs, Attaches(p) \/ Concludes(p) \/ Restarts(p)
      PROVE  (\A q \in ConfigProcs : ReadsLater(g_run'[q])) /\ (\A r \in read' : ReadsLater(r))
  <2>1. \A r \in read' : ReadsLater(r)
    BY <1>3, <1>7 DEF Attaches, Concludes, Restarts
  <2>2. g_run' = g_run \/ \E r : ReadsLater(r) /\ g_run' = [g_run EXCEPT ![p] = r]
    BY <1>6, <1>7 DEF Attaches, Concludes, Restarts, ReadsLater
  <2>3. QED
    BY <1>3, <1>5, <2>1, <2>2
<1>8. ASSUME NEW p \in ConfigProcs, Submits(p)
      PROVE  (\A q \in ConfigProcs : ReadsLater(g_run'[q])) /\ (\A r \in read' : ReadsLater(r))
  <2>1. PICK e \in TurnRecord :
          /\ turns' = Append(turns, e)
          /\ \E schema : /\ handle[p].known => schema = e.spec["schema"]
                         /\ g_run' = [g_run EXCEPT ![p] = [turn |-> Len(turns) + 1, adopted |-> FALSE,
                                                          schema |-> schema, informed |-> handle[p].known]]
    BY <1>8, Submitted
  <2>2. PICK schema : /\ handle[p].known => schema = e.spec["schema"]
                      /\ g_run' = [g_run EXCEPT ![p] = [turn |-> Len(turns) + 1, adopted |-> FALSE,
                                                       schema |-> schema, informed |-> handle[p].known]]
    BY <2>1
  <2> DEFINE r == [turn |-> Len(turns) + 1, adopted |-> FALSE, schema |-> schema, informed |-> handle[p].known]
  <2>3. ReadsLater(r)
    BY <2>1, <2>2, Grown DEF ReadsLater
  <2> HIDE DEF r
  <2>4. \A q \in ConfigProcs : ReadsLater(g_run'[q])
    BY <1>5, <2>2, <2>3 DEF r
  <2>5. UNCHANGED read
    BY <1>8 DEF Submits
  <2>6. QED
    BY <1>3, <2>4, <2>5
<1>9. ASSUME NEW p \in ConfigProcs, GetsEngine(p) \/ StartsSession(p) \/ GetsSession(p) PROVE UNCHANGED <<g_run, read>>
  BY <1>9 DEF GetsEngine, StartsSession, GetsSession
<1>10. CASE Deploys \/ Reaps \/ \E t \in 1..Len(turns) : Finishes(t)
  BY <1>4, <1>10 DEF Deploys, Reaps, Finishes
<1>11. QED
  BY <1>4, <1>7, <1>8, <1>9, <1>10 DEF ConfigStep

\* What is stored is what was opened, until it is reaped.
LEMMA ConfigBoundStep ==
    ASSUME ConfigTypes, OpenWithEngine, ConfigBound, UNCHANGED part, ConfigStep
    PROVE  ConfigBound'
<1> SUFFICES ASSUME part # "local_config" PROVE ConfigBound'
  BY DEF ConfigBound
<1>1. /\ stored \in {Nothing, opened}
      /\ \A p \in ConfigProcs : session[p].open /\ session[p].resolved => IsBound(session[p].config)
      /\ \A t \in DOMAIN turns : IsBound(turns[t].config)
  BY DEF ConfigBound
<1> DEFINE Still(c) == opened' # Nothing /\ (c = opened' \/ (Config!Reaped' /\ c = Config!Unset))
<1>2. \A c : IsBound(c) => Still(c)
  <2> SUFFICES ASSUME NEW c, IsBound(c) PROVE Still(c)
    OBVIOUS
  <2>1. opened # Nothing /\ UNCHANGED opened
    BY DEF IsBound, ConfigStep, Deploys, Reaps, GetsEngine, StartsSession, GetsSession, Attaches, Submits, Concludes,
           Restarts, Finishes
  <2>2. stored = Nothing => stored' = Nothing
    BY <2>1 DEF ConfigStep, Deploys, Reaps, GetsEngine, StartsSession, GetsSession, Attaches, Submits, Concludes,
                Restarts, Finishes
  <2>3. Config!Reaped => Config!Reaped'
    BY <2>1, <2>2 DEF Config!Reaped, Config!Unset
  <2>4. QED
    BY <2>1, <2>3 DEF IsBound
<1>3. SUFFICES /\ stored' \in {Nothing, opened'}
               /\ \A p \in ConfigProcs : session'[p].open /\ session'[p].resolved => Still(session'[p].config)
               /\ \A t \in DOMAIN turns' : Still(turns'[t].config)
  BY DEF ConfigBound, IsBound, Config!Unset
<1> HIDE DEF Still
\* What an open session resolves to.
<1>4. \A p \in ConfigProcs : session[p].open => IsBound(Config!ConfigOf(p))
  BY <1>1 DEF OpenWithEngine, IsBound, Config!ConfigOf, Config!Found, Config!Reaped
<1>5. stored' \in {Nothing, opened'}
  BY <1>1 DEF ConfigStep, Deploys, Reaps, GetsEngine, StartsSession, GetsSession, Attaches, Submits, Concludes, Restarts, Finishes
<1>6. \A t \in DOMAIN turns' : Still(turns'[t].config)
  <2>1. CASE UNCHANGED turns
    BY <1>1, <1>2, <2>1
  <2>2. CASE Aged
    BY <1>1, <1>2, <2>2 DEF Aged
  <2>3. ASSUME NEW p \in ConfigProcs, Submits(p) PROVE \A t \in DOMAIN turns' : Still(turns'[t].config)
    <3>1. PICK r \in TurnRecord : turns' = Append(turns, r) /\ Made(r, p)
      BY <2>3, Submitted
    <3>2. Still(r.config)
      BY <1>2, <1>4, <2>3, <3>1 DEF Made, Submits
    <3>3. QED
      BY <1>1, <1>2, <3>1, <3>2, Grown
  <2>4. QED
    BY <2>1, <2>2, <2>3, TurnsStep
<1>7. \A p \in ConfigProcs : session'[p].open /\ session'[p].resolved => Still(session'[p].config)
  <2>1. CASE UNCHANGED session
    BY <1>1, <1>2, <2>1
  <2>2. ASSUME NEW p \in ConfigProcs, NEW c, Still(c), Resolved(p, c)
        PROVE  \A q \in ConfigProcs : session'[q].open /\ session'[q].resolved => Still(session'[q].config)
    BY <1>1, <1>2, <2>2 DEF Resolved, ConfigTypes
  <2>3. ASSUME NEW p \in ConfigProcs, StartsSession(p)
        PROVE  \A q \in ConfigProcs : session'[q].open /\ session'[q].resolved => Still(session'[q].config)
    <3>1. Still(opened')
      BY <2>3 DEF Still, StartsSession
    <3>2. QED
      BY <2>2, <2>3, <3>1 DEF StartsSession
  <2>4. ASSUME NEW p \in ConfigProcs, GetsSession(p) \/ Restarts(p)
        PROVE  \A q \in ConfigProcs : session'[q].open /\ session'[q].resolved => Still(session'[q].config)
    <3> DEFINE other == [open |-> TRUE, resolved |-> FALSE, foreign |-> TRUE, config |-> Nothing]
    <3>1. other.resolved = FALSE /\ Config!NoSession.resolved = FALSE
      BY DEF Config!NoSession
    <3>2. session' = [session EXCEPT ![p] = other] \/ session' = [session EXCEPT ![p] = Config!NoSession]
      BY <2>4 DEF GetsSession, Restarts
    <3> HIDE DEF other
    <3>3. session'[p].resolved = FALSE /\ \A q \in ConfigProcs \ {p} : session'[q] = session[q]
      BY <3>1, <3>2 DEF ConfigTypes
    <3>4. QED
      BY <1>1, <1>2, <3>3
  <2>5. ASSUME NEW p \in ConfigProcs, Attaches(p) \/ Submits(p)
        PROVE  \A q \in ConfigProcs : session'[q].open /\ session'[q].resolved => Still(session'[q].config)
    <3>1. CASE Resolved(p, Config!ConfigOf(p))
      BY <1>2, <1>4, <2>2, <2>5, <3>1 DEF Attaches, Submits
    <3>2. CASE session' = [session EXCEPT ![p].foreign = FALSE]
      BY <1>1, <1>2, <3>2 DEF ConfigTypes, SessionRecord
    <3>3. QED
      BY <2>5, <3>1, <3>2 DEF Attaches, Submits
  <2>6. CASE Deploys \/ Reaps \/ \E t \in 1..Len(turns) : Finishes(t)
    BY <2>1, <2>6 DEF Deploys, Reaps, Finishes
  <2>7. ASSUME NEW p \in ConfigProcs, GetsEngine(p) \/ Concludes(p) PROVE UNCHANGED session
    BY <2>7 DEF GetsEngine, Concludes
  <2>8. QED
    BY <2>1, <2>3, <2>4, <2>5, <2>6, <2>7 DEF ConfigStep
<1>8. QED
  BY <1>5, <1>6, <1>7

\* Every step keeps the types.
LEMMA ConfigTypesStep ==
    ASSUME ConfigTypes, OpenWithEngine, ConfigStep
    PROVE  ConfigTypes'
<1>1. turns' \in Seq(TurnRecord)
  <2>1. CASE UNCHANGED turns
    BY <2>1 DEF ConfigTypes
  <2>2. ASSUME NEW p \in ConfigProcs, Submits(p) PROVE turns' \in Seq(TurnRecord)
    BY <2>2, Submitted, Grown
  <2>3. QED
    BY <2>1, <2>2, TurnsStep
<1>2. session' \in [ConfigProcs -> SessionRecord(AllChoices)]
  <2>1. ASSUME NEW p \in ConfigProcs, NEW c \in AllChoices, Resolved(p, c)
        PROVE  session' \in [ConfigProcs -> SessionRecord(AllChoices)]
    BY <2>1 DEF Resolved, ConfigTypes, SessionRecord
  <2>2. ASSUME NEW p \in ConfigProcs, StartsSession(p)
        PROVE  session' \in [ConfigProcs -> SessionRecord(AllChoices)]
    BY <2>1, <2>2 DEF StartsSession, Choices, AllChoices
  <2>3. ASSUME NEW p \in ConfigProcs, GetsSession(p)
        PROVE  session' \in [ConfigProcs -> SessionRecord(AllChoices)]
    <3>1. CASE \E c \in {Config!Found, Config!Unset} : Resolved(p, c)
      BY <2>1, <3>1, ConfigOfIsAChoice
    <3>2. CASE session' = [session EXCEPT ![p] = [open |-> TRUE, resolved |-> FALSE, foreign |-> TRUE, config |-> Nothing]]
      BY <3>2 DEF ConfigTypes, SessionRecord, AllChoices
    <3>3. QED
      BY <2>3, <3>1, <3>2 DEF GetsSession
  <2>4. ASSUME NEW p \in ConfigProcs, Attaches(p) \/ Submits(p)
        PROVE  session' \in [ConfigProcs -> SessionRecord(AllChoices)]
    <3>1. CASE Resolved(p, Config!ConfigOf(p))
      BY <2>1, <3>1, ConfigOfIsAChoice
    <3>2. CASE session' = [session EXCEPT ![p].foreign = FALSE]
      BY <3>2 DEF ConfigTypes, SessionRecord
    <3>3. QED
      BY <2>4, <3>1, <3>2 DEF Attaches, Submits
  <2>5. ASSUME NEW p \in ConfigProcs, Restarts(p)
        PROVE  session' \in [ConfigProcs -> SessionRecord(AllChoices)]
    BY <2>5 DEF Restarts, ConfigTypes, SessionRecord, AllChoices, Config!NoSession
  <2>6. ASSUME NEW p \in ConfigProcs, GetsEngine(p) \/ Concludes(p) PROVE UNCHANGED session
    BY <2>6 DEF GetsEngine, Concludes
  <2>7. CASE Deploys \/ Reaps \/ \E t \in 1..Len(turns) : Finishes(t)
    BY <2>7 DEF Deploys, Reaps, Finishes, ConfigTypes
  <2>8. QED
    BY <2>2, <2>3, <2>4, <2>5, <2>6, <2>7 DEF ConfigStep, ConfigTypes
<1>3. DOMAIN g_run' = ConfigProcs
  <2>1. ASSUME NEW p \in ConfigProcs, Submits(p) PROVE DOMAIN g_run' = ConfigProcs
    BY <2>1, Submitted DEF ConfigTypes
  <2>2. ASSUME NEW p \in ConfigProcs, Attaches(p) \/ Restarts(p) \/ Concludes(p) PROVE DOMAIN g_run' = ConfigProcs
    BY <2>2 DEF Attaches, Restarts, Concludes, ConfigTypes
  <2>3. ASSUME NEW p \in ConfigProcs, GetsEngine(p) \/ StartsSession(p) \/ GetsSession(p) PROVE UNCHANGED g_run
    BY <2>3 DEF GetsEngine, StartsSession, GetsSession
  <2>4. CASE Deploys \/ Reaps \/ \E t \in 1..Len(turns) : Finishes(t)
    BY <2>4 DEF Deploys, Reaps, Finishes, ConfigTypes
  <2>5. QED
    BY <2>1, <2>2, <2>3, <2>4 DEF ConfigStep, ConfigTypes
<1>4. AllChoices' = AllChoices
  BY DEF AllChoices, Config!Unset
<1>5. opened' \in AllChoices /\ stored' \in AllChoices
  BY DEF ConfigStep, Deploys, Reaps, GetsEngine, StartsSession, GetsSession, Attaches, Submits, Concludes, Restarts, Finishes,
         ConfigTypes, Choices, AllChoices
<1>6. recorded' \in Seq(BOOLEAN) /\ Len(recorded') \in 1..Len(Versions)
  <2>1. CASE Deploys
    BY <2>1 DEF Deploys, ConfigTypes
  <2>2. CASE UNCHANGED recorded
    BY <2>2 DEF ConfigTypes
  <2>3. QED
    BY <2>1, <2>2 DEF ConfigStep, Reaps, GetsEngine, StartsSession, GetsSession, Attaches, Submits, Concludes, Restarts, Finishes
<1>7. handle' \in [ConfigProcs -> [version : Nat, known : BOOLEAN]]
  <2>1. ASSUME NEW p \in ConfigProcs, GetsEngine(p) PROVE handle' \in [ConfigProcs -> [version : Nat, known : BOOLEAN]]
    <3>1. Len(recorded) \in Nat /\ recorded[Len(recorded)] \in BOOLEAN
      BY DEF ConfigTypes
    <3>2. \A k \in BOOLEAN : [version |-> Len(recorded), known |-> k] \in [version : Nat, known : BOOLEAN]
      BY <3>1
    <3>3. PICK k \in BOOLEAN : handle' = [handle EXCEPT ![p] = [version |-> Len(recorded), known |-> k]]
      BY <2>1, <3>1 DEF GetsEngine
    <3>4. QED
      BY <3>2, <3>3 DEF ConfigTypes
  <2>2. ASSUME NEW p \in ConfigProcs, Restarts(p) PROVE handle' \in [ConfigProcs -> [version : Nat, known : BOOLEAN]]
    BY <2>2 DEF Restarts, ConfigTypes, Config!NoHandle
  <2>3. CASE UNCHANGED handle
    BY <2>3 DEF ConfigTypes
  <2>4. QED
    BY <2>1, <2>2, <2>3
       DEF ConfigStep, Deploys, Reaps, StartsSession, GetsSession, Attaches, Submits, Concludes, Finishes
<1>8. snapshot' \in AllRepos
  <2>1. ASSUME NEW t \in 1..Len(turns), Finishes(t) PROVE snapshot' \in AllRepos
    <3>1. turns[t] \in TurnRecord
      BY DEF ConfigTypes
    <3>2. turns[t].workspace \in AllRepos
      BY <3>1 DEF TurnRecord
    <3>3. QED
      BY <2>1, <3>2 DEF Finishes
  <2>2. CASE UNCHANGED snapshot
    BY <2>2 DEF ConfigTypes
  <2>3. QED
    BY <2>1, <2>2
       DEF ConfigStep, Deploys, Reaps, GetsEngine, StartsSession, GetsSession, Attaches, Submits, Concludes, Restarts
<1>9. TurnRecord' = TurnRecord /\ AllRepos' = AllRepos
  BY <1>4 DEF TurnRecord, AllRepos, AllSpecs, SpecOf, Config!Apply
<1>10. QED
  BY <1>1, <1>2, <1>3, <1>4, <1>5, <1>6, <1>7, <1>8, <1>9 DEF ConfigTypes, SessionRecord

\* An engine is there before a session.
LEMMA OpenWithEngineStep ==
    ASSUME ConfigTypes, OpenWithEngine, ConfigStep
    PROVE  OpenWithEngine'
<1>1. CASE UNCHANGED <<handle, session, opened>>
  BY <1>1 DEF OpenWithEngine, Config!NoHandle
<1>2. ASSUME NEW p \in ConfigProcs, GetsEngine(p) PROVE OpenWithEngine'
  <2>1. PICK k : handle' = [handle EXCEPT ![p] = [version |-> Len(recorded), known |-> k]]
    BY <1>2 DEF GetsEngine
  <2>2. handle'[p].version = Len(recorded) /\ \A q \in ConfigProcs \ {p} : handle'[q] = handle[q]
    BY <2>1 DEF ConfigTypes
  <2>3. handle'[p].version \in 1..Len(Versions) /\ handle'[p] # Config!NoHandle
    BY <2>2 DEF ConfigTypes, Config!NoHandle
  <2>4. UNCHANGED <<session, opened>>
    BY <1>2 DEF GetsEngine
  <2>5. QED
    BY <2>2, <2>3, <2>4 DEF OpenWithEngine, Config!NoHandle
\* A session that opens, or was open before.
<1>3. ASSUME NEW p \in ConfigProcs, handle[p] # Config!NoHandle, opened' # Nothing, UNCHANGED handle,
             opened # Nothing => opened' # Nothing,
             \A q \in ConfigProcs \ {p} : session'[q] = session[q]
      PROVE  OpenWithEngine'
  BY <1>3 DEF OpenWithEngine, Config!NoHandle
<1>4. \A p \in ConfigProcs : \A s : session' = [session EXCEPT ![p] = s] => \A q \in ConfigProcs \ {p} : session'[q] = session[q]
  BY DEF ConfigTypes
<1>5. ASSUME NEW p \in ConfigProcs, StartsSession(p) \/ GetsSession(p) PROVE OpenWithEngine'
  <2>1. \A q \in ConfigProcs \ {p} : session'[q] = session[q]
    BY <1>4, <1>5 DEF StartsSession, GetsSession, Resolved
  <2>2. QED
    BY <1>3, <1>5, <2>1 DEF StartsSession, GetsSession
<1>6. ASSUME NEW p \in ConfigProcs, Attaches(p) \/ Submits(p) PROVE OpenWithEngine'
  <2>1. \A q \in ConfigProcs \ {p} : session'[q] = session[q]
    <3>1. [session EXCEPT ![p].foreign = FALSE] = [session EXCEPT ![p] = [session[p] EXCEPT !.foreign = FALSE]]
      OBVIOUS
    <3>2. QED
      BY <1>4, <1>6, <3>1 DEF Attaches, Submits, Resolved
  <2>2. QED
    BY <1>3, <1>6, <2>1 DEF Attaches, Submits, OpenWithEngine
<1>7. ASSUME NEW p \in ConfigProcs, Restarts(p) PROVE OpenWithEngine'
  <2>1. /\ handle'[p] = Config!NoHandle /\ session'[p].open = FALSE /\ UNCHANGED opened
        /\ \A q \in ConfigProcs \ {p} : handle'[q] = handle[q] /\ session'[q] = session[q]
    BY <1>7 DEF Restarts, ConfigTypes, Config!NoSession
  <2>2. QED
    BY <2>1 DEF OpenWithEngine, Config!NoHandle
<1>8. ASSUME NEW p \in ConfigProcs, Concludes(p) PROVE OpenWithEngine'
  BY <1>1, <1>8 DEF Concludes
<1>9. CASE Deploys \/ Reaps \/ \E t \in 1..Len(turns) : Finishes(t)
  BY <1>1, <1>9 DEF Deploys, Reaps, Finishes
<1>10. QED
  BY <1>2, <1>5, <1>6, <1>7, <1>8, <1>9 DEF ConfigStep

\* A workspace is made once, of the session's repos, or restored.
LEMMA ReposOfAWorld ==
    ASSUME OneWorld, NEW v \in 1..Len(Versions), NEW c, NEW d \in TurnChoices
    PROVE  SpecOf(v, c, d)["repos"] = World(c)
<1>1. 1 \in 1..Len(Versions) /\ "repos" \in Fields
  BY DEF Fields
<1>2. Versions[v]["repos"] = Versions[1]["repos"] /\ d["repos"] = Inherit
  BY <1>1 DEF OneWorld
<1>3. QED
  BY <1>1, <1>2 DEF SpecOf, World, Config!Apply

LEMMA WorkspacesStep ==
    ASSUME OneWorld, ConfigTypes, OpenWithEngine, Merged, ConfigBound, Workspaces, UNCHANGED part, ConfigStep
    PROVE  Workspaces'
<1>1. World(opened)' = World(opened')
  BY DEF World
<1> SUFFICES ASSUME part # "local_config"
             PROVE  /\ opened' = Nothing => snapshot' = "none"
                    /\ ~Config!Reaped' => /\ snapshot' \in {"none", World(opened')}
                                          /\ \A t \in DOMAIN turns' : turns'[t].workspace = World(opened')
  BY <1>1 DEF Workspaces, World
<1>2. opened # Nothing => opened' = opened
  BY DEF ConfigStep, Deploys, Reaps, GetsEngine, StartsSession, GetsSession, Attaches, Submits, Concludes, Restarts, Finishes
<1>3. opened = Nothing => DOMAIN turns = {} /\ 1..Len(turns) = {}
  <2>1. DOMAIN turns = 1..Len(turns)
    BY DEF ConfigTypes
  <2>2. opened = Nothing => \A t \in DOMAIN turns : FALSE
    BY DEF ConfigBound, IsBound
  <2>3. QED
    BY <2>1, <2>2
<1>4. opened' = Nothing => snapshot' = "none"
  BY <1>2, <1>3 DEF Workspaces, ConfigStep, Deploys, Reaps, GetsEngine, StartsSession, GetsSession, Attaches, Submits,
                    Concludes, Restarts, Finishes
<1> SUFFICES ASSUME ~Config!Reaped'
             PROVE  /\ snapshot' \in {"none", World(opened')}
                    /\ \A t \in DOMAIN turns' : turns'[t].workspace = World(opened')
  BY <1>4
<1>5. ~Config!Reaped
  <2> SUFFICES ASSUME Config!Reaped PROVE FALSE
    OBVIOUS
  <2>1. stored = Nothing /\ opened \notin {Nothing, Config!Unset}
    BY DEF Config!Reaped
  <2>2. stored' = Nothing
    BY <2>1 DEF ConfigStep, Deploys, Reaps, GetsEngine, StartsSession, GetsSession, Attaches, Submits, Concludes, Restarts,
                Finishes
  <2>3. QED
    BY <1>2, <2>1, <2>2 DEF Config!Reaped, Config!Unset
<1>6. snapshot \in {"none", World(opened)} /\ \A t \in DOMAIN turns : turns[t].workspace = World(opened)
  BY <1>5 DEF Workspaces
<1>7. CASE opened = Nothing
  <2>1. UNCHANGED turns \/ \E p \in ConfigProcs : Restarts(p) \/ Submits(p)
    BY <1>3, <1>7 DEF ConfigStep, Deploys, Reaps, GetsEngine, StartsSession, GetsSession, Attaches, Concludes
  <2>2. \A p \in ConfigProcs : ~session[p].open
    BY <1>7 DEF OpenWithEngine
  <2>3. DOMAIN turns' = {}
    BY <1>3, <1>7, <2>1, <2>2, Ages DEF Submits, Aged
  <2>4. snapshot' = "none"
    BY <1>3, <1>7, Zenon DEF Workspaces, ConfigStep, Deploys, Reaps, GetsEngine, StartsSession, GetsSession, Attaches, Submits,
                      Concludes, Restarts, Finishes
  <2>5. QED
    BY <2>3, <2>4
<1>8. CASE opened # Nothing
  <2>1. opened' = opened
    BY <1>2, <1>8
  <2>2. snapshot' \in {"none", World(opened)}
    <3>1. ASSUME NEW t \in 1..Len(turns), Finishes(t) PROVE snapshot' = World(opened)
      <4>1. t \in DOMAIN turns
        BY DEF ConfigTypes
      <4>2. QED
        BY <1>6, <3>1, <4>1 DEF Finishes
    <3>2. UNCHANGED snapshot \/ \E t \in 1..Len(turns) : Finishes(t)
      BY DEF ConfigStep, Deploys, Reaps, GetsEngine, StartsSession, GetsSession, Attaches, Submits, Concludes, Restarts
    <3>3. QED
      BY <1>6, <3>1, <3>2
  <2>3. ASSUME NEW p \in ConfigProcs, Submits(p) PROVE \A t \in DOMAIN turns' : turns'[t].workspace = World(opened)
    <3>1. PICK r \in TurnRecord : turns' = Append(turns, r) /\ Made(r, p)
      BY <2>3, Submitted
    <3>2. r.config = opened
      BY <1>5, <1>8, <2>3, <3>1
         DEF Made, Submits, ConfigBound, IsBound, Config!ConfigOf, Config!Found, Config!Reaped
    <3>3. r.version \in 1..Len(Versions)
      BY <2>3, <3>1 DEF Made, Submits, OpenWithEngine
    <3>4. r.spec["repos"] = World(opened)
      BY <3>1, <3>2, <3>3, ReposOfAWorld DEF Made
    <3>5. r.workspace = World(opened)
      BY <1>6, <3>1, <3>4 DEF Made
    <3>6. QED
      BY <1>6, <3>1, <3>5, Grown
  <2>4. UNCHANGED turns \/ Aged => \A t \in DOMAIN turns' : turns'[t].workspace = World(opened)
    BY <1>6 DEF Aged
  <2>5. QED
    BY <2>1, <2>2, <2>3, <2>4, TurnsStep
<1>9. QED
  BY <1>7, <1>8

\* The whole of it.
ConfigAll == ConfigTypes /\ OpenWithEngine /\ Merged /\ Schemas /\ ConfigBound /\ Workspaces

LEMMA ConfigInit == Init => ConfigAll
<1> SUFFICES ASSUME Init PROVE ConfigAll
  OBVIOUS
<1> USE DEF Config!NoHandle, Config!NoSession, Config!NoRun
<1>1. /\ recorded = <<TRUE>> /\ opened = Nothing /\ stored = Nothing /\ snapshot = "none"
      /\ handle = [p \in ConfigProcs |-> [version |-> 0, known |-> FALSE]]
      /\ session = [p \in ConfigProcs |-> [open |-> FALSE, resolved |-> FALSE, foreign |-> FALSE, config |-> Nothing]]
      /\ g_run = [p \in ConfigProcs |-> [turn |-> 0, adopted |-> FALSE, schema |-> "none", informed |-> FALSE]]
      /\ turns = <<>> /\ read = {}
  BY DEF Init, Config!Init
<1>2. Len(Versions) \in Nat /\ Len(Versions) > 0
  BY SessionAssumption DEF Config!SessionConfigsAssumption
<1>3. recorded \in Seq(BOOLEAN) /\ Len(recorded) = 1
  BY <1>1
<1>4. turns \in Seq(TurnRecord) /\ DOMAIN turns = {}
  BY <1>1
<1>5. ConfigTypes
  BY <1>1, <1>2, <1>3, <1>4 DEF ConfigTypes, AllChoices, AllRepos, SessionRecord
<1>6. OpenWithEngine /\ Merged /\ ConfigBound /\ Workspaces
  BY <1>1, <1>4 DEF OpenWithEngine, Merged, ConfigBound, Workspaces
<1>7. Schemas
  BY <1>1 DEF Schemas, ReadsAsStarted
<1>8. QED
  BY <1>5, <1>6, <1>7 DEF ConfigAll

\* A step of the whole is a step of the configuration, or leaves it alone.
LEMMA ConfigMoves ==
    ASSUME ConfigTypes, [Next]_vars
    PROVE  UNCHANGED part /\ (ConfigStep \/ UNCHANGED config)
<1>1. CASE Next
  <2>1. /\ UNCHANGED part
        /\ \/ part = "config" /\ Config!Next
           \/ part = "reaped_config" /\ ReapedConfig!Next
           \/ part = "local_config" /\ LocalConfig!Next
           \/ UNCHANGED config
    BY <1>1 DEF Next
  <2>2. QED
    BY <2>1, ConfigSteps, ReapedConfigSteps, LocalConfigSteps
<1>2. CASE UNCHANGED vars
  BY <1>2 DEF vars
<1>3. QED
  BY <1>1, <1>2

LEMMA ConfigAllStep == OneWorld /\ ConfigAll /\ [Next]_vars => ConfigAll'
<1> SUFFICES ASSUME OneWorld, ConfigAll, [Next]_vars PROVE ConfigAll'
  OBVIOUS
<1>1. UNCHANGED part /\ (ConfigStep \/ UNCHANGED config)
  BY ConfigMoves DEF ConfigAll
<1>2. CASE ConfigStep
  BY <1>1, <1>2, ConfigTypesStep, OpenWithEngineStep, MergedStep, SchemasStep, ConfigBoundStep, WorkspacesStep DEF ConfigAll
<1>3. CASE UNCHANGED config
  <2>1. ConfigTypes'
    <3>1. AllChoices' = AllChoices
      BY DEF AllChoices, Config!Unset
    <3>2. TurnRecord' = TurnRecord /\ AllRepos' = AllRepos
      BY <3>1 DEF TurnRecord, AllRepos, AllSpecs, SpecOf, Config!Apply
    <3>3. QED
      BY <1>3, <3>1, <3>2 DEF config, ConfigAll, ConfigTypes, SessionRecord
  <2>2. OpenWithEngine' /\ Schemas'
    BY <1>3 DEF config, ConfigAll, OpenWithEngine, Config!NoHandle, Schemas, ReadsAsStarted
  <2>3. Merged'
    BY <1>1, <1>3 DEF config, ConfigAll, Merged, Knows
  <2>4. ConfigBound' /\ Workspaces'
    BY <1>1, <1>3 DEF config, ConfigAll, ConfigBound, IsBound, Config!Reaped, Config!Unset, Workspaces, World
  <2>5. QED
    BY <2>1, <2>2, <2>3, <2>4 DEF ConfigAll
<1>4. QED
  BY <1>1, <1>2, <1>3

-----------------------------------------------------------------------------
\* A run is followed in a session that is open and resolved, and of a turn
\* that was submitted.
MostFaults == IF part = "reaped_config" THEN 0 ELSE ConfigFaults
ConfigFits ==
    /\ opened \in Choices \cup {Nothing} /\ stored \in (Choices \ {Config!Unset}) \cup {Nothing}
    /\ \A p \in ConfigProcs :
         /\ handle[p].version \in 0..Len(recorded) /\ g_run[p].turn \in 0..Len(turns)
         /\ g_run[p] # Config!NoRun => session[p].open /\ session[p].resolved /\ handle[p] # Config!NoHandle
    /\ Len(turns) <= ConfigTurns /\ faults \in 0..MostFaults

LEMMA FaultsAreCounted == ConfigFaults \in Nat /\ ConfigTurns \in Nat
<1>1. Config!SessionConfigsAssumption
  BY SessionAssumption
<1>2. QED
  BY <1>1 DEF Config!SessionConfigsAssumption

LEMMA FailingConfig ==
    ASSUME part = "config", faults \in 0..MostFaults, UNCHANGED part, Config!Next
    PROVE  faults' \in 0..MostFaults'
<1>1. MostFaults = ConfigFaults /\ MostFaults' = ConfigFaults /\ ConfigFaults \in Nat
  BY FaultsAreCounted DEF MostFaults
<1>2. faults' = faults \/ (faults < ConfigFaults /\ faults' = faults + 1)
  BY ZenonT(40)
     DEF Config!Next, Config!Deploy, Config!Reap, Config!GetEngine, Config!StartSession, Config!GetSession,
         Config!LoadLocally, Config!Attach, Config!ResolveRaises, Config!Resolves, Config!Submit, Config!ClientEnds,
         Config!Restart, Config!WorkerEnds, Config!MayFail
<1>3. QED
  BY <1>1, <1>2

LEMMA FailingReapedConfig ==
    ASSUME part = "reaped_config", faults \in 0..MostFaults, UNCHANGED part, ReapedConfig!Next
    PROVE  faults' \in 0..MostFaults'
<1>1. MostFaults = 0 /\ MostFaults' = 0 /\ 0 \in Nat
  BY FaultsAreCounted DEF MostFaults
<1>2. faults' = faults \/ (faults < 0 /\ faults' = faults + 1)
  BY ZenonT(40)
     DEF ReapedConfig!Next, ReapedConfig!Deploy, ReapedConfig!Reap, ReapedConfig!GetEngine,
         ReapedConfig!StartSession, ReapedConfig!GetSession, ReapedConfig!LoadLocally, ReapedConfig!Attach,
         ReapedConfig!ResolveRaises, ReapedConfig!Resolves, ReapedConfig!Submit, ReapedConfig!ClientEnds,
         ReapedConfig!Restart, ReapedConfig!WorkerEnds, ReapedConfig!MayFail
<1>3. QED
  BY <1>1, <1>2

LEMMA FailingLocalConfig ==
    ASSUME part = "local_config", faults \in 0..MostFaults, UNCHANGED part, LocalConfig!Next
    PROVE  faults' \in 0..MostFaults'
<1>1. MostFaults = ConfigFaults /\ MostFaults' = ConfigFaults /\ ConfigFaults \in Nat
  BY FaultsAreCounted DEF MostFaults
<1>2. faults' = faults \/ (faults < ConfigFaults /\ faults' = faults + 1)
  BY ZenonT(40)
     DEF LocalConfig!Next, LocalConfig!Deploy, LocalConfig!Reap, LocalConfig!GetEngine,
         LocalConfig!StartSession, LocalConfig!GetSession, LocalConfig!LoadLocally, LocalConfig!Attach,
         LocalConfig!ResolveRaises, LocalConfig!Resolves, LocalConfig!Submit, LocalConfig!ClientEnds,
         LocalConfig!Restart, LocalConfig!WorkerEnds, LocalConfig!MayFail
<1>3. QED
  BY <1>1, <1>2

LEMMA SameLength ==
    ASSUME NEW S, NEW q \in Seq(S), NEW r \in Seq(S), DOMAIN r = DOMAIN q
    PROVE  Len(r) = Len(q)
<1> DEFINE m == Len(q)
           n == Len(r)
<1>1. m \in Nat /\ n \in Nat /\ 1..n = 1..m
  OBVIOUS
<1> HIDE DEF m, n
<1>2. (n # 0 => n \in 1..n) /\ (m # 0 => m \in 1..m)
  BY <1>1
<1>3. n = m
  BY <1>1, <1>2
<1>4. QED
  BY <1>3 DEF m, n

LEMMA ConfigFitsStep ==
    ASSUME ConfigTypes, OpenWithEngine, ConfigFits, UNCHANGED part, ConfigStep, faults' \in 0..MostFaults'
    PROVE  ConfigFits'
<1>0. /\ Choices' = Choices /\ Config!Unset' = Config!Unset /\ Config!NoRun' = Config!NoRun
      /\ Config!NoHandle' = Config!NoHandle /\ Config!NoRun.turn = 0 /\ Config!NoHandle.version = 0
  BY DEF Choices, Config!Unset, Config!NoRun, Config!NoHandle
<1>1. opened' \in Choices \cup {Nothing} /\ stored' \in (Choices \ {Config!Unset}) \cup {Nothing}
  BY DEF ConfigFits, ConfigStep, Deploys, Reaps, GetsEngine, StartsSession, GetsSession, Attaches, Submits, Concludes,
         Restarts, Finishes
<1>2. Len(recorded) \in Nat /\ Len(recorded') \in Nat /\ Len(recorded) <= Len(recorded')
  <2>1. CASE Deploys
    BY <2>1 DEF Deploys, ConfigTypes
  <2>2. CASE UNCHANGED recorded
    BY <2>2 DEF ConfigTypes
  <2>3. QED
    BY <2>1, <2>2 DEF ConfigStep, Reaps, GetsEngine, StartsSession, GetsSession, Attaches, Submits, Concludes, Restarts, Finishes
<1>3. Len(turns) \in Nat /\ Len(turns') \in Nat /\ Len(turns) <= Len(turns') /\ Len(turns') <= ConfigTurns
  <2>0. Len(turns) \in Nat /\ Len(turns) <= ConfigTurns /\ ConfigTurns \in Nat /\ DOMAIN turns = 1..Len(turns)
    BY SessionAssumption DEF Config!SessionConfigsAssumption, ConfigTypes, ConfigFits
  <2>1. ASSUME NEW p \in ConfigProcs, Submits(p)
        PROVE  Len(turns') \in Nat /\ Len(turns) <= Len(turns') /\ Len(turns') <= ConfigTurns
    <3>1. PICK r \in TurnRecord : turns' = Append(turns, r)
      BY <2>1, Submitted
    <3>2. Len(turns') = Len(turns) + 1 /\ Len(turns) < ConfigTurns
      BY <2>1, <3>1 DEF Submits, ConfigTypes
    <3>3. QED
      BY <2>0, <3>2
  <2>2. CASE turns' \in Seq(TurnRecord) /\ Aged
    <3>1. DOMAIN turns' = DOMAIN turns /\ turns' \in Seq(TurnRecord) /\ turns \in Seq(TurnRecord)
      BY <2>2 DEF Aged, ConfigTypes
    <3>2. Len(turns') = Len(turns)
      BY <3>1, SameLength
    <3>3. QED
      BY <2>0, <3>2
  <2>3. CASE UNCHANGED turns
    BY <2>0, <2>3
  <2>4. QED
    BY <2>0, <2>1, <2>2, <2>3, TurnsStep
\* What happens to one process.
<1> DEFINE Fits(p) == /\ handle[p].version \in 0..Len(recorded) /\ g_run[p].turn \in 0..Len(turns)
                      /\ g_run[p] # Config!NoRun =>
                           session[p].open /\ session[p].resolved /\ handle[p] # Config!NoHandle
<1>4. \A p \in ConfigProcs : Fits(p) /\ handle'[p] = handle[p] /\ session'[p] = session[p] /\ g_run'[p] = g_run[p] => Fits(p)'
  BY <1>0, <1>2, <1>3
<1>5. ASSUME NEW p \in ConfigProcs, \A q \in ConfigProcs \ {p} : handle'[q] = handle[q] /\ session'[q] = session[q] /\ g_run'[q] = g_run[q],
             Fits(p)'
      PROVE  \A q \in ConfigProcs : Fits(q)'
  BY <1>4, <1>5 DEF ConfigFits
<1>t. /\ DOMAIN handle = ConfigProcs /\ DOMAIN session = ConfigProcs /\ DOMAIN g_run = ConfigProcs
  BY DEF ConfigTypes
<1> HIDE DEF Fits
<1>6. \A p \in ConfigProcs : Fits(p)'
  <2>1. ASSUME NEW p \in ConfigProcs, GetsEngine(p) PROVE \A q \in ConfigProcs : Fits(q)'
    <3>1. PICK k : handle' = [handle EXCEPT ![p] = [version |-> Len(recorded), known |-> k]]
      BY <2>1 DEF GetsEngine
    <3>2. handle'[p].version = Len(recorded) /\ g_run[p] = Config!NoRun
      BY <1>t, <2>1, <3>1 DEF GetsEngine, ConfigFits
    <3>3. Fits(p)'
      BY <1>0, <1>2, <1>3, <2>1, <3>2 DEF GetsEngine, Fits
    <3>4. QED
      BY <1>t, <1>5, <2>1, <3>1, <3>3 DEF GetsEngine
  <2>2. ASSUME NEW p \in ConfigProcs, NEW c, Resolved(p, c), handle[p] # Config!NoHandle,
               UNCHANGED <<handle, g_run>>
        PROVE  \A q \in ConfigProcs : Fits(q)'
    <3>1. session'[p].open = TRUE /\ session'[p].resolved = TRUE
      BY <1>t, <2>2 DEF Resolved
    <3>2. Fits(p)'
      BY <1>0, <1>2, <1>3, <2>2, <3>1 DEF Fits, ConfigFits
    <3>3. QED
      BY <1>t, <1>5, <2>2, <3>2 DEF Resolved
  <2>3. ASSUME NEW p \in ConfigProcs, NEW s, session' = [session EXCEPT ![p] = s], g_run[p] = Config!NoRun,
               UNCHANGED <<handle, g_run>>
        PROVE  \A q \in ConfigProcs : Fits(q)'
    <3>1. Fits(p)'
      BY <1>0, <1>2, <1>3, <2>3 DEF Fits, ConfigFits
    <3>2. QED
      BY <1>t, <1>5, <2>3, <3>1
  <2>4. ASSUME NEW p \in ConfigProcs, StartsSession(p) PROVE \A q \in ConfigProcs : Fits(q)'
    BY <2>2, <2>4 DEF StartsSession
  <2>5. ASSUME NEW p \in ConfigProcs, GetsSession(p) PROVE \A q \in ConfigProcs : Fits(q)'
    <3>1. g_run[p] = Config!NoRun
      BY <2>5 DEF GetsSession, ConfigFits
    <3>2. QED
      BY <2>2, <2>3, <2>5, <3>1 DEF GetsSession
  <2>6. ASSUME NEW p \in ConfigProcs, NEW c, NEW r, Resolved(p, c), handle[p] # Config!NoHandle, UNCHANGED handle,
               r.turn \in 0..Len(turns'), g_run' = [g_run EXCEPT ![p] = r]
        PROVE  \A q \in ConfigProcs : Fits(q)'
    <3>1. session'[p].open = TRUE /\ session'[p].resolved = TRUE /\ g_run'[p] = r
      BY <1>t, <2>6 DEF Resolved
    <3>2. Fits(p)'
      BY <1>0, <1>2, <1>3, <2>6, <3>1 DEF Fits, ConfigFits
    <3>3. QED
      BY <1>t, <1>5, <2>6, <3>2 DEF Resolved
  <2>7. ASSUME NEW p \in ConfigProcs, Attaches(p) PROVE \A q \in ConfigProcs : Fits(q)'
    <3>1. handle[p] # Config!NoHandle /\ UNCHANGED handle /\ g_run[p] = Config!NoRun
      BY <2>7 DEF Attaches, OpenWithEngine
    <3>2. CASE session' = [session EXCEPT ![p].foreign = FALSE] /\ UNCHANGED g_run
      <4>1. session' = [session EXCEPT ![p] = [session[p] EXCEPT !.foreign = FALSE]]
        BY <3>2
      <4>2. QED
        BY <2>3, <3>1, <3>2, <4>1
    <3>3. CASE Resolved(p, Config!ConfigOf(p)) /\ g_run' = g_run
      BY <2>2, <3>1, <3>3
    <3>4. ASSUME Resolved(p, Config!ConfigOf(p)), NEW r, r.turn \in 0..Len(turns), g_run' = [g_run EXCEPT ![p] = r]
          PROVE  \A q \in ConfigProcs : Fits(q)'
      <4>1. r.turn \in 0..Len(turns')
        BY <1>3, <3>4
      <4>2. QED
        BY <2>6, <3>1, <3>4, <4>1
    <3>5. QED
      BY <2>7, <3>2, <3>3, <3>4 DEF Attaches
  <2>8. ASSUME NEW p \in ConfigProcs, Submits(p) PROVE \A q \in ConfigProcs : Fits(q)'
    <3>1. handle[p] # Config!NoHandle /\ UNCHANGED handle /\ Resolved(p, Config!ConfigOf(p))
      BY <2>8 DEF Submits, OpenWithEngine
    <3>2. PICK r \in TurnRecord :
             /\ turns' = Append(turns, r)
             /\ \E schema : g_run' = [g_run EXCEPT ![p] = [turn |-> Len(turns) + 1, adopted |-> FALSE, schema |-> schema,
                                                           informed |-> handle[p].known]]
      BY <2>8, Submitted
    <3>7. PICK schema : g_run' = [g_run EXCEPT ![p] = [turn |-> Len(turns) + 1, adopted |-> FALSE, schema |-> schema,
                                                       informed |-> handle[p].known]]
      BY <3>2
    <3> DEFINE new == [turn |-> Len(turns) + 1, adopted |-> FALSE, schema |-> schema, informed |-> handle[p].known]
    <3>3. Len(turns') = Len(turns) + 1
      BY <3>2 DEF ConfigTypes
    <3>4. new.turn \in 0..Len(turns')
      BY <1>3, <3>3
    <3>5. g_run' = [g_run EXCEPT ![p] = new]
      BY <3>7
    <3> HIDE DEF new
    <3>6. QED
      BY <2>6, <3>1, <3>4, <3>5
  <2>9. ASSUME NEW p \in ConfigProcs, Concludes(p) \/ Restarts(p) PROVE \A q \in ConfigProcs : Fits(q)'
    <3>1. /\ g_run' = [g_run EXCEPT ![p] = Config!NoRun]
          /\ UNCHANGED <<handle, session>> \/ (handle' = [handle EXCEPT ![p] = Config!NoHandle] /\ session' = [session EXCEPT ![p] = Config!NoSession])
      BY <2>9 DEF Concludes, Restarts
    <3>2. g_run'[p] = Config!NoRun /\ handle'[p] \in {handle[p], Config!NoHandle}
      BY <1>t, <3>1
    <3>3. handle[p].version \in 0..Len(recorded)
      BY DEF ConfigFits
    <3>4. Fits(p)'
      BY <1>0, <1>2, <1>3, <3>2, <3>3 DEF Fits
    <3>5. QED
      BY <1>t, <1>5, <3>1, <3>4
  <2>10. CASE Deploys \/ Reaps \/ \E t \in 1..Len(turns) : Finishes(t)
    <3>1. UNCHANGED <<handle, session, g_run>>
      BY <2>10 DEF Deploys, Reaps, Finishes
    <3>2. \A p \in ConfigProcs : Fits(p)
      BY DEF Fits, ConfigFits
    <3>3. QED
      BY <1>4, <3>1, <3>2
  <2>11. QED
    BY <2>1, <2>4, <2>5, <2>7, <2>8, <2>9, <2>10 DEF ConfigStep
<1>7. QED
  BY <1>0, <1>1, <1>3, <1>6 DEF Fits, ConfigFits

LEMMA ConfigIsTyped ==
    ASSUME ConfigTypes, ConfigFits
    PROVE  /\ part = "config" => Config!TypeOK
           /\ part = "reaped_config" => ReapedConfig!TypeOK
           /\ part = "local_config" => LocalConfig!TypeOK
BY ConfigsShare
   DEF ConfigTypes, ConfigFits, Choices, MostFaults, Config!TypeOK, ReapedConfig!TypeOK, LocalConfig!TypeOK

LEMMA ConfigFitsInit == Init => ConfigTypes /\ OpenWithEngine /\ ConfigFits
<1> SUFFICES ASSUME Init PROVE ConfigTypes /\ OpenWithEngine /\ ConfigFits
  OBVIOUS
<1>1. ConfigTypes /\ OpenWithEngine
  BY ConfigInit DEF ConfigAll
<1>2. /\ opened = Nothing /\ stored = Nothing /\ turns = <<>> /\ faults = 0
      /\ handle = [p \in ConfigProcs |-> Config!NoHandle] /\ g_run = [p \in ConfigProcs |-> Config!NoRun]
  BY DEF Init, Config!Init
<1>3. Len(turns) = 0 /\ Len(recorded) \in Nat /\ ConfigTurns \in Nat /\ ConfigFaults \in Nat
  BY <1>1, <1>2, SessionAssumption DEF ConfigTypes, Config!SessionConfigsAssumption
<1>4. Config!NoRun.turn = 0 /\ Config!NoHandle.version = 0
  BY DEF Config!NoRun, Config!NoHandle
<1>5. ConfigFits
  BY <1>2, <1>3, <1>4 DEF ConfigFits, MostFaults
<1>6. QED
  BY <1>1, <1>5

\* What the session's config is when another part moves.
LEMMA ConfigRests ==
    ASSUME ConfigTypes, OpenWithEngine, ConfigFits, UNCHANGED part, UNCHANGED config
    PROVE  ConfigTypes' /\ OpenWithEngine' /\ ConfigFits'
<1>1. ConfigTypes'
  <2>1. AllChoices' = AllChoices
    BY DEF AllChoices, Config!Unset
  <2>2. TurnRecord' = TurnRecord /\ AllRepos' = AllRepos
    BY <2>1 DEF TurnRecord, AllRepos, AllSpecs, SpecOf, Config!Apply
  <2>3. QED
    BY <2>1, <2>2 DEF config, ConfigTypes, SessionRecord
<1>2. OpenWithEngine'
  BY DEF config, OpenWithEngine, Config!NoHandle
<1>3. ConfigFits'
  BY DEF config, ConfigFits, Choices, MostFaults, Config!Unset, Config!NoRun, Config!NoHandle
<1>4. QED
  BY <1>1, <1>2, <1>3

\* Fields that are set are honoured in a merge.
LEMMA MergeHonours ==
    ASSUME NEW v, NEW c, NEW d
    PROVE  LET spec == SpecOf(v, c, d)
               Has(f, value) == IF f = "env" THEN value \subseteq spec[f] ELSE spec[f] = value
           IN /\ \A f \in Config!SetFields(d) : Has(f, d[f])
              /\ \A f \in Config!SetFields(c) \ Config!SetFields(d) : Has(f, c[f])
BY DEF SpecOf, Config!Apply, Config!SetFields

\* Whatever versions are deployed and processes come and go, a session's
\* config is bound until it is reaped (in the local runtime a failed read
\* loses it), a turn that runs honours its layers, its repos are those of the
\* workspace, and its owner parses the result with its schema (start_session,
\* _resolve_session_config, run_turn).  The versions declare the same repos.
THEOREM ConfigsHold == OneWorld => (Spec => []ConfigHolds)
<1> SUFFICES ASSUME OneWorld PROVE Spec => []ConfigHolds
  OBVIOUS
<1>1. Init => ConfigAll
  BY ConfigInit
<1>2. ConfigAll /\ [Next]_vars => ConfigAll'
  BY ConfigAllStep
<1>3. ConfigAll => ConfigHolds
  <2> SUFFICES ASSUME ConfigAll PROVE ConfigHolds
    OBVIOUS
  <2>0. DOMAIN turns = 1..Len(turns)
    BY DEF ConfigAll, ConfigTypes
  <2>1. part # "local_config" => Config!BoundForGood
    BY <2>0 DEF ConfigAll, ConfigBound, IsBound, Config!BoundForGood
  <2>2. part # "local_config" => Config!WorldStays
    <3> SUFFICES ASSUME part # "local_config", ~Config!Reaped, NEW t \in 1..Len(turns) PROVE turns[t].workspace = turns[t].spec["repos"]
      BY DEF Config!WorldStays
    <3>1. turns[t].config = opened
      BY <2>0 DEF ConfigAll, ConfigBound, IsBound
    <3>2. turns[t].turn_config \in TurnChoices
      <4>1. turns[t] \in TurnRecord
        BY DEF ConfigAll, ConfigTypes
      <4>2. QED
        BY <4>1 DEF TurnRecord
    <3>3. turns[t].spec["repos"] = World(opened)
      BY <2>0, <3>1, <3>2, ReposOfAWorld DEF ConfigAll, Merged
    <3>4. QED
      BY <2>0, <3>3 DEF ConfigAll, Workspaces
  <2>3. ASSUME part = "config" PROVE Config!Honoured
    <3>1. Knows = ImageKnows
      BY <2>3 DEF Knows
    <3> SUFFICES ASSUME NEW t \in 1..Len(turns), turns[t].state # "refused"
                 PROVE  LET one == turns[t]
                            Has(f, value) == IF f = "env" THEN value \subseteq one.spec[f] ELSE one.spec[f] = value
                        IN /\ one.spec["harness"] \in Images[one.version]
                           /\ \A f \in Config!SetFields(one.turn_config) :
                                f \in ImageKnows[one.version] /\ Has(f, one.turn_config[f])
                           /\ \A f \in Config!SetFields(one.config) \ Config!SetFields(one.turn_config) :
                                f \in ImageKnows[one.version] /\ Has(f, one.config[f])
      BY DEF Config!Honoured
    <3>2. /\ turns[t].spec = SpecOf(turns[t].version, turns[t].config, turns[t].turn_config)
          /\ turns[t].spec["harness"] \in Images[turns[t].version]
          /\ Config!SetFields(turns[t].config) \cup Config!SetFields(turns[t].turn_config)
                \subseteq ImageKnows[turns[t].version]
      BY <2>0, <3>1 DEF ConfigAll, Merged
    <3>3. QED
      BY <3>2, MergeHonours
  <2>4. ASSUME part # "config" PROVE LocalConfig!Honoured
    <3>1. Knows = KnowsAll
      BY <2>4 DEF Knows
    <3>2. QED
      BY <2>0, <3>1, MergeHonours, ConfigsShare DEF ConfigAll, Merged, LocalConfig!Honoured
  <2>5. Config!OwnerReadsItRight
    BY DEF ConfigAll, Schemas, ReadsAsStarted, Config!OwnerReadsItRight, Config!ReadRight
  <2>6. QED
    BY <2>1, <2>2, <2>3, <2>4, <2>5 DEF ConfigHolds
<1>4. QED
  BY <1>1, <1>2, <1>3, PTL DEF Spec

-----------------------------------------------------------------------------
(* The types of the components, each with what is inductive about them.    *)

\* Every message that is queued, posted, taken or told of was sent; a thread
\* posts the stop only as an interrupt.
Said == 1..Len(sent)
ControlTyped ==
    /\ turn \in 0..QueueTurns /\ sandbox \in {0, turn} /\ (~busy => sandbox = 0) /\ (busy => turn # 0)
    /\ busy \in BOOLEAN /\ ready \in BOOLEAN /\ flushing \in BOOLEAN
    /\ sent \in Seq(1..QueueTurns) /\ stops \in 0..MaxStops
    /\ \A i \in 1..Len(pending) : pending[i] \in Said
    /\ pc \in [Control!Threads -> {"idle", "send", "post", "call", "pop", "top"}]
    /\ target \in [Control!Threads -> 0..QueueTurns]
    /\ \A p \in Control!Threads : msg[p] \in {0} \cup Said
    /\ \A p \in Senders : pc[p] = "send" => msg[p] # 0
    /\ \A f \in Flushers : pc[f] \in {"post", "call"} => msg[f] # 0
    /\ worker \in [Control!Turns -> {"none", "up", "ready", "done"}]
    /\ \A t \in Control!Turns : \A i \in 1..Len(inbox[t]) : inbox[t][i] \in {0} \cup Said
    /\ told \subseteq Said /\ logged \subseteq Said /\ warned \subseteq Said /\ moot \subseteq Said

LEMMA QueueConstants ==
    /\ Senders \cap Flushers = {} /\ Control!Threads = Senders \cup Flushers
    /\ QueueTurns \in Nat /\ MaxStops \in Nat /\ Control!Turns = 1..QueueTurns
<1>1. Control!ControlAssumption
  BY SessionAssumption
<1>2. QED
  BY <1>1 DEF Control!ControlAssumption, Control!Threads, Control!Turns

\* What is in a sequence.
LEMMA InSequence == ASSUME NEW q \in Seq(Nat) PROVE Control!ToSet(q) = {q[i] : i \in 1..Len(q)}
BY DEF Control!ToSet

LEMMA ControlTypedStep ==
    ASSUME ControlTypes, ControlTyped, [Control!Next]_(Control!vars)
    PROVE  ControlTyped'
<1> USE DEF ControlTyped, Control!Goto
<1>0. /\ Senders \cap Flushers = {} /\ Control!Threads = Senders \cup Flushers
      /\ QueueTurns \in Nat /\ MaxStops \in Nat /\ Control!Turns = 1..QueueTurns
      /\ pending \in Seq(Nat) /\ Len(sent) \in Nat /\ turn \in Nat /\ inbox \in [Control!Turns -> Seq(Nat)]
      /\ msg \in [Control!Threads -> Nat]
  BY QueueConstants DEF ControlTypes
<1>00. Control!ToSet(pending) \subseteq Said
  <2>1. Control!ToSet(pending) = {pending[i] : i \in 1..Len(pending)}
    BY <1>0, InSequence
  <2>2. QED
    BY <2>1
<1>s. UNCHANGED sent => Said' = Said
  BY DEF Said
<1>e. pending' = <<>> => \A i \in 1..Len(pending') : pending'[i] \in Said
  <2>1. Len(<<>>) = 0
    OBVIOUS
  <2>2. QED
    BY <2>1
<1>1. CASE Control!Submit \/ Control!Dispatched \/ Control!Observe \/ Control!Complete
  <2>1. CASE Control!Submit
    <3>1. /\ turn' = turn + 1 /\ turn < QueueTurns /\ busy' = TRUE /\ sandbox' = 0 /\ ready' = FALSE
          /\ pending' = <<>> /\ flushing' = FALSE
          /\ UNCHANGED <<pc, msg, target, worker, inbox, told, logged, warned, moot, sent, stops>>
      BY <2>1 DEF Control!Submit, Control!Drop
    <3>2. turn' \in 0..QueueTurns /\ turn' # 0
      BY <1>0, <3>1
    <3>3. QED
      BY <1>s, <1>0, <1>e, <3>1, <3>2
  <2>2. CASE Control!Dispatched
    BY <1>s, <1>0, <2>2 DEF Control!Dispatched
  <2>3. CASE Control!Observe
    BY <1>s, <1>0, <2>3 DEF Control!Observe
  <2>4. CASE Control!Complete
    <3>1. /\ busy' = FALSE /\ sandbox' = 0 /\ warned' = warned \cup Control!ToSet(pending)
          /\ pending' = <<>> /\ flushing' = FALSE
          /\ UNCHANGED <<turn, ready, pc, msg, target, worker, inbox, told, logged, moot, sent, stops>>
      BY <2>4 DEF Control!Complete, Control!Drop
    <3>2. warned' \subseteq Said
      BY <1>00, <3>1
    <3>3. QED
      BY <1>s, <1>0, <1>e, <3>1, <3>2
  <2>5. QED
    BY <1>1, <2>1, <2>2, <2>3, <2>4
<1>2. ASSUME NEW t \in Control!Turns, Control!Announce(t) \/ Control!WorkerEnds(t) PROVE ControlTyped'
  <2>1. /\ worker' = [worker EXCEPT ![t] = "ready"] \/ worker' = [worker EXCEPT ![t] = "done"]
        /\ UNCHANGED <<turn, busy, sandbox, ready, pending, flushing, pc, msg, target, inbox, told, logged, warned,
                       moot, sent, stops>>
    BY <1>2 DEF Control!Announce, Control!WorkerEnds
  <2>2. worker' \in [Control!Turns -> {"none", "up", "ready", "done"}]
    BY <2>1
  <2>3. QED
    BY <1>s, <2>1, <2>2
<1>3. ASSUME NEW p \in Senders, Control!Send(p) PROVE ControlTyped'
  <2>1. /\ UNCHANGED <<turn, busy, sandbox, ready, pending, flushing, target, worker, inbox, told, logged, warned, moot, stops>>
        /\ busy /\ sent' = Append(sent, turn) /\ msg' = [msg EXCEPT ![p] = Len(sent')]
        /\ pc' = [pc EXCEPT ![p] = "send"]
    BY <1>3 DEF Control!Send
  <2>2. sent' \in Seq(1..QueueTurns) /\ Len(sent') = Len(sent) + 1
    BY <1>0, <2>1
  <2>3. Said \subseteq Said' /\ Len(sent') \in Said' /\ Len(sent') # 0
    BY <1>0, <2>2 DEF Said
  <2>4. /\ \A q \in Control!Threads : msg'[q] \in {0} \cup Said'
        /\ \A q \in Senders : pc'[q] = "send" => msg'[q] # 0
        /\ \A f \in Flushers : pc'[f] \in {"post", "call"} => msg'[f] # 0
    BY <1>0, <2>1, <2>3
  <2>5. QED
    BY <1>0, <2>1, <2>2, <2>3, <2>4
<1>4. ASSUME NEW p \in Senders, Control!Post(p) PROVE ControlTyped'
  <2>1. /\ pc[p] = "send"
        /\ UNCHANGED <<turn, busy, sandbox, ready, flushing, msg, target, worker, inbox, told, logged, warned, moot, sent, stops>>
        /\ \/ pending' = Append(pending, msg[p]) /\ pc' = [pc EXCEPT ![p] = "idle"]
           \/ pc' = [pc EXCEPT ![p] = "post"] /\ UNCHANGED pending
    BY <1>4 DEF Control!Post
  <2>2. msg[p] \in Said
    BY <1>0, <2>1
  <2>3. \A i \in 1..Len(pending') : pending'[i] \in Said
    <3>1. CASE pending' = Append(pending, msg[p])
      <4>1. /\ Len(pending') = Len(pending) + 1 /\ Len(pending) \in Nat /\ pending'[Len(pending) + 1] = msg[p]
            /\ \A i \in 1..Len(pending) : pending'[i] = pending[i]
        BY <1>0, <3>1
      <4>2. QED
        BY <2>2, <4>1
    <3>2. QED
      BY <2>1, <3>1
  <2>4. QED
    BY <1>s, <1>0, <2>1, <2>3
<1>5. ASSUME NEW p \in Senders, Control!Interrupt(p) PROVE ControlTyped'
  <2>1. /\ UNCHANGED <<turn, busy, sandbox, ready, target, worker, inbox, told, logged, warned, sent>>
        /\ stops < MaxStops /\ stops' = stops + 1 /\ moot' = moot \cup Control!ToSet(pending)
        /\ pending' = <<>> /\ flushing' = FALSE
        /\ msg' = [msg EXCEPT ![p] = 0] /\ pc' = [pc EXCEPT ![p] = "post"]
    BY <1>5 DEF Control!Interrupt, Control!Drop
  <2>2. moot' \subseteq Said /\ stops' \in 0..MaxStops
    BY <1>0, <1>00, <2>1
  <2>3. /\ pc' \in [Control!Threads -> {"idle", "send", "post", "call", "pop", "top"}]
        /\ \A q \in Control!Threads : msg'[q] \in {0} \cup Said
        /\ \A q \in Senders : pc'[q] = "send" => msg'[q] # 0
        /\ \A f \in Flushers : pc'[f] \in {"post", "call"} => msg'[f] # 0
    BY <1>0, <2>1
  <2>4. QED
    BY <1>s, <1>0, <1>e, <2>1, <2>2, <2>3
<1>6. ASSUME NEW p \in Control!Threads, Control!Posting(p) PROVE ControlTyped'
  <2>1. /\ UNCHANGED <<turn, busy, sandbox, ready, pending, flushing, msg, worker, warned, moot, sent, stops>>
        /\ pc[p] \in {"post", "call"}
        /\ UNCHANGED <<told, logged>> \/ Control!Unavailable(p)
        /\ inbox' = inbox \/ inbox' = Control!Takes(target[p], msg[p])
        /\ \/ pc' = [pc EXCEPT ![p] = Control!After(p)] /\ UNCHANGED target
           \/ pc' = [pc EXCEPT ![p] = "call"] /\ target' = [target EXCEPT ![p] = sandbox]
    BY <1>6 DEF Control!Posting, Control!ReadTarget, Control!Delivered, Control!Refused
  <2>2. (p \in Flushers /\ Control!After(p) = "pop") \/ (p \in Senders /\ Control!After(p) = "idle")
    BY <1>0 DEF Control!After
  <2>3. told' \subseteq Said /\ logged' \subseteq Said
    BY <1>s, <1>0, <2>1 DEF Control!Unavailable
  <2>4. \A t \in Control!Turns : \A i \in 1..Len(inbox'[t]) : inbox'[t][i] \in {0} \cup Said
    <3>1. CASE \E t \in Control!Turns : inbox' = [inbox EXCEPT ![t] = Append(@, msg[p])]
      <4>1. PICK t \in Control!Turns : inbox' = [inbox EXCEPT ![t] = Append(@, msg[p])]
        BY <3>1
      <4>2. inbox[t] \in Seq(Nat) /\ inbox'[t] = Append(inbox[t], msg[p]) /\ msg[p] \in {0} \cup Said
        BY <1>0, <4>1
      <4>3. /\ Len(inbox'[t]) = Len(inbox[t]) + 1 /\ Len(inbox[t]) \in Nat /\ inbox'[t][Len(inbox[t]) + 1] = msg[p]
            /\ \A i \in 1..Len(inbox[t]) : inbox'[t][i] = inbox[t][i]
        BY <1>0, <4>2
      <4>4. \A i \in 1..Len(inbox'[t]) : inbox'[t][i] \in {0} \cup Said
        BY <4>2, <4>3
      <4>5. \A u \in Control!Turns \ {t} : inbox'[u] = inbox[u]
        BY <1>0, <4>1
      <4>6. QED
        BY <4>4, <4>5
    <3>2. CASE inbox' = inbox
      BY <3>2
    <3>3. target[p] \notin Control!Turns => Control!Takes(target[p], msg[p]) = inbox
      BY <1>0 DEF Control!Takes
    <3>4. QED
      BY <2>1, <3>1, <3>2, <3>3 DEF Control!Takes
  <2>5. target' \in [Control!Threads -> 0..QueueTurns]
    <3>1. sandbox \in 0..QueueTurns
      BY <1>0
    <3>2. QED
      BY <1>0, <2>1, <3>1
  <2>6. /\ pc' \in [Control!Threads -> {"idle", "send", "post", "call", "pop", "top"}]
        /\ \A q \in Senders : pc'[q] = "send" => msg[q] # 0
        /\ \A f \in Flushers : pc'[f] \in {"post", "call"} => msg[f] # 0
    BY <1>0, <2>1, <2>2
  <2>7. QED
    BY <1>s, <1>0, <2>1, <2>3, <2>4, <2>5, <2>6
<1>7. ASSUME NEW f \in Flushers, Control!Flushing(f) PROVE ControlTyped'
  <2>1. CASE Control!TakeHead(f)
    <3>1. Head(pending) = pending[1] /\ 1 \in 1..Len(pending)
      BY <1>0, <2>1 DEF Control!TakeHead
    <3>2. /\ msg' = [msg EXCEPT ![f] = Head(pending)] /\ pc' = [pc EXCEPT ![f] = "post"]
          /\ UNCHANGED <<turn, busy, sandbox, ready, pending, flushing, target, worker, inbox, told, logged, warned,
                         moot, sent, stops>>
      BY <2>1 DEF Control!TakeHead
    <3>3. Head(pending) \in Said /\ Head(pending) # 0
      BY <3>1 DEF Said
    <3>4. /\ pc' \in [Control!Threads -> {"idle", "send", "post", "call", "pop", "top"}]
          /\ \A q \in Control!Threads : msg'[q] \in {0} \cup Said
          /\ \A q \in Senders : pc'[q] = "send" => msg'[q] # 0
          /\ \A g \in Flushers : pc'[g] \in {"post", "call"} => msg'[g] # 0
      BY <1>0, <3>2, <3>3
    <3>5. QED
      BY <1>s, <3>2, <3>4
  <2>2. CASE Control!FlushEnds(f)
    BY <1>s, <1>0, <2>2 DEF Control!FlushEnds
  <2>3. CASE Control!PopHead(f)
    <3>1. /\ pending # <<>> /\ pending' = Tail(pending) /\ pc' = [pc EXCEPT ![f] = "top"]
          /\ UNCHANGED <<turn, busy, sandbox, ready, flushing, msg, target, worker, inbox, told, logged, warned, moot, sent, stops>>
      BY <2>3 DEF Control!PopHead
    <3>2. Len(pending) \in Nat /\ Len(pending') = Len(pending) - 1 /\ \A i \in 1..Len(pending') : pending'[i] = pending[i + 1]
      BY <1>0, <3>1
    <3>3. \A i \in 1..Len(pending') : pending'[i] \in Said
      <4>1. \A i \in 1..Len(pending') : i + 1 \in 1..Len(pending)
        BY <3>2
      <4>2. QED
        BY <3>2, <4>1
    <3>4. QED
      BY <1>s, <1>0, <3>1, <3>3
  <2>4. CASE Control!PopEmpty(f)
    BY <1>s, <1>0, <2>4 DEF Control!PopEmpty
  <2>5. QED
    BY <1>7, <2>1, <2>2, <2>3, <2>4 DEF Control!Flushing
<1>8. CASE UNCHANGED Control!vars
  BY <1>s, <1>8 DEF Control!vars
<1>9. QED
  BY <1>1, <1>2, <1>3, <1>4, <1>5, <1>6, <1>7, <1>8 DEF Control!Next, Control!Sending

LEMMA ControlIsTyped == ControlTypes /\ ControlTyped => Control!TypeOK
<1> SUFFICES ASSUME ControlTypes, ControlTyped PROVE Control!TypeOK
  OBVIOUS
<1>0. /\ pending \in Seq(Nat) /\ sent \in Seq(Nat) /\ inbox \in [Control!Turns -> Seq(Nat)]
      /\ msg \in [Control!Threads -> Nat]
  BY DEF ControlTypes
<1>1. Control!ToSet(pending) \subseteq Said /\ 0 \notin Said /\ Control!Messages = Said
  BY <1>0, InSequence DEF ControlTyped, Said, Control!Messages
<1>2. ~Control!Contains(pending, 0)
  BY <1>0, <1>1 DEF ControlTyped, Control!Contains
<1>3. ASSUME NEW t \in Control!Turns PROVE Control!ToSet(inbox[t]) \subseteq {0} \cup Said
  <2>1. inbox[t] \in Seq(Nat)
    BY <1>0
  <2>2. Control!ToSet(inbox[t]) = {inbox[t][i] : i \in 1..Len(inbox[t])}
    BY <2>1, InSequence
  <2>3. QED
    BY <2>2 DEF ControlTyped
<1>4. QED
  BY <1>0, <1>1, <1>2, <1>3 DEF ControlTyped, Control!TypeOK, Control!Turns

LEMMA ControlTypedInit == Init => ControlTypes /\ ControlTyped
<1> SUFFICES ASSUME Init PROVE ControlTypes /\ ControlTyped
  OBVIOUS
<1>1. Control!Init /\ <<>> \in Seq(Nat) /\ <<>> \in Seq(1..QueueTurns)
  BY DEF Init
<1>2. ControlTypes
  BY <1>1 DEF Control!Init, ControlTypes
<1>3. ControlTyped
  <2>1. /\ sent \in Seq(1..QueueTurns) /\ Len(pending) = 0 /\ \A t \in Control!Turns : Len(inbox[t]) = 0
    BY <1>1 DEF Control!Init
  <2>2. /\ turn = 0 /\ sandbox = 0 /\ ~busy /\ stops = 0
        /\ ready = FALSE /\ busy = FALSE /\ flushing = FALSE
        /\ pc = [p \in Control!Threads |-> "idle"] /\ msg = [p \in Control!Threads |-> 0]
        /\ target = [p \in Control!Threads |-> 0] /\ worker = [t \in Control!Turns |-> "none"]
        /\ told = {} /\ logged = {} /\ warned = {} /\ moot = {}
    BY <1>1 DEF Control!Init
  <2>3. 1..Len(pending) = {} /\ \A t \in Control!Turns : 1..Len(inbox[t]) = {}
    BY <2>1
  <2>4. /\ turn \in 0..QueueTurns /\ stops \in 0..MaxStops
        /\ \A i \in 1..Len(pending) : pending[i] \in Said
        /\ \A t \in Control!Turns : \A i \in 1..Len(inbox[t]) : inbox[t][i] \in {0} \cup Said
    BY <2>2, <2>3, QueueConstants
  <2>5. /\ pc \in [Control!Threads -> {"idle", "send", "post", "call", "pop", "top"}]
        /\ target \in [Control!Threads -> 0..QueueTurns]
        /\ worker \in [Control!Turns -> {"none", "up", "ready", "done"}]
        /\ \A p \in Control!Threads : msg[p] \in {0} \cup Said
        /\ \A p \in Control!Threads : pc[p] = "idle"
    BY <2>2, QueueConstants
  <2>6. QED
    BY <2>1, <2>2, <2>4, <2>5, QueueConstants DEF ControlTyped
<1>4. QED
  BY <1>2, <1>3

\* What is shown, followed, deleted or told of was started; of what is shown
\* one is the latest.
AdoptTyped ==
    /\ Adopt!FieldsTyped /\ DOMAIN jobs = AdoptProcs
    /\ refresher \in [AdoptProcs -> BOOLEAN] /\ adopted \in [AdoptProcs -> BOOLEAN]
    /\ \A t \in Adopt!Turns : a_worker[t] = "run" => t <= last
    /\ \A t \in Adopt!Turns : shown[t] # "none" => t <= last
    /\ \A t \in Adopt!Turns : shown[t] # "none" =>
         \E u \in Adopt!Turns : shown[u] # "none" /\ \A v \in Adopt!Turns : shown[v] # "none" => v <= u

LEMMA RunningWasStarted == AdoptTyped => Adopt!FindRunning \in 0..last
<1> SUFFICES ASSUME AdoptTyped PROVE Adopt!FindRunning \in 0..last
  OBVIOUS
<1> DEFINE started == {t \in Adopt!Turns : shown[t] # "none"}
<1>0. last \in Nat /\ Adopt!Turns \subseteq Nat \ {0}
  BY AdoptConstants DEF AdoptTyped, Adopt!FieldsTyped
<1>1. CASE started = {}
  BY <1>0, <1>1, AdoptConstants DEF Adopt!FindRunning
<1>2. CASE started # {}
  <2>1. \E u \in started : \A v \in started : u >= v
    BY <1>0, <1>2 DEF AdoptTyped
  <2>2. Adopt!Max(started) \in started
    BY <2>1 DEF Adopt!Max
  <2>3. Adopt!Max(started) \in 1..last /\ 1..last \subseteq 0..last
    <3>1. \A t \in started : t \in Nat /\ t # 0 /\ t <= last
      BY <1>0 DEF AdoptTyped
    <3>2. \A t \in started : t \in 1..last
      BY <1>0, <3>1
    <3>3. 1..last \subseteq 0..last
      BY <1>0
    <3> HIDE DEF started
    <3>4. QED
      BY <2>2, <3>2, <3>3
  <2>4. QED
    BY <1>0, <2>3, AdoptConstants DEF Adopt!FindRunning
<1>3. QED
  BY <1>1, <1>2

\* A process follows another turn, or none.
LEMMA FollowsTyped ==
    ASSUME AdoptTyped, NEW p \in AdoptProcs, NEW t \in 0..last, NEW a \in BOOLEAN, a => t # 0,
           run' = [run EXCEPT ![p] = t], adopted' = [adopted EXCEPT ![p] = a],
           refresher' = [refresher EXCEPT ![p] = (t # 0)],
           result' \in [AdoptProcs -> 0..last],
           DOMAIN jobs' = AdoptProcs, \A q \in AdoptProcs : jobs'[q] \subseteq 1..last,
           UNCHANGED <<last, a_worker, gone, shown, latest>>
    PROVE  AdoptTyped'
<1>1. run' \in [AdoptProcs -> 0..last] /\ adopted' \in [AdoptProcs -> BOOLEAN] /\ refresher' \in [AdoptProcs -> BOOLEAN]
  BY DEF AdoptTyped, Adopt!FieldsTyped
<1>2. \A q \in AdoptProcs : (refresher'[q] <=> run'[q] # 0) /\ (adopted'[q] => run'[q] # 0)
  BY AdoptConstants DEF AdoptTyped, Adopt!FieldsTyped
<1>3. QED
  BY <1>1, <1>2, AdoptConstants DEF AdoptTyped, Adopt!FieldsTyped

LEMMA AdoptTypedStep ==
    ASSUME AdoptTyped, [Adopt!Next]_(Adopt!vars)
    PROVE  AdoptTyped'
<1> USE DEF AdoptTyped, Adopt!FieldsTyped, Adopt!turnState, Adopt!mirror, Adopt!process, Adopt!looks
<1>0. AdoptTurns \in Nat /\ Looped \subseteq AdoptProcs /\ Adopt!Turns = 1..AdoptTurns /\ Adopt!NoTurn = 0 /\ last \in Nat
  BY AdoptConstants
<1>1. ASSUME NEW p \in AdoptProcs, Adopt!Start(p) PROVE AdoptTyped'
  <2>1. /\ run[p] = 0 /\ last' = last + 1 /\ last < AdoptTurns /\ last' \in Adopt!Turns
        /\ a_worker' = [a_worker EXCEPT ![last'] = "run"]
        /\ UNCHANGED shown \/ shown' = [shown EXCEPT ![last'] = "start"]
        /\ run' = [run EXCEPT ![p] = last'] /\ adopted' = [adopted EXCEPT ![p] = FALSE]
        /\ refresher' = [refresher EXCEPT ![p] = TRUE]
        /\ UNCHANGED <<gone, latest, foreign, minted, result, jobs>>
    BY <1>0, <1>1 DEF Adopt!Start
  <2>2. /\ last' \in 0..AdoptTurns /\ gone' \subseteq 1..last' /\ latest' \in 0..last'
        /\ run' \in [AdoptProcs -> 0..last'] /\ result' \in [AdoptProcs -> 0..last']
        /\ \A q \in AdoptProcs : jobs'[q] \subseteq 1..last'
    BY <1>0, <2>1
  <2>3. /\ a_worker' \in [Adopt!Turns -> {"none", "run", "done"}]
        /\ shown' \in [Adopt!Turns -> {"none", "start", "over"}]
        /\ \A t \in Adopt!Turns : a_worker'[t] = "run" => t <= last'
        /\ \A t \in Adopt!Turns : shown'[t] # "none" => t <= last'
    BY <1>0, <2>1
  <2>4. \A t \in Adopt!Turns : shown'[t] # "none" =>
           \E u \in Adopt!Turns : shown'[u] # "none" /\ \A v \in Adopt!Turns : shown'[v] # "none" => v <= u
    <3>1. CASE UNCHANGED shown
      BY <3>1
    <3>2. CASE shown' = [shown EXCEPT ![last'] = "start"]
      BY <2>1, <2>3, <3>2
    <3>3. QED
      BY <2>1, <3>1, <3>2
  <2>5. /\ refresher' \in [AdoptProcs -> BOOLEAN] /\ adopted' \in [AdoptProcs -> BOOLEAN]
        /\ \A q \in AdoptProcs : refresher'[q] <=> run'[q] # 0
        /\ \A q \in AdoptProcs : adopted'[q] => run'[q] # 0
    BY <1>0, <2>1
  <2>6. QED
    BY <1>0, <2>1, <2>2, <2>3, <2>4, <2>5
<1>2. ASSUME NEW p \in AdoptProcs, Adopt!Attach(p) PROVE AdoptTyped'
  <2>1. CASE Adopt!FindRunning = 0
    BY <1>0, <1>2, <2>1 DEF Adopt!Attach
  <2>2. CASE Adopt!FindRunning # 0
    <3>1. /\ run' = [run EXCEPT ![p] = Adopt!FindRunning] /\ adopted' = [adopted EXCEPT ![p] = TRUE]
          /\ refresher' = [refresher EXCEPT ![p] = TRUE]
          /\ UNCHANGED <<last, a_worker, gone, shown, latest, result, jobs>>
      BY <1>0, <1>2, <2>2 DEF Adopt!Attach, Adopt!Adopt
    <3>2. Adopt!FindRunning \in 0..last /\ (Adopt!FindRunning # 0) = TRUE
      BY <2>2, RunningWasStarted
    <3>3. QED
      BY <2>2, <3>1, <3>2, FollowsTyped
  <2>3. QED
    BY <2>1, <2>2
<1>3. ASSUME NEW p \in AdoptProcs, Adopt!PollResult(p) PROVE AdoptTyped'
  <2> DEFINE t == IF run[p] = 0 /\ foreign[p] THEN Adopt!FindRunning ELSE run[p]
  <2>1. UNCHANGED <<last, a_worker, gone, shown, latest, jobs>>
    BY <1>3 DEF Adopt!PollResult
  <2>2. CASE latest # 0
    <3>1. /\ result' = [result EXCEPT ![p] = latest] /\ run' = [run EXCEPT ![p] = 0]
          /\ adopted' = [adopted EXCEPT ![p] = FALSE] /\ refresher' = [refresher EXCEPT ![p] = FALSE]
      BY <1>0, <1>3, <2>2 DEF Adopt!PollResult
    <3>2. result' \in [AdoptProcs -> 0..last] /\ 0 \in 0..last
      BY <1>0, <3>1
    <3>3. QED
      BY <2>1, <3>1, <3>2, FollowsTyped
  <2>3. CASE latest = 0
    <3>1. /\ result' = result /\ run' = [run EXCEPT ![p] = t]
          /\ adopted' = [adopted EXCEPT ![p] = (t # 0)] /\ refresher' = [refresher EXCEPT ![p] = (t # 0)]
      BY <1>0, <1>3, <2>3 DEF Adopt!PollResult
    <3>2. t \in 0..last
      BY RunningWasStarted
    <3> HIDE DEF t
    <3>3. QED
      BY <2>1, <3>1, <3>2, FollowsTyped
  <2>4. QED
    BY <2>2, <2>3
<1>4. ASSUME NEW p \in AdoptProcs, Adopt!Detach(p) PROVE AdoptTyped'
  BY <1>0, <1>4 DEF Adopt!Detach
<1>5. ASSUME NEW p \in AdoptProcs, Adopt!Complete(p) \/ Adopt!GiveUp(p) PROVE AdoptTyped'
  <2>1. /\ run[p] # 0 /\ result' = [result EXCEPT ![p] = run[p]] /\ run' = [run EXCEPT ![p] = 0]
        /\ adopted' = [adopted EXCEPT ![p] = FALSE] /\ refresher' = [refresher EXCEPT ![p] = FALSE]
        /\ jobs' = [jobs EXCEPT ![p] = @ \cup {run[p]}]
        /\ UNCHANGED <<last, a_worker, gone, shown, latest>>
    BY <1>0, <1>5 DEF Adopt!Complete, Adopt!GiveUp, Adopt!EndRun
  <2>2. run[p] \in 1..last /\ 0 \in 0..last /\ result' \in [AdoptProcs -> 0..last]
    BY <1>0, <2>1
  <2>3. DOMAIN jobs' = AdoptProcs /\ \A q \in AdoptProcs : jobs'[q] \subseteq 1..last
    BY <2>1, <2>2
  <2>4. QED
    BY <2>1, <2>2, <2>3, FollowsTyped
<1>6. ASSUME NEW p \in AdoptProcs, Adopt!LoopStops(p) PROVE AdoptTyped'
  BY <1>0, <1>6 DEF Adopt!LoopStops
<1>7. ASSUME NEW p \in AdoptProcs, Adopt!DeleteSandbox(p) PROVE AdoptTyped'
  <2>1. PICK t \in jobs[p] : gone' = gone \cup {t} /\ jobs' = [jobs EXCEPT ![p] = @ \ {t}]
    BY <1>7 DEF Adopt!DeleteSandbox
  <2>2. UNCHANGED <<last, a_worker, shown, latest, run, adopted, refresher, result>>
    BY <1>7 DEF Adopt!DeleteSandbox
  <2>3. gone' \subseteq 1..last /\ DOMAIN jobs' = AdoptProcs /\ \A q \in AdoptProcs : jobs'[q] \subseteq 1..last
    BY <2>1
  <2>4. QED
    BY <2>2, <2>3
<1>8. ASSUME NEW p \in AdoptProcs, Adopt!Token(p) PROVE AdoptTyped'
  <2>1. UNCHANGED <<last, a_worker, gone, shown, latest, run, adopted, refresher, result, jobs>>
    BY <1>8 DEF Adopt!Token, Adopt!Mint, Adopt!WriteToken
  <2>2. QED
    BY <1>0, <2>1
<1>9. ASSUME NEW p \in AdoptProcs, Adopt!Crash(p) PROVE AdoptTyped'
  BY <1>0, <1>9 DEF Adopt!Crash
<1>10. ASSUME NEW t \in Adopt!Turns, Adopt!Flush(t) \/ Adopt!WorkerEnds(t) PROVE AdoptTyped'
  <2>1. /\ a_worker[t] = "run" /\ t <= last
        /\ \/ UNCHANGED <<a_worker, latest>> /\ shown' = [shown EXCEPT ![t] = "start"]
           \/ a_worker' = [a_worker EXCEPT ![t] = "done"] /\ shown' = [shown EXCEPT ![t] = "over"] /\ latest' = t
        /\ UNCHANGED <<last, gone, rec, run, adopted, foreign, refresher, minted, result, jobs>>
    BY <1>10 DEF Adopt!Flush, Adopt!WorkerEnds
  <2>2. /\ a_worker' \in [Adopt!Turns -> {"none", "run", "done"}] /\ latest' \in 0..last
        /\ shown' \in [Adopt!Turns -> {"none", "start", "over"}]
        /\ \A u \in Adopt!Turns : a_worker'[u] = "run" => u <= last
    <3>1. t \in 1..last
      BY <1>0, <2>1
    <3>2. CASE UNCHANGED <<a_worker, latest>> /\ shown' = [shown EXCEPT ![t] = "start"]
      BY <3>2
    <3>3. CASE a_worker' = [a_worker EXCEPT ![t] = "done"] /\ shown' = [shown EXCEPT ![t] = "over"] /\ latest' = t
      BY <3>1, <3>3
    <3>4. QED
      BY <2>1, <3>2, <3>3
  <2>5. \A u \in Adopt!Turns : (shown'[u] # "none") <=> (u = t \/ shown[u] # "none")
    BY <2>1
  <2>3. \E u \in Adopt!Turns : shown'[u] # "none" /\ \A v \in Adopt!Turns : shown'[v] # "none" => v <= u
    <3>1. CASE \A v \in Adopt!Turns : shown[v] # "none" => v <= t
      BY <1>0, <2>5, <3>1
    <3>2. CASE \E v \in Adopt!Turns : shown[v] # "none" /\ ~(v <= t)
      <4>1. PICK u \in Adopt!Turns : shown[u] # "none" /\ \A v \in Adopt!Turns : shown[v] # "none" => v <= u
        BY <3>2
      <4>2. t <= u
        BY <1>0, <3>2, <4>1
      <4>3. QED
        BY <2>5, <4>1, <4>2
    <3>3. QED
      BY <3>1, <3>2
  <2>4. QED
    BY <1>0, <2>1, <2>2, <2>3, <2>5
<1>11. ASSUME NEW p \in AdoptProcs, Adopt!LookFails(p) PROVE AdoptTyped'
  BY <1>0, <1>11 DEF Adopt!LookFails
<1>12. CASE UNCHANGED Adopt!vars
  BY <1>12 DEF Adopt!vars
<1>13. QED
  BY <1>1, <1>2, <1>3, <1>4, <1>5, <1>6, <1>7, <1>8, <1>9, <1>10, <1>11, <1>12
     DEF Adopt!Next, Adopt!Using, Adopt!Ending

LEMMA AdoptTypedInit == Init => AdoptTyped /\ Adopt!LooksTyped
<1>1. Init => AdoptTyped
  BY AdoptConstants DEF Init, Adopt!Init, AdoptTyped, Adopt!FieldsTyped
<1>2. QED
  BY <1>1, LooksTypedInit DEF Init

\* What a directory, a conversation or an object holds is of turns there were.
Past == 0..SavedTurns
SavingTyped ==
    /\ setup \in Saving!Setups /\ k_turn \in Past /\ (phase # "idle" => k_turn \in Saving!Turns)
    /\ phase \in {"idle", "prepare", "stage", "start", "work", "meta", "rollout", "scrub", "snapshot", "report"}
    /\ dir \in [edits : SUBSET Saving!Turns, repo : BOOLEAN, token : BOOLEAN]
    /\ snap \in [state : {"none", "broken", "good"}, edits : SUBSET Saving!Turns, repo : BOOLEAN, token : BOOLEAN]
    /\ memory \subseteq Saving!Turns /\ transcript \subseteq Saving!Turns /\ thread \in Past
    /\ meta \in Past /\ rollout \in [of : Past, memory : SUBSET Saving!Turns]
    /\ \A e, f \in k_ready : e = f
    /\ saved \in Past /\ k_faults \in 0..SaveFaults
    /\ unsafe \in BOOLEAN /\ lost \subseteq Saving!Turns

LEMMA SavingConstants ==
    /\ SavedTurns \in Nat /\ SaveFaults \in Nat /\ Saving!Turns = 1..SavedTurns
    /\ 0 \in Past /\ Saving!Turns \subseteq Past /\ \A t \in Past : t < SavedTurns => t + 1 \in Saving!Turns
<1>1. Saving!CheckpointAssumption
  BY SessionAssumption
<1>2. SavedTurns \in Nat /\ SaveFaults \in Nat
  BY <1>1 DEF Saving!CheckpointAssumption
<1>3. QED
  BY <1>2 DEF Saving!Turns, Past

LEMMA SavingTypedStep ==
    ASSUME SavingTyped, [Saving!Next]_(Saving!vars)
    PROVE  SavingTyped'
<1> USE DEF SavingTyped, Saving!blobs, Saving!agent
<1>0. /\ 0 \in Past /\ Saving!Turns \subseteq Past
      /\ \A t \in Past : t < SavedTurns => t + 1 \in Saving!Turns
  BY SavingConstants
<1>f. ASSUME Saving!Fault \/ UNCHANGED k_faults PROVE k_faults' \in 0..SaveFaults
  BY <1>f, SavingConstants DEF Saving!Fault
<1>1. CASE Saving!Begin
  BY <1>0, <1>1 DEF Saving!Begin, Saving!Empty
<1>2. CASE Saving!Moves
  BY <1>2 DEF Saving!Moves, Saving!Empty
<1>3. CASE Saving!Restored
  BY <1>3 DEF Saving!Restored
<1>4. CASE Saving!NothingToRestore
  BY <1>4 DEF Saving!NothingToRestore
<1>5. CASE Saving!RestoreFails
  <2>1. /\ k_ready' = {[restored |-> FALSE, error |-> TRUE]} /\ phase' = "stage" /\ phase = "prepare"
        /\ Saving!Fault \/ UNCHANGED k_faults
        /\ UNCHANGED <<setup, k_turn, resumed, memory, thread, snap, transcript, meta, rollout, kept, end,
                       saved, unsafe, lost>>
    BY <1>5 DEF Saving!RestoreFails
  <2>2. dir' \in [edits : SUBSET Saving!Turns, repo : BOOLEAN, token : BOOLEAN]
    <3>1. PICK some \in SUBSET snap.edits, repo \in {FALSE, snap.repo} :
             dir' = IF Saving!Pristine THEN Saving!Empty ELSE [dir EXCEPT !.edits = @ \cup some, !.repo = @ \/ repo]
      BY <1>5, ZenonT(60) DEF Saving!RestoreFails
    <3>2. some \subseteq Saving!Turns /\ repo \in BOOLEAN
      OBVIOUS
    <3>3. CASE Saving!Pristine
      BY <3>1, <3>3 DEF Saving!Empty
    <3>4. CASE ~Saving!Pristine
      <4>1. dir' = [edits |-> dir.edits \cup some, repo |-> dir.repo \/ repo, token |-> dir.token]
        BY <3>1, <3>4
      <4>2. QED
        BY <3>2, <4>1
    <3>5. QED
      BY <3>3, <3>4
  <2>3. QED
    BY <1>f, <2>1, <2>2
<1>6. CASE Saving!Stage
  <2>1. /\ phase = "stage" /\ phase' \in {"start", "idle"}
        /\ Saving!Fault \/ UNCHANGED k_faults
        /\ UNCHANGED <<setup, k_turn, resumed, memory, thread, snap, transcript, meta, rollout, k_ready, kept,
                       saved, unsafe, lost>>
    BY <1>6 DEF Saving!Stage, Saving!Fails
  <2>2. \/ UNCHANGED dir
        \/ \E token \in BOOLEAN : dir' = [edits |-> IF dir.repo THEN {} ELSE dir.edits, repo |-> TRUE, token |-> token]
    BY <1>6 DEF Saving!Stage
  <2>3. dir' \in [edits : SUBSET Saving!Turns, repo : BOOLEAN, token : BOOLEAN]
    <3>1. CASE UNCHANGED dir
      BY <3>1
    <3>2. ASSUME NEW token \in BOOLEAN,
                 dir' = [edits |-> IF dir.repo THEN {} ELSE dir.edits, repo |-> TRUE, token |-> token]
          PROVE  dir' \in [edits : SUBSET Saving!Turns, repo : BOOLEAN, token : BOOLEAN]
      <4>1. (IF dir.repo THEN {} ELSE dir.edits) \in SUBSET Saving!Turns
        OBVIOUS
      <4>2. QED
        BY <3>2, <4>1
    <3>3. QED
      BY <2>2, <3>1, <3>2
  <2>4. QED
    BY <1>f, <2>1, <2>3
<1>7. CASE Saving!StartClaude
  BY <1>7 DEF Saving!StartClaude
<1>8. CASE Saving!StartFresh
  BY <1>0, <1>8 DEF Saving!StartFresh
<1>9. CASE Saving!ResumeThread
  BY <1>9 DEF Saving!ResumeThread
<1>10. CASE Saving!ResumeRaises
  BY <1>f, <1>10 DEF Saving!ResumeRaises, Saving!Fails
<1>11. CASE Saving!Work
  <2>1. k_faults' \in 0..SaveFaults
    BY <1>f, <1>11 DEF Saving!Work
  <2>2. lost' \subseteq Saving!Turns /\ transcript' \subseteq Saving!Turns
    BY <1>11 DEF Saving!Work
  <2>3. /\ phase' \in {"meta", "scrub"} /\ memory' = memory \cup {k_turn}
        /\ k_turn \in Saving!Turns /\ dir' = [dir EXCEPT !.edits = @ \cup {k_turn}]
        /\ UNCHANGED <<setup, k_turn, thread, snap, meta, rollout, k_ready, saved, unsafe>>
    BY <1>11 DEF Saving!Work
  <2>4. QED
    BY <2>1, <2>2, <2>3
<1>12. CASE Saving!PersistMeta
  BY <1>f, <1>12 DEF Saving!PersistMeta
<1>13. CASE Saving!PersistRollout
  BY <1>f, <1>13 DEF Saving!PersistRollout
<1>14. CASE Saving!Scrub
  BY <1>f, <1>14 DEF Saving!Scrub
<1>15. CASE Saving!Snapshot
  <2>1. /\ phase = "snapshot" /\ phase' = "report"
        /\ UNCHANGED <<setup, k_turn, resumed, dir, memory, thread, transcript, meta, rollout, k_ready, saved,
                       unsafe, lost>>
    BY <1>15 DEF Saving!Snapshot
  <2>2. k_faults' \in 0..SaveFaults
    BY <1>f, <1>15 DEF Saving!Snapshot
  <2>3. snap' \in {Saving!Tree(dir), Saving!HalfWritten}
    BY <1>15 DEF Saving!Snapshot
  <2>4. Saving!Tree(dir) \in [state : {"none", "broken", "good"}, edits : SUBSET Saving!Turns, repo : BOOLEAN, token : BOOLEAN]
    BY DEF Saving!Tree
  <2>5. Saving!HalfWritten \in [state : {"none", "broken", "good"}, edits : SUBSET Saving!Turns, repo : BOOLEAN, token : BOOLEAN]
    BY DEF Saving!HalfWritten, Saving!NoTree
  <2>6. snap' \in [state : {"none", "broken", "good"}, edits : SUBSET Saving!Turns, repo : BOOLEAN, token : BOOLEAN]
    BY <2>3, <2>4, <2>5
  <2>7. QED
    BY <2>1, <2>2, <2>6
<1>16. CASE Saving!Report
  BY <1>16 DEF Saving!Report
<1>17. CASE Saving!Crash
  BY <1>f, <1>17 DEF Saving!Crash, Saving!Fails, Saving!HalfWritten, Saving!NoTree
<1>18. CASE Saving!EditMeta
  BY <1>f, <1>18 DEF Saving!EditMeta
<1>19. CASE UNCHANGED Saving!vars
  BY <1>19 DEF Saving!vars
<1>20. QED
  BY <1>1, <1>2, <1>3, <1>4, <1>5, <1>6, <1>7, <1>8, <1>9, <1>10, <1>11, <1>12, <1>13, <1>14, <1>15, <1>16,
     <1>17, <1>18, <1>19 DEF Saving!Next

LEMMA SavingTypedInit == Init => SavingTyped
<1> SUFFICES ASSUME Saving!Init PROVE SavingTyped
  BY DEF Init
<1>1. /\ dir \in [edits : SUBSET Saving!Turns, repo : BOOLEAN, token : BOOLEAN]
      /\ snap \in [state : {"none", "broken", "good"}, edits : SUBSET Saving!Turns, repo : BOOLEAN, token : BOOLEAN]
  BY DEF Saving!Init, Saving!Empty, Saving!NoTree
<1>2. rollout \in [of : Past, memory : SUBSET Saving!Turns]
  BY SavingConstants DEF Saving!Init
<1>3. /\ memory \subseteq Saving!Turns /\ transcript \subseteq Saving!Turns /\ lost \subseteq Saving!Turns
      /\ \A e, f \in k_ready : e = f
  BY DEF Saving!Init
<1>4. /\ setup \in Saving!Setups /\ phase = "idle" /\ unsafe \in BOOLEAN
      /\ {k_turn, thread, meta, saved} = {0} /\ k_faults = 0
  BY DEF Saving!Init
<1>5. 0 \in Past /\ 0 \in 0..SaveFaults
  BY SavingConstants
<1>6. QED
  BY <1>1, <1>2, <1>3, <1>4, <1>5 DEF SavingTyped

LEMMA SavingIsTyped == SavingTyped => Saving!TypeOK
<1> SUFFICES ASSUME SavingTyped PROVE Saving!TypeOK
  OBVIOUS
<1>1. Saving!Cardinality(k_ready) <= 1
  <2>0. \A S : Saving!Cardinality(S) = Cardinality(S)
    BY DEF Saving!Cardinality, Cardinality
  <2>1. CASE k_ready = {}
    BY <2>0, <2>1, FS_EmptySet
  <2>2. CASE k_ready # {}
    <3>1. PICK e \in k_ready : TRUE
      BY <2>2
    <3>2. k_ready = {e}
      BY <3>1 DEF SavingTyped
    <3>3. QED
      BY <2>0, <3>2, FS_Singleton
  <2>3. QED
    BY <2>1, <2>2
<1>2. QED
  BY <1>1, SavingConstants DEF SavingTyped, Past, Saving!TypeOK, Saving!Turns

\* The names of objects are times of writers and their counters.
StoreTyped ==
    /\ now \in 1..4 /\ skew = 0 /\ seq \in 0..3 /\ next \in 1..5
    /\ \A k \in DOMAIN objects : k.seq \in 1..3 /\ k.ms \in Nat

LEMMA FourEntries == Store!Cardinality(1..4) = 4
<1>1. Store!Cardinality(1..4) = Cardinality(1..4)
  BY DEF Store!Cardinality, Cardinality
<1>2. Cardinality(1..4) = 4
  <2>1. \A n \in Nat : Cardinality(1..n) = n
    BY FS_Interval
  <2>2. QED
    BY <2>1
<1>3. QED
  BY <1>1, <1>2

LEMMA StoreTypedStep ==
    ASSUME StoreTyped, [Store!Next]_(Store!vars)
    PROVE  StoreTyped'
<1> USE DEF StoreTyped
<1>p. ASSUME NEW e, Store!Put(Store!Name(seq + 1), e), seq < 3
      PROVE  \A k \in DOMAIN objects' : k.seq \in 1..3 /\ k.ms \in Nat
  <2>1. DOMAIN objects' = {Store!Name(seq + 1)} \cup DOMAIN objects
    BY <1>p DEF Store!Put
  <2>2. Store!Name(seq + 1).seq \in 1..3 /\ Store!Name(seq + 1).ms \in Nat
    BY <1>p DEF Store!Name
  <2>3. QED
    BY <2>1, <2>2
<1>1. CASE Store!Tick
  BY <1>1 DEF Store!Tick
<1>2. CASE Store!NewTurn
  BY <1>2 DEF Store!NewTurn
<1>3. CASE Store!AppendBatch
  <2>1. PICK last_ \in next..4, lost_ \in BOOLEAN :
           \E batch : Store!Put(Store!Name(seq + 1), batch) /\ next' = last_ + 1
    BY <1>3, FourEntries DEF Store!AppendBatch
  <2>2. seq < 3 /\ seq' = seq + 1 /\ UNCHANGED <<now, skew>>
    BY <1>3 DEF Store!AppendBatch
  <2>3. QED
    BY <1>p, <2>1, <2>2
<1>4. CASE Store!Repeat
  BY <1>p, <1>4 DEF Store!Repeat
<1>5. CASE UNCHANGED Store!vars
  BY <1>5 DEF Store!vars
<1>6. QED
  BY <1>1, <1>2, <1>3, <1>4, <1>5 DEF Store!Next

LEMMA StoreTypedInit == Init => StoreTyped
BY DEF Init, Store!Init, StoreTyped

LEMMA StoreIsTyped == StoreTyped => Store!TypeOK
BY FourEntries DEF StoreTyped, Store!TypeOK

\* A run's state, a session's and the messages', as every step of a caller, a
\* driver or a reader leaves them.
Where == {"free", "grace", "cancelled", "await"}
RunsTyped ==
    /\ cur \in 0..LocalRuns /\ preparing \subseteq Local!Runs
    /\ task \in [Local!Runs -> {"none", "created", "running", "cancelling", "ended"}]
    /\ status \in [Local!Runs -> {"pending", "running", "idle"}]
    /\ first \in [Local!Runs -> {"none", "ok", "failed", "interrupted"}]
    /\ note \in [Local!Runs -> {"none", "interrupt", "caller"}]
    /\ sess.stop \in {"none", "needs_input", "interrupted", "error"}
    /\ l_sent \in Seq(Nat) /\ heard \in Seq(SUBSET Nat) /\ Len(l_sent) = Len(heard)

LEMMA SameDrives ==
    ASSUME NEW r \in Reading!Runs, Reading!Drives(r)
    PROVE  r \in Local!Runs /\ Local!Drives(r)
<1>1. Reading!Runs = Local!Runs
  BY DEF Reading!Runs, Local!Runs
<1>2. Local!Drives(r)
  BY DEF Reading!Drives, Local!Drives, Reading!FirstStep, Local!FirstStep, Reading!Prepared, Local!Prepared,
         Reading!TakesControl, Local!TakesControl, Reading!EndsTurn, Local!EndsTurn,
         Reading!YieldsResult, Local!YieldsResult, Reading!HarnessExhausted, Local!HarnessExhausted,
         Reading!HarnessDies, Local!HarnessDies, Reading!DriverCancelled, Local!DriverCancelled,
         Reading!Driven, Local!Driven, Reading!Emit, Local!Emit, Reading!Finalize, Local!Finalize,
         Reading!StopReasonFor, Local!StopReasonFor
<1>3. QED
  BY <1>1, <1>2

LEMMA CancelTyped ==
    ASSUME RunsTyped, NEW r, NEW why, Local!Cancel(r, why),
           r \in Local!Runs => why \in {"none", "interrupt", "caller"},
           UNCHANGED <<cur, sess, status, preparing, first, l_sent, heard>>
    PROVE  RunsTyped'
<1>1. CASE r \in Local!Runs
  BY <1>1 DEF RunsTyped, Local!Cancel
<1>2. CASE r \notin Local!Runs
  <2>1. task' = task /\ note' = note
    BY <1>2 DEF RunsTyped, Local!Cancel
  <2>2. QED
    BY <2>1 DEF RunsTyped
<1>3. QED
  BY <1>1, <1>2

LEMMA StartedTyped ==
    ASSUME RunsTyped, Local!EnsureStarted(cur), UNCHANGED <<cur, sess, status, preparing, first, note, l_sent, heard>>
    PROVE  RunsTyped'
<1>1. task' \in [Local!Runs -> {"none", "created", "running", "cancelling", "ended"}]
  BY DEF RunsTyped, Local!EnsureStarted
<1>2. QED
  BY <1>1 DEF RunsTyped

\* What a call does to the turns, whoever the caller is.
LEMMA CallTyped ==
    ASSUME RunsTyped, NEW c,
           \/ Local!StartTurn(c) \/ Local!SendIntoTurn(c) \/ Local!Interrupt(c) \/ Local!GraceOver(c)
           \/ Local!Await(c) \/ Local!Returns(c) \/ Local!InterrupterCancelled(c)
           \/ (Local!Cancel(on[c], note[on[c]]) /\ UNCHANGED <<cur, sess, status, preparing, first, l_sent, heard>>)
    PROVE  RunsTyped'
<1>1. CASE Local!StartTurn(c)
  BY <1>1, LocalConstants DEF RunsTyped, Local!StartTurn
<1>2. CASE Local!SendIntoTurn(c)
  <2>1. l_sent' = Append(l_sent, cur) /\ heard' = Append(heard, {}) /\ cur \in Nat /\ {} \in SUBSET Nat
    BY <1>2, LocalConstants DEF RunsTyped, Local!SendIntoTurn
  <2>2. l_sent' \in Seq(Nat) /\ heard' \in Seq(SUBSET Nat) /\ Len(l_sent') = Len(heard')
    BY <2>1 DEF RunsTyped
  <2>3. QED
    BY <1>2, <2>2 DEF RunsTyped, Local!SendIntoTurn
<1>3. CASE Local!Interrupt(c) \/ Local!Await(c)
  BY <1>3, StartedTyped DEF Local!Interrupt, Local!Await
<1>4. CASE Local!GraceOver(c)
  BY <1>4, CancelTyped DEF Local!GraceOver
<1>5. CASE Local!Returns(c) \/ Local!InterrupterCancelled(c)
  BY <1>5 DEF RunsTyped, Local!Returns, Local!InterrupterCancelled, Local!run_
<1>6. CASE Local!Cancel(on[c], note[on[c]]) /\ UNCHANGED <<cur, sess, status, preparing, first, l_sent, heard>>
  <2>1. on[c] \in Local!Runs => note[on[c]] \in {"none", "interrupt", "caller"}
    BY DEF RunsTyped
  <2>2. QED
    BY <1>6, <2>1, CancelTyped
<1>7. QED
  BY <1>1, <1>2, <1>3, <1>4, <1>5, <1>6

LEMMA DrivesTyped ==
    ASSUME RunsTyped, NEW r \in Local!Runs, Local!Drives(r)
    PROVE  RunsTyped'
<1>e. ASSUME NEW error, Local!Finalize(r, error)
      PROVE  sess'.stop \in {"none", "needs_input", "interrupted", "error"} /\ status' = [status EXCEPT ![r] = "idle"]
  BY <1>e DEF Local!Finalize, Local!StopReasonFor
<1>1. CASE Local!FirstStep(r)
  BY <1>1 DEF RunsTyped, Local!FirstStep
<1>2. CASE Local!Prepared(r)
  BY <1>2, Zenon DEF RunsTyped, Local!Prepared
<1>3. CASE Local!TakesControl(r)
  <2> DEFINE m == Head(l_inbox[r])
  <2>1. UNCHANGED heard \/ heard' = [heard EXCEPT ![m] = heard[m] \cup {r}]
    BY <1>3 DEF Local!TakesControl
  <2>2. heard \in Seq(SUBSET Nat) /\ Len(l_sent) = Len(heard) /\ r \in Nat
    BY LocalConstants DEF RunsTyped
  <2> HIDE DEF m
  <2>3. heard' \in Seq(SUBSET Nat) /\ Len(heard') = Len(heard)
    <3>1. CASE m \in DOMAIN heard /\ heard' = [heard EXCEPT ![m] = heard[m] \cup {r}]
      <4>1. heard[m] \cup {r} \in SUBSET Nat
        BY <2>2, <3>1
      <4>2. QED
        BY <2>2, <3>1, <4>1
    <3>2. CASE m \notin DOMAIN heard \/ UNCHANGED heard
      <4>1. heard' = heard
        BY <2>1, <2>2, <3>2
      <4>2. QED
        BY <2>2, <4>1
    <3>3. QED
      BY <2>1, <3>1, <3>2
  <2>4. QED
    BY <1>3, <2>2, <2>3 DEF RunsTyped, Local!TakesControl
<1>4. CASE Local!EndsTurn(r)
  BY <1>4 DEF RunsTyped, Local!EndsTurn
<1>5. CASE Local!YieldsResult(r)
  BY <1>5 DEF RunsTyped, Local!YieldsResult
<1>6. CASE Local!HarnessExhausted(r) \/ Local!HarnessDies(r) \/ Local!DriverCancelled(r)
  <2>1. sess'.stop \in {"none", "needs_input", "interrupted", "error"} /\ status' = [status EXCEPT ![r] = "idle"]
    BY <1>e, <1>6 DEF Local!HarnessExhausted, Local!HarnessDies, Local!DriverCancelled
  <2>2. /\ task' = [task EXCEPT ![r] = "ended"] /\ UNCHANGED <<cur, first, note, l_sent, heard>>
        /\ preparing' \subseteq preparing
    BY <1>6 DEF Local!HarnessExhausted, Local!HarnessDies, Local!DriverCancelled
  <2>3. QED
    BY <2>1, <2>2 DEF RunsTyped
<1>7. QED
  BY <1>1, <1>2, <1>3, <1>4, <1>5, <1>6 DEF Local!Drives

LEMMA RunsTypedStep ==
    ASSUME RunsTyped, Local!Next \/ Reading!Next \/ UNCHANGED local
    PROVE  RunsTyped'
<1>1. CASE Local!Next
  <2>1. ASSUME NEW c \in Callers, Local!Calls(c) PROVE RunsTyped'
    BY <2>1, CallTyped DEF Local!Calls, Local!AwaiterCancelled
  <2>2. CASE Local!CancelRun
    BY <2>2, CancelTyped DEF Local!CancelRun
  <2>3. ASSUME NEW r \in Local!Runs, Local!Drives(r) PROVE RunsTyped'
    BY <2>3, DrivesTyped
  <2>4. QED
    BY <1>1, <2>1, <2>2, <2>3 DEF Local!Next
<1>2. CASE Reading!Next
  <2>0. /\ (Reading!EnsureStarted(cur) <=> Local!EnsureStarted(cur))
        /\ \A r, why : Reading!Cancel(r, why) => Local!Cancel(r, why)
    BY DEF Reading!EnsureStarted, Local!EnsureStarted, Reading!Cancel, Local!Cancel
  <2>1. ASSUME NEW c \in ReadingCallers, Reading!Calls(c) PROVE RunsTyped'
    <3>1. CASE Reading!StartTurn(c)
      BY <3>1, LocalConstants DEF RunsTyped, Reading!StartTurn
    <3>2. CASE Reading!SendIntoTurn(c)
      <4>1. l_sent' = Append(l_sent, cur) /\ heard' = Append(heard, {}) /\ cur \in Nat /\ {} \in SUBSET Nat
        BY <3>2, LocalConstants DEF RunsTyped, Reading!SendIntoTurn
      <4>2. l_sent' \in Seq(Nat) /\ heard' \in Seq(SUBSET Nat) /\ Len(l_sent') = Len(heard')
        BY <4>1 DEF RunsTyped
      <4>3. QED
        BY <3>2, <4>2 DEF RunsTyped, Reading!SendIntoTurn
    <3>3. CASE Reading!Interrupt(c) \/ Reading!Await(c)
      BY <2>0, <3>3, StartedTyped DEF Reading!Interrupt, Reading!Await
    <3>4. CASE Reading!GraceOver(c)
      BY <2>0, <3>4, CancelTyped DEF Reading!GraceOver
    <3>5. CASE Reading!Returns(c) \/ Reading!InterrupterCancelled(c)
      BY <3>5 DEF RunsTyped, Reading!Returns, Reading!InterrupterCancelled, Reading!run_
    <3>6. CASE Reading!AwaiterCancelled(c)
      BY <2>0, <3>6, CallTyped DEF Reading!AwaiterCancelled
    <3>7. QED
      BY <2>1, <3>1, <3>2, <3>3, <3>4, <3>5, <3>6 DEF Reading!Calls
  <2>2. CASE Reading!CancelRun
    BY <2>0, <2>2, CancelTyped DEF Reading!CancelRun
  <2>3. ASSUME NEW r \in Reading!Runs, Reading!Drives(r) PROVE RunsTyped'
    BY <2>3, SameDrives, DrivesTyped
  <2>4. ASSUME NEW x \in Readers, Reading!Iterate(x) \/ Reading!Read(x) PROVE RunsTyped'
    BY <2>0, <2>4 DEF RunsTyped, Reading!Iterate, Reading!Read, Reading!EnsureStarted
  <2>5. QED
    BY <1>2, <2>1, <2>2, <2>3, <2>4 DEF Reading!Next
<1>3. CASE UNCHANGED local
  BY <1>3 DEF RunsTyped, local
<1>4. QED
  BY <1>1, <1>2, <1>3

\* A caller is in one of its places.
LEMMA CallersStep ==
    ASSUME NEW C, l_pc \in [C -> Where], Local!Next \/ Reading!Next \/ UNCHANGED local
    PROVE  l_pc' \in [C -> Where]
<1>1. UNCHANGED l_pc \/ \E c : \E place \in Where : l_pc' = [l_pc EXCEPT ![c] = place]
  <2>1. CASE Local!Next
    <3>1. ASSUME NEW c \in Callers, Local!Calls(c)
          PROVE  UNCHANGED l_pc \/ \E place \in Where : l_pc' = [l_pc EXCEPT ![c] = place]
      BY <3>1 DEF Where, Local!Calls, Local!StartTurn, Local!SendIntoTurn, Local!Interrupt, Local!GraceOver,
                  Local!Await, Local!Returns, Local!InterrupterCancelled, Local!AwaiterCancelled
    <3>2. ASSUME NEW r \in Local!Runs, Local!Drives(r) PROVE UNCHANGED l_pc
      BY <3>2 DEF Local!Drives, Local!FirstStep, Local!Prepared, Local!TakesControl, Local!EndsTurn,
                  Local!YieldsResult, Local!HarnessExhausted, Local!HarnessDies, Local!DriverCancelled
    <3>3. CASE Local!CancelRun
      BY <3>3 DEF Local!CancelRun
    <3>4. QED
      BY <2>1, <3>1, <3>2, <3>3, Zenon DEF Local!Next
  <2>2. CASE Reading!Next
    <3>1. ASSUME NEW c \in ReadingCallers, Reading!Calls(c)
          PROVE  UNCHANGED l_pc \/ \E place \in Where : l_pc' = [l_pc EXCEPT ![c] = place]
      BY <3>1 DEF Where, Reading!Calls, Reading!StartTurn, Reading!SendIntoTurn, Reading!Interrupt,
                  Reading!GraceOver, Reading!Await, Reading!Returns, Reading!InterrupterCancelled,
                  Reading!AwaiterCancelled
    <3>2. ASSUME NEW r \in Reading!Runs, Reading!Drives(r) PROVE UNCHANGED l_pc
      BY <3>2 DEF Reading!Drives, Reading!FirstStep, Reading!Prepared, Reading!TakesControl, Reading!EndsTurn,
                  Reading!YieldsResult, Reading!HarnessExhausted, Reading!HarnessDies, Reading!DriverCancelled
    <3>3. CASE Reading!CancelRun
      BY <3>3 DEF Reading!CancelRun
    <3>4. ASSUME NEW x \in Readers, Reading!Iterate(x) \/ Reading!Read(x) PROVE UNCHANGED l_pc
      BY <3>4 DEF Reading!Iterate, Reading!Read
    <3>5. QED
      BY <2>2, <3>1, <3>2, <3>3, <3>4, Zenon DEF Reading!Next
  <2>3. CASE UNCHANGED local
    BY <2>3 DEF local
  <2>4. QED
    BY <2>1, <2>2, <2>3
<1>2. QED
  BY <1>1

\* The types of the turns; the callers are those of the part.
LocalTyped ==
    /\ RunsTyped
    /\ IF part = "reading" THEN l_pc \in [ReadingCallers -> Where] ELSE l_pc \in [Callers -> Where]

LEMMA LocalTypedInit == Init => LocalTyped
<1> SUFFICES ASSUME Init PROVE LocalTyped
  OBVIOUS
<1>1. Local!Init \/ Reading!Init
  BY DEF Init
<1>2. RunsTyped
  <2>1. /\ cur = 0 /\ sess.stop = "none" /\ preparing = {} /\ l_sent = <<>> /\ heard = <<>>
        /\ task = [r \in Local!Runs |-> "none"] /\ status = [r \in Local!Runs |-> "pending"]
        /\ first = [r \in Local!Runs |-> "none"] /\ note = [r \in Local!Runs |-> "none"]
    BY <1>1 DEF Local!Init, Reading!Init, Local!Idle, Reading!Idle, Local!Runs, Reading!Runs
  <2>2. <<>> \in Seq(Nat) /\ <<>> \in Seq(SUBSET Nat)
    OBVIOUS
  <2>3. QED
    BY <2>1, <2>2, LocalConstants DEF RunsTyped
<1>3. QED
  BY <1>2 DEF Init, Local!Init, Reading!Init, LocalTyped, Where

LEMMA LocalTypedStep == LocalTyped /\ [Next]_vars => LocalTyped'
<1> SUFFICES ASSUME LocalTyped, [Next]_vars PROVE LocalTyped'
  OBVIOUS
<1>1. UNCHANGED part /\ (Local!Next \/ Reading!Next \/ UNCHANGED local)
  BY DEF Next, vars
<1>2. RunsTyped'
  BY <1>1, RunsTypedStep DEF LocalTyped
<1>3. QED
  BY <1>1, <1>2, CallersStep DEF LocalTyped

LEMMA LocalIsTyped ==
    LocalTyped => (part = "reading" => Reading!TypeOK) /\ (part = "local" => Local!TypeOK)
BY DEF LocalTyped, RunsTyped, Where, Local!TypeOK, Reading!TypeOK, Local!Runs, Reading!Runs

-----------------------------------------------------------------------------
(* All components have their types.                                        *)

LEMMA StoreMoves == [Next]_vars => [Store!Next]_(Store!vars)
<1>1. Next => Store!Next \/ UNCHANGED store
  BY DEF Next
<1>2. UNCHANGED vars => UNCHANGED store
  BY DEF vars
<1>3. UNCHANGED store => UNCHANGED Store!vars
  BY DEF store, Store!vars
<1>4. QED
  BY <1>1, <1>2, <1>3

\* A configuration that rests, or that moves by its part's Next.
ConfigTyped == ConfigTypes /\ OpenWithEngine /\ ConfigFits

LEMMA ConfigTypedStep == ConfigTyped /\ [Next]_vars => ConfigTyped'
<1> SUFFICES ASSUME ConfigTyped, [Next]_vars PROVE ConfigTyped'
  OBVIOUS
<1>1. UNCHANGED part /\ (ConfigStep \/ UNCHANGED config)
  BY ConfigMoves DEF ConfigTyped
<1>2. CASE UNCHANGED config
  BY <1>1, <1>2, ConfigRests DEF ConfigTyped
<1>3. CASE ConfigStep /\ ~UNCHANGED config
  <2>1. \/ part = "config" /\ Config!Next
        \/ part = "reaped_config" /\ ReapedConfig!Next
        \/ part = "local_config" /\ LocalConfig!Next
    BY <1>3 DEF Next, vars
  <2>2. faults \in 0..MostFaults
    BY DEF ConfigTyped, ConfigFits
  <2>3. faults' \in 0..MostFaults'
    BY <1>1, <2>1, <2>2, FailingConfig, FailingReapedConfig, FailingLocalConfig
  <2>4. QED
    BY <1>1, <1>3, <2>3, ConfigTypesStep, OpenWithEngineStep, ConfigFitsStep DEF ConfigTyped
<1>4. QED
  BY <1>1, <1>2, <1>3

AllTyped ==
    /\ ControlTypes /\ ControlTyped /\ AdoptTyped /\ Adopt!LooksTyped
    /\ ConfigTyped /\ LocalTyped /\ SavingTyped /\ StoreTyped

\* Every variable of the session's components has its type, for all values of
\* the constants: no message waits, travels or is taken that was not sent, no
\* turn is shown, followed or deleted that was not started, a run is followed
\* in an open session with an engine, what is saved is of turns there were,
\* and no bound is passed (sandbox/backend.py, runtime/local.py,
\* sandbox/worker.py, harness/*).
THEOREM TypesKept == Spec => []TypesHold
<1>1. Init => AllTyped
  <2>1. Init => ControlTypes /\ ControlTyped /\ AdoptTyped /\ Adopt!LooksTyped
    BY ControlTypedInit, AdoptTypedInit
  <2>2. Init => ConfigTyped /\ LocalTyped
    BY ConfigFitsInit, LocalTypedInit DEF ConfigTyped
  <2>3. Init => SavingTyped /\ StoreTyped
    BY SavingTypedInit, StoreTypedInit
  <2>4. QED
    BY <2>1, <2>2, <2>3 DEF AllTyped
<1>2. AllTyped /\ [Next]_vars => AllTyped'
  <2> SUFFICES ASSUME AllTyped, [Next]_vars PROVE AllTyped'
    OBVIOUS
  <2>1. ControlTypes' /\ ControlTyped'
    BY ControlMoves, ControlTypesStep, ControlTypedStep DEF AllTyped
  <2>2. AdoptTyped' /\ Adopt!LooksTyped'
    BY AdoptMoves, AdoptTypedStep, LooksTypedStep DEF AllTyped
  <2>3. ConfigTyped'
    BY ConfigTypedStep DEF AllTyped
  <2>4. LocalTyped'
    BY LocalTypedStep DEF AllTyped
  <2>5. SavingTyped' /\ StoreTyped'
    BY SavingMoves, SavingTypedStep, StoreMoves, StoreTypedStep DEF AllTyped
  <2>6. QED
    BY <2>1, <2>2, <2>3, <2>4, <2>5 DEF AllTyped
<1>3. AllTyped => TypesHold
  <2> SUFFICES ASSUME AllTyped PROVE TypesHold
    OBVIOUS
  <2>1. Control!TypeOK /\ Adopt!TypeOK
    BY ControlIsTyped DEF AllTyped, AdoptTyped, Adopt!TypeOK
  <2>2. /\ part = "config" => Config!TypeOK
        /\ part = "reaped_config" => ReapedConfig!TypeOK
        /\ part = "local_config" => LocalConfig!TypeOK
    BY ConfigIsTyped DEF AllTyped, ConfigTyped
  <2>3. (part = "reading" => Reading!TypeOK) /\ (part = "local" => Local!TypeOK)
    BY LocalIsTyped DEF AllTyped
  <2>4. Saving!TypeOK /\ Store!TypeOK
    BY SavingIsTyped, StoreIsTyped DEF AllTyped
  <2>5. QED
    BY <2>1, <2>2, <2>3, <2>4 DEF TypesHold
<1>4. QED
  BY <1>1, <1>2, <1>3, PTL DEF Spec

=============================================================================
