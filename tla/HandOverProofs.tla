--------------------------- MODULE HandOverProofs ---------------------------
(* Proofs about HandOver, for any number of turns, sandboxes and attempts:  *)
(* that it implements AtMostOnce, who owns a sandbox, that none leaks, and   *)
(* that the ready pool keeps its size.                                      *)
EXTENDS HandOver, TLAPS, FiniteSetTheorems

USE ConstantsAssumption

\* What every step may have to expand: the groups of variables, the state
\* sets and the small operators the actions are built from.
USE DEF vars, session, thread, engine, worker, Goto, Leave, Alive

-----------------------------------------------------------------------------
(* Types.                                                                  *)

\* Setting a flag of one slot gives slots again.
LEMMA SlotFlag ==
    ASSUME NEW f \in [Turns -> Slots], NEW t \in Turns
    PROVE  /\ [f EXCEPT ![t].abandoned = TRUE] \in [Turns -> Slots]
           /\ [f EXCEPT ![t].accepted = TRUE] \in [Turns -> Slots]
           /\ [f EXCEPT ![t].finished = TRUE] \in [Turns -> Slots]
<1>1. f[t] \in Slots
  OBVIOUS
<1>2. [f[t] EXCEPT !.abandoned = TRUE] \in Slots
  BY <1>1, Zenon DEF Slots
<1>3. [f[t] EXCEPT !.accepted = TRUE] \in Slots
  BY <1>1, Zenon DEF Slots
<1>4. [f[t] EXCEPT !.finished = TRUE] \in Slots
  BY <1>1, Zenon DEF Slots
<1>5. QED
  BY <1>2, <1>3, <1>4

\* Every step from a well-typed state, with the threads consistent, leads to
\* one; a driver that is not idle drives a turn.
LEMMA TypeStep ==
    ASSUME TypeOK, driver # "idle" => turn \in Turns, ThreadsAreConsistent, [Next]_vars
    PROVE  TypeOK' /\ (driver' # "idle" => turn' \in Turns)
<1> USE DEF TypeOK, DriverStates, ThreadStates, Outcomes, Jobs, NewSlot, Delete, Cleanup,
            StartTurn, Acknowledges, Release
<1> DEFINE Typed == TypeOK' /\ (driver' # "idle" => turn' \in Turns)
<1>1. ASSUME NEW t \in Turns, StopClaiming(t) PROVE Typed
  BY <1>1 DEF StopClaiming
<1>2. ASSUME NEW t \in Turns, ClaimFails(t) PROVE Typed
  BY <1>2 DEF ClaimFails, ThreadsAreConsistent
<1>3. ASSUME NEW t \in Turns, Hold(t) PROVE Typed
  <2>1. slot' \in [Turns -> Slots]
    BY <1>3, SMTT(30) DEF Hold, Slots
  <2>2. QED
    BY <1>3, <2>1 DEF Hold
<1>4. ASSUME NEW t \in Turns, CallAnswered(t) PROVE Typed
  BY <1>4 DEF CallAnswered
<1>5. ASSUME NEW t \in Turns, CallFindsGone(t) PROVE Typed
  BY <1>5 DEF CallFindsGone
<1>6. ASSUME NEW t \in Turns, CallLost(t) PROVE Typed
  BY <1>6 DEF CallLost, ThreadsAreConsistent, Working
<1>7. ASSUME NEW t \in Turns, AskAgain(t) PROVE Typed
  BY <1>7 DEF AskAgain
<1>8. ASSUME NEW t \in Turns, GiveUpAsking(t) PROVE Typed
  BY <1>8 DEF GiveUpAsking, ThreadsAreConsistent, Working
<1>9. ASSUME NEW t \in Turns, Publish(t) PROVE Typed
  <2>1. slot' \in [Turns -> Slots]
    <3>1. CASE slot' = slot
      BY <3>1
    <3>2. CASE slot' = [slot EXCEPT ![t].accepted = TRUE]
      BY <3>2, SlotFlag
    <3>3. QED
      BY <1>9, <3>1, <3>2 DEF Publish
  <2>2. held' \in Sandboxes \cup {None}
    BY <1>9 DEF Publish
  <2>3. pc' \in [Turns -> ThreadStates] /\ outcome' \in [Turns -> Outcomes]
    BY <1>9 DEF Publish, Leave
  <2>4. UNCHANGED <<driver, turn, detached, left, mine, tries, consumed>>
    BY <1>9 DEF Publish
  <2>5. UNCHANGED <<jobs, owed, short, pool, box, running, known, late>>
    BY <1>9 DEF Publish, engine, worker
  <2>6. QED
    BY <2>1, <2>2, <2>3, <2>4, <2>5
<1>10. ASSUME NEW t \in Turns, PublishUncertain(t) PROVE Typed
  BY <1>10 DEF PublishUncertain
<1>11. ASSUME NEW t \in Turns, Refused(t) PROVE Typed
  <2>1. slot' \in [Turns -> Slots]
    BY <1>11, SMTT(30) DEF Refused, Slots
  <2>2. QED
    BY <1>11, <2>1 DEF Refused
<1>12. ASSUME NEW t \in Turns, Drop(t) PROVE Typed
  BY <1>12 DEF Drop, ThreadsAreConsistent, Working
<1>13. ASSUME NEW t \in Turns, Finish(t) PROVE Typed
  <2>1. slot' \in [Turns -> Slots]
    <3>1. slot' = [slot EXCEPT ![t].finished = TRUE]
      BY <1>13 DEF Finish
    <3>2. QED
      BY <3>1, SlotFlag
  <2>2. owed' \in Nat /\ consumed' \in [Turns -> 0..Attempts]
    BY <1>13 DEF Finish
  <2>3. QED
    BY <1>13, <2>1, <2>2 DEF Finish
<1>14. ASSUME NEW t \in Turns, NEW s \in Sandboxes, ClaimWarm(t, s) PROVE Typed
  BY <1>14 DEF ClaimWarm, ThreadsAreConsistent
<1>15. ASSUME NEW t \in Turns, NEW s \in Sandboxes, ClaimCold(t, s) PROVE Typed
  BY <1>15 DEF ClaimCold, ThreadsAreConsistent
<1>16. ASSUME NEW t \in Turns, NEW s \in Sandboxes, LateDelivery(t, s) PROVE Typed
  BY <1>16 DEF LateDelivery
<1>17. ASSUME NEW s \in Sandboxes, RunDelete(s) PROVE Typed
  BY <1>17 DEF RunDelete
<1>18. ASSUME NEW s \in Sandboxes, Refill(s) PROVE Typed
  BY <1>18 DEF Refill
<1>19. ASSUME NEW s \in Sandboxes, TurnEnds(s) PROVE Typed
  BY <1>19 DEF TurnEnds
<1>20. ASSUME NEW s \in Sandboxes, Vanish(s) PROVE Typed
  BY <1>20 DEF Vanish
<1>21. ASSUME NEW s \in Sandboxes, ForeignTurn(s) PROVE Typed
  BY <1>21 DEF ForeignTurn
<1>22. ASSUME NEW t \in Turns, Submit(t) PROVE Typed
  <2>1. slot' \in [Turns -> Slots]
    BY <1>22 DEF Submit, Slots
  <2>2. QED
    BY <1>22, <2>1 DEF Submit
<1>23. ASSUME NEW t \in Turns, RunCleanup(t) PROVE Typed
  BY <1>23 DEF RunCleanup
<1>24. ASSUME DispatchReturns \/ StreamEnds \/ Cancel \/ CancelTooEarly \/ Detach PROVE Typed
  <2>1. UNCHANGED <<turn, held, left, slot, thread, engine, pool, box, worker>>
    BY <1>24 DEF DispatchReturns, StreamEnds, CancelTooEarly, Cancel, Detach
  <2>2. driver # "idle" /\ driver' \in DriverStates /\ detached' \in BOOLEAN
    BY <1>24 DEF DispatchReturns, StreamEnds, CancelTooEarly, Cancel, Detach
  <2>3. QED
    BY <2>1, <2>2
<1>25. ASSUME Finalize PROVE Typed
  <2>1. slot' \in [Turns -> Slots]
    <3>1. turn \in Turns
      BY <1>25 DEF Finalize
    <3>2. CASE slot' = slot
      BY <3>2
    <3>3. CASE slot' = [slot EXCEPT ![turn].abandoned = TRUE]
      BY <3>1, <3>3, SlotFlag
    <3>4. QED
      BY <1>25, <3>2, <3>3 DEF Finalize
  <2>2. jobs' \subseteq Jobs
    BY <1>25 DEF Finalize
  <2>3. QED
    BY <1>25, <2>1, <2>2 DEF Finalize
<1>26. ASSUME Take PROVE Typed
  <2>1. jobs' \subseteq Jobs
    BY <1>26 DEF Take
  <2>2. left' \subseteq Turns
    BY <1>26 DEF Take
  <2>3. QED
    BY <1>26, <2>1, <2>2 DEF Take
<1>27. ASSUME RefillFails PROVE Typed
  BY <1>27 DEF RefillFails
<1>28. ASSUME UNCHANGED vars PROVE Typed
  BY <1>28
<1>29. ASSUME DriverStarts PROVE Typed
  BY <1>29 DEF DriverStarts
<1>30. QED
  BY <1>1, <1>2, <1>3, <1>4, <1>5, <1>6, <1>7, <1>8, <1>9, <1>10, <1>11, <1>12, <1>13, <1>14,
     <1>15, <1>16, <1>17, <1>18, <1>19, <1>20, <1>21, <1>22, <1>23, <1>24, <1>25, <1>26, <1>27,
     <1>28, <1>29 DEF Next, Dispatching, Driving

-----------------------------------------------------------------------------
(* A turn starts in one sandbox at most.                                   *)

\* The steps that neither claim nor drop a sandbox, nor change the roster or
\* the life of a sandbox.
KeepsClaims == UNCHANGED <<mine, pool, box>>

LEMMA ClaimsStep ==
    ASSUME StartInv, [Next]_vars
    PROVE  ClaimsAreDistinct'
<1> USE DEF StartInv, TypeOK, ClaimsAreDistinct, Release
<1>1. ASSUME KeepsClaims PROVE ClaimsAreDistinct'
  BY <1>1 DEF KeepsClaims
<1>2. ASSUME NEW t \in Turns, NEW s \in Sandboxes, ClaimWarm(t, s) PROVE ClaimsAreDistinct'
  BY <1>2 DEF ClaimWarm
<1>3. ASSUME NEW t \in Turns, NEW s \in Sandboxes, ClaimCold(t, s) PROVE ClaimsAreDistinct'
  BY <1>3 DEF ClaimCold
<1>4. ASSUME NEW t \in Turns, Drop(t) PROVE ClaimsAreDistinct'
  BY <1>4 DEF Drop, ThreadsAreConsistent, Working
<1>5. ASSUME NEW s \in Sandboxes, RunDelete(s) \/ Vanish(s) PROVE ClaimsAreDistinct'
  BY <1>5 DEF RunDelete, Vanish
<1>6. ASSUME NEW t \in Turns, RunCleanup(t) PROVE ClaimsAreDistinct'
  <2>1. slot[t].sandbox \in Sandboxes \cup {None}
    BY DEF Slots
  <2>2. QED
    BY <1>6, <2>1 DEF RunCleanup
<1>7. ASSUME NEW s \in Sandboxes, Refill(s) PROVE ClaimsAreDistinct'
  BY <1>7 DEF Refill
<1>8. ASSUME NEW t \in Turns,
             StopClaiming(t) \/ ClaimFails(t) \/ Hold(t) \/ CallAnswered(t) \/ CallFindsGone(t)
             \/ CallLost(t) \/ AskAgain(t) \/ GiveUpAsking(t) \/ Publish(t) \/ PublishUncertain(t)
             \/ Refused(t) \/ Finish(t) \/ Submit(t)
      PROVE  KeepsClaims
  BY <1>8 DEF KeepsClaims, StopClaiming, ClaimFails, Hold, CallAnswered, CallFindsGone, CallLost,
              AskAgain, GiveUpAsking, Publish, PublishUncertain, Refused, Finish, Submit
<1>9. ASSUME NEW s \in Sandboxes,
             TurnEnds(s) \/ ForeignTurn(s) \/ \E t \in Turns : LateDelivery(t, s)
      PROVE  KeepsClaims
  BY <1>9 DEF KeepsClaims, TurnEnds, ForeignTurn, LateDelivery
<1>10. ASSUME Driving \/ Cancel \/ CancelTooEarly \/ Detach \/ RefillFails \/ UNCHANGED vars PROVE KeepsClaims
  BY <1>10 DEF KeepsClaims, Driving, DriverStarts, CancelTooEarly, DispatchReturns, StreamEnds, Finalize, Take, Cancel, Detach,
               RefillFails
<1>11. QED
  BY <1>1, <1>2, <1>3, <1>4, <1>5, <1>6, <1>7, <1>8, <1>9, <1>10 DEF Next, Dispatching

\* The driver, the background jobs and the platform leave the threads alone,
\* and no worker forgets a turn.
KeepsThreads == UNCHANGED thread /\ \A s \in Sandboxes : known[s] \subseteq known'[s]

LEMMA ThreadsStep ==
    ASSUME StartInv, [Next]_vars
    PROVE  ThreadsAreConsistent'
<1> USE DEF StartInv, TypeOK, ThreadsAreConsistent, Working, ThreadStates, Outcomes
<1>1. ASSUME KeepsThreads PROVE ThreadsAreConsistent'
  BY <1>1 DEF KeepsThreads
<1>2. ASSUME NEW t \in Turns, StopClaiming(t) PROVE ThreadsAreConsistent'
  BY <1>2 DEF StopClaiming
<1>3. ASSUME NEW t \in Turns, ClaimFails(t) PROVE ThreadsAreConsistent'
  BY <1>3 DEF ClaimFails
<1>4. ASSUME NEW t \in Turns, Hold(t) PROVE ThreadsAreConsistent'
  BY <1>4 DEF Hold
<1>5. ASSUME NEW t \in Turns, CallAnswered(t) PROVE ThreadsAreConsistent'
  BY <1>5 DEF CallAnswered, StartTurn, Acknowledges
<1>6. ASSUME NEW t \in Turns, CallFindsGone(t) \/ CallLost(t) \/ AskAgain(t) \/ GiveUpAsking(t)
      PROVE  ThreadsAreConsistent'
  BY <1>6 DEF CallFindsGone, CallLost, AskAgain, GiveUpAsking
<1>7. ASSUME NEW t \in Turns, Publish(t) PROVE ThreadsAreConsistent'
  BY <1>7 DEF Publish
<1>8. ASSUME NEW t \in Turns, PublishUncertain(t) PROVE ThreadsAreConsistent'
  BY <1>8 DEF PublishUncertain
<1>9. ASSUME NEW t \in Turns, Refused(t) PROVE ThreadsAreConsistent'
  BY <1>9 DEF Refused
<1>10. ASSUME NEW t \in Turns, Drop(t) PROVE ThreadsAreConsistent'
  BY <1>10 DEF Drop
<1>11. ASSUME NEW t \in Turns, Finish(t) PROVE ThreadsAreConsistent'
  BY <1>11 DEF Finish
<1>12. ASSUME DriverStarts PROVE ThreadsAreConsistent'
  BY <1>12 DEF DriverStarts
<1>13. ASSUME NEW t \in Turns, NEW s \in Sandboxes, ClaimWarm(t, s) PROVE ThreadsAreConsistent'
  BY <1>13 DEF ClaimWarm
<1>14. ASSUME NEW t \in Turns, NEW s \in Sandboxes, ClaimCold(t, s) PROVE ThreadsAreConsistent'
  BY <1>14 DEF ClaimCold
<1>15. ASSUME NEW t \in Turns, NEW s \in Sandboxes, LateDelivery(t, s) PROVE KeepsThreads
  BY <1>15 DEF KeepsThreads, LateDelivery, StartTurn
<1>16. ASSUME NEW s \in Sandboxes,
              RunDelete(s) \/ Refill(s) \/ TurnEnds(s) \/ Vanish(s) \/ ForeignTurn(s)
       PROVE  KeepsThreads
  BY <1>16 DEF KeepsThreads, RunDelete, Refill, TurnEnds, Vanish, ForeignTurn
<1>17. ASSUME (\E t \in Turns : Submit(t) \/ RunCleanup(t)) \/ DispatchReturns \/ StreamEnds
              \/ Finalize \/ Take \/ Cancel \/ CancelTooEarly \/ Detach \/ RefillFails
              \/ UNCHANGED vars
       PROVE  KeepsThreads
  BY <1>17 DEF KeepsThreads, Submit, RunCleanup, CancelTooEarly, DispatchReturns, StreamEnds,
               Finalize, Take, Cancel, Detach, RefillFails
<1>18. QED
  BY <1>1, <1>2, <1>3, <1>4, <1>5, <1>6, <1>7, <1>8, <1>9, <1>10, <1>11, <1>12, <1>13, <1>14,
     <1>15, <1>16, <1>17 DEF Next, Dispatching, Driving

\* The steps of the session, and of a thread between two calls.
KeepsWorkers == UNCHANGED <<running, known, late>>

LEMMA WorkersStep ==
    ASSUME StartInv, [Next]_vars
    PROVE  WorkersAreConsistent'
<1> USE DEF StartInv, TypeOK, WorkersAreConsistent, StartTurn, Release
<1> DEFINE BoxMoves ==
        \/ box' = box
        \/ \E s \in Sandboxes, b \in {"live", "gone", "stray"} : box' = [box EXCEPT ![s] = b]
<1>1. \A s \in Sandboxes : box[s] # "absent" => box'[s] # "absent"
  <2>1. ASSUME NEW t \in Turns, Dispatching(t) PROVE BoxMoves
    <3>1. CASE Drop(t)
      BY <3>1 DEF Drop, ThreadsAreConsistent, Working
    <3>2. CASE \E s \in Sandboxes : ClaimCold(t, s)
      BY <3>2 DEF ClaimCold
    <3>3. CASE UNCHANGED box
      BY <3>3
    <3>4. QED
      BY <2>1, <3>1, <3>2, <3>3
         DEF Dispatching, StopClaiming, ClaimFails, Hold, CallAnswered, CallFindsGone, CallLost,
             AskAgain, GiveUpAsking, Publish, PublishUncertain, Refused, Finish, ClaimWarm
  <2>2. ASSUME NEW t \in Turns, RunCleanup(t) PROVE BoxMoves
    BY <2>2 DEF RunCleanup, Slots
  <2>3. ASSUME NEW s \in Sandboxes, RunDelete(s) \/ Refill(s) \/ Vanish(s) PROVE BoxMoves
    BY <2>3 DEF RunDelete, Refill, Vanish
  <2>4. ASSUME (\E t \in Turns : Submit(t)) \/ Driving \/ Cancel \/ CancelTooEarly \/ Detach \/ RefillFails
               \/ (\E s \in Sandboxes : TurnEnds(s) \/ ForeignTurn(s))
               \/ (\E t \in Turns, s \in Sandboxes : LateDelivery(t, s)) \/ UNCHANGED vars
        PROVE  BoxMoves
    BY <2>4 DEF Submit, Driving, DriverStarts, CancelTooEarly, DispatchReturns, StreamEnds, Finalize, Take, Cancel, Detach,
                RefillFails, TurnEnds, ForeignTurn, LateDelivery
  <2>5. BoxMoves
    BY <2>1, <2>2, <2>3, <2>4 DEF Next
  <2>6. QED
    BY <2>5
<1>2. ASSUME KeepsWorkers PROVE WorkersAreConsistent'
  BY <1>1, <1>2 DEF KeepsWorkers
<1>3. ASSUME NEW t \in Turns, CallAnswered(t) PROVE WorkersAreConsistent'
  BY <1>1, <1>3 DEF CallAnswered, ThreadsAreConsistent, Working
<1>4. ASSUME NEW t \in Turns, CallLost(t) \/ GiveUpAsking(t) PROVE WorkersAreConsistent'
  BY <1>1, <1>4 DEF CallLost, GiveUpAsking, ThreadsAreConsistent, Working, ClaimsAreDistinct
<1>5. ASSUME NEW t \in Turns, NEW s \in Sandboxes, LateDelivery(t, s) PROVE WorkersAreConsistent'
  BY <1>1, <1>5 DEF LateDelivery
<1>6. ASSUME NEW t \in Turns, Drop(t) PROVE WorkersAreConsistent'
  BY <1>1, <1>6 DEF Drop, ThreadsAreConsistent, Working
<1>7. ASSUME NEW t \in Turns, RunCleanup(t) PROVE WorkersAreConsistent'
  BY <1>1, <1>7 DEF RunCleanup, Slots
<1>8. ASSUME NEW s \in Sandboxes, RunDelete(s) \/ TurnEnds(s) \/ Vanish(s) \/ ForeignTurn(s)
      PROVE  WorkersAreConsistent'
  BY <1>1, <1>8 DEF RunDelete, TurnEnds, Vanish, ForeignTurn
<1>9. ASSUME NEW t \in Turns,
             StopClaiming(t) \/ ClaimFails(t) \/ Hold(t) \/ CallFindsGone(t) \/ AskAgain(t)
             \/ Publish(t) \/ PublishUncertain(t) \/ Refused(t) \/ Finish(t) \/ Submit(t)
             \/ \E s \in Sandboxes : ClaimWarm(t, s) \/ ClaimCold(t, s)
      PROVE  KeepsWorkers
  BY <1>9 DEF KeepsWorkers, StopClaiming, ClaimFails, Hold, CallFindsGone, AskAgain, Publish,
              PublishUncertain, Refused, Finish, Submit, ClaimWarm, ClaimCold
<1>10. ASSUME (\E s \in Sandboxes : Refill(s)) \/ Driving \/ Cancel \/ CancelTooEarly \/ Detach \/ RefillFails
              \/ UNCHANGED vars
       PROVE  KeepsWorkers
  BY <1>10 DEF KeepsWorkers, Refill, Driving, DriverStarts, CancelTooEarly, DispatchReturns, StreamEnds, Finalize, Take, Cancel,
               Detach, RefillFails
<1>11. QED
  BY <1>2, <1>3, <1>4, <1>5, <1>6, <1>7, <1>8, <1>9, <1>10 DEF Next, Dispatching

\* A step that makes nothing newly reachable and moves no thread.
KeepsStarts ==
    /\ UNCHANGED <<mine, pc, outcome>>
    /\ \A t \in Turns, s \in Sandboxes : Reachable(t, s)' => Reachable(t, s)

\* A worker refuses turn t only because a foreign turn runs there, so that t
\* is not started there and will not be: no other turn of the session is
\* ever handed to that sandbox.
LEMMA RefusalIsFinal ==
    ASSUME StartInv, NEW t \in Turns, mine[t] # None, ~Acknowledges(mine[t], t)
    PROVE  running[mine[t]] = Foreign /\ ~Reachable(t, mine[t])
<1> USE DEF StartInv, TypeOK, Acknowledges
<1>1. mine[t] \in Sandboxes
  OBVIOUS
<1>2. running[mine[t]] \notin Turns
  <2>1. SUFFICES ASSUME NEW u \in Turns, running[mine[t]] = u PROVE FALSE
    OBVIOUS
  <2>2. u \in known[mine[t]]
    BY <1>1, <2>1 DEF WorkersAreConsistent
  <2>3. mine[u] = mine[t]
    BY <1>1, <2>2 DEF StartsAreSettled, Reachable
  <2>4. u = t
    BY <2>3 DEF ClaimsAreDistinct
  <2>5. QED
    BY <2>2, <2>4
<1>3. QED
  BY <1>1, <1>2 DEF Reachable

LEMMA SettledStep ==
    ASSUME StartInv, [Next]_vars
    PROVE  StartsAreSettled'
<1> USE DEF StartInv, TypeOK, StartsAreSettled, StartTurn, Release
<1>1. ASSUME KeepsStarts PROVE StartsAreSettled'
  BY <1>1 DEF KeepsStarts
<1>2. ASSUME NEW t \in Turns, CallAnswered(t) PROVE StartsAreSettled'
  <2>1. mine[t] \in Sandboxes
    BY <1>2 DEF CallAnswered, ThreadsAreConsistent, Working
  <2>2. outcome[t] = "none"
    BY <1>2 DEF CallAnswered, ThreadsAreConsistent
  <2>3. CASE Acknowledges(mine[t], t)
    BY <1>2, <2>1, <2>2, <2>3 DEF CallAnswered, Reachable, Acknowledges
  <2>4. CASE ~Acknowledges(mine[t], t)
    BY <1>2, <2>1, <2>4, RefusalIsFinal DEF CallAnswered, Reachable, Acknowledges
  <2>5. QED
    BY <2>3, <2>4
<1>3. ASSUME NEW t \in Turns, CallLost(t) \/ GiveUpAsking(t) PROVE StartsAreSettled'
  BY <1>3 DEF CallLost, GiveUpAsking, Reachable, ThreadsAreConsistent, Working
<1>4. ASSUME NEW t \in Turns, NEW s \in Sandboxes, LateDelivery(t, s) PROVE StartsAreSettled'
  BY <1>4 DEF LateDelivery, Reachable
<1>5. ASSUME NEW t \in Turns,
             StopClaiming(t) \/ ClaimFails(t) \/ Hold(t) \/ CallFindsGone(t) \/ AskAgain(t)
             \/ Publish(t) \/ PublishUncertain(t) \/ Refused(t) \/ Finish(t) \/ Submit(t)
      PROVE  StartsAreSettled'
  BY <1>5 DEF StopClaiming, ClaimFails, Hold, CallFindsGone, AskAgain, Publish, PublishUncertain,
              Refused, Finish, Submit, Reachable
<1>6. ASSUME NEW t \in Turns, NEW s \in Sandboxes, ClaimWarm(t, s) PROVE StartsAreSettled'
  BY <1>6 DEF ClaimWarm, Reachable
<1>7. ASSUME NEW t \in Turns, NEW s \in Sandboxes, ClaimCold(t, s) PROVE StartsAreSettled'
  BY <1>7 DEF ClaimCold, Reachable, WorkersAreConsistent
<1>8. ASSUME NEW t \in Turns, Drop(t) PROVE StartsAreSettled'
  BY <1>8 DEF Drop, Reachable, ThreadsAreConsistent, Working
<1>9. ASSUME NEW t \in Turns, RunCleanup(t) PROVE KeepsStarts
  BY <1>9 DEF RunCleanup, Reachable, KeepsStarts, Slots
<1>10. ASSUME NEW s \in Sandboxes, RunDelete(s) \/ TurnEnds(s) \/ Vanish(s) \/ ForeignTurn(s)
       PROVE  KeepsStarts
  BY <1>10 DEF RunDelete, TurnEnds, Vanish, ForeignTurn, Reachable, KeepsStarts
<1>11. ASSUME NEW s \in Sandboxes, Refill(s) PROVE KeepsStarts
  BY <1>11 DEF Refill, Reachable, KeepsStarts, WorkersAreConsistent
<1>12. ASSUME DispatchReturns \/ StreamEnds \/ Finalize \/ Take \/ Cancel \/ CancelTooEarly
              \/ Detach \/ RefillFails \/ UNCHANGED vars
       PROVE  KeepsStarts
  BY <1>12 DEF KeepsStarts, Reachable, CancelTooEarly, DispatchReturns, StreamEnds, Finalize,
               Take, Cancel, Detach, RefillFails
<1>13. ASSUME DriverStarts PROVE StartsAreSettled'
  BY <1>13 DEF DriverStarts, Reachable
<1>14. QED
  BY <1>1, <1>2, <1>3, <1>4, <1>5, <1>6, <1>7, <1>8, <1>9, <1>10, <1>11, <1>12, <1>13
     DEF Next, Dispatching, Driving

LEMMA StartHolds == Init => StartInv
<1> SUFFICES ASSUME Init PROVE StartInv
  OBVIOUS
<1>1. slot \in [Turns -> Slots]
  <2>1. NewSlot \in Slots
    BY DEF NewSlot, Slots
  <2>2. QED
    BY <2>1 DEF Init
<1>2. TypeOK
  <2>1. tries \in [Turns -> 0..Attempts] /\ consumed \in [Turns -> 0..Attempts]
        /\ owed \in Nat /\ short \in Nat
    BY DEF Init
  <2>2. box \in [Sandboxes -> {"absent", "live", "stray", "gone"}]
    BY DEF Init
  <2>3. known \in [Sandboxes -> SUBSET Turns]
    BY DEF Init
  <2>4. pc \in [Turns -> ThreadStates] /\ outcome \in [Turns -> Outcomes]
    BY DEF Init, ThreadStates, Outcomes
  <2>5. QED
    BY <1>1, <2>1, <2>2, <2>3, <2>4 DEF Init, TypeOK, DriverStates
<1>3. ClaimsAreDistinct
  BY DEF Init, ClaimsAreDistinct
<1>4. ThreadsAreConsistent
  BY DEF Init, ThreadsAreConsistent, Working
<1>5. StartsAreSettled
  BY DEF Init, StartsAreSettled, Reachable
<1>6. WorkersAreConsistent
  BY DEF Init, WorkersAreConsistent
<1>7. QED
  BY <1>2, <1>3, <1>4, <1>5, <1>6 DEF StartInv, Init

LEMMA StartStep == StartInv /\ [Next]_vars => StartInv'
<1>1. SUFFICES ASSUME StartInv, [Next]_vars PROVE StartInv'
  OBVIOUS
<1>2. TypeOK' /\ (driver' # "idle" => turn' \in Turns)
  BY <1>1, TypeStep DEF StartInv
<1>3. QED
  BY <1>1, <1>2, ClaimsStep, ThreadsStep, WorkersStep, SettledStep DEF StartInv

LEMMA StartInvariant == Spec => []StartInv
  BY StartHolds, StartStep, PTL DEF Spec

\* Every variable of the hand-over keeps its type.
THEOREM TypeCorrect == Spec => []TypeOK
<1>1. StartInv => TypeOK
  BY DEF StartInv
<1>2. QED
  BY <1>1, StartInvariant, PTL

\* No turn is ever started by two workers (_hand_over, _reconcile,
\* start_turn), however many answers are lost or late.
THEOREM StartedOnce == Spec => []OneRunner
<1>1. StartInv => OneRunner
  <2>1. SUFFICES ASSUME StartInv, NEW t \in Turns, NEW x \in Sandboxes, NEW y \in Sandboxes,
                        t \in known[x], t \in known[y]
                 PROVE  x = y
    BY DEF OneRunner
  <2>2. mine[t] = x /\ mine[t] = y
    BY <2>1 DEF StartInv, StartsAreSettled, Reachable
  <2>3. QED
    BY <2>2
<1>2. QED
  BY <1>1, StartInvariant, PTL

-----------------------------------------------------------------------------
(* The hand-over implements AtMostOnce.                                    *)

\* A turn some worker has a record of was started in the sandbox of its
\* thread; a turn none has a record of was not started.
LEMMA StartedInMine ==
    ASSUME StartInv, NEW t \in Turns
    PROVE  /\ (\E s \in Sandboxes : t \in known[s]) => StartedIn[t] = mine[t] /\ mine[t] # None
           /\ ~(\E s \in Sandboxes : t \in known[s]) => StartedIn[t] = None
<1>1. ASSUME NEW s \in Sandboxes, t \in known[s] PROVE mine[t] = s
  BY <1>1 DEF StartInv, StartsAreSettled, Reachable
<1>2. CASE \E s \in Sandboxes : t \in known[s]
  <2>1. PICK s \in Sandboxes : t \in known[s]
    BY <1>2
  <2>2. (CHOOSE x \in Sandboxes : t \in known[x]) = s
    BY <1>1, <2>1
  <2>3. mine[t] = s /\ s # None
    BY <1>1, <2>1
  <2>4. QED
    BY <1>2, <2>2, <2>3 DEF StartedIn
<1>3. CASE ~(\E s \in Sandboxes : t \in known[s])
  BY <1>3 DEF StartedIn
<1>4. QED
  BY <1>2, <1>3

\* StartTurn starts the turn in the abstract specification, or changes nothing.
LEMMA StartIsStart ==
    ASSUME StartInv, StartInv', NEW t \in Turns, NEW s \in Sandboxes, StartTurn(s, t),
           mine[t] = s, outcome[t] \notin {"failed", "abandoned"}, UNCHANGED <<mine, outcome>>
    PROVE  Promise!Start(t, s) \/ UNCHANGED <<StartedIn, outcome>>
<1> USE DEF StartInv, TypeOK, StartTurn
<1>1. CASE UNCHANGED known
  BY <1>1 DEF StartedIn
<1>2. CASE t \notin known[s] /\ known' = [known EXCEPT ![s] = @ \cup {t}]
  <2>1. ~(\E x \in Sandboxes : t \in known[x])
    <3>1. \A x \in Sandboxes : t \in known[x] => mine[t] = x
      BY DEF StartsAreSettled, Reachable
    <3>2. QED
      BY <1>2, <3>1
  <2>2. StartedIn[t] = None
    BY <2>1, StartedInMine
  <2>3. ASSUME NEW u \in Turns, u # t PROVE StartedIn'[u] = StartedIn[u]
    <3>1. \A x \in Sandboxes : u \in known'[x] <=> u \in known[x]
      <4>1. \A x \in Sandboxes : known'[x] = IF x = s THEN known[x] \cup {t} ELSE known[x]
        BY <1>2
      <4>2. QED
        BY <2>3, <4>1
    <3>2. CASE \E x \in Sandboxes : u \in known[x]
      <4>1. PICK x \in Sandboxes : u \in known[x]
        BY <3>2
      <4>2. \A y \in Sandboxes : u \in known[y] => y = x
        <5>1. \A y \in Sandboxes : u \in known[y] => mine[u] = y
          BY DEF StartsAreSettled, Reachable
        <5>2. QED
          BY <4>1, <5>1
      <4>3. (CHOOSE y \in Sandboxes : u \in known[y]) = x
        BY <4>1, <4>2
      <4>4. (CHOOSE y \in Sandboxes : u \in known'[y]) = x
        BY <3>1, <4>1, <4>2
      <4>5. QED
        BY <3>1, <3>2, <4>3, <4>4 DEF StartedIn
    <3>3. CASE ~(\E x \in Sandboxes : u \in known[x])
      BY <3>1, <3>3 DEF StartedIn
    <3>4. QED
      BY <3>2, <3>3
  <2>4. StartedIn'[t] = s
    <3>1. t \in known'[s]
      BY <1>2
    <3>2. \A x \in Sandboxes : t \in known'[x] => x = s
      BY <1>2, <2>1
    <3>3. (CHOOSE x \in Sandboxes : t \in known'[x]) = s
      BY <3>1, <3>2
    <3>4. QED
      BY <3>1, <3>3 DEF StartedIn
  <2>5. StartedIn' = [StartedIn EXCEPT ![t] = s]
    BY <2>3, <2>4 DEF StartedIn
  <2>6. QED
    BY <2>2, <2>5 DEF Promise!Start, Promise!NotStarted
<1>3. QED
  BY <1>1, <1>2

\* Every way a thread leaves _dispatch settles its hand-over truthfully.
LEMMA LeaveIsSettle ==
    ASSUME StartInv, NEW t \in Turns, NEW v \in {"took", "uncertain", "failed", "abandoned"},
           Leave(t, v), UNCHANGED known, outcome[t] = "none",
           v = "took" => pc[t] = "took",
           v \in {"failed", "abandoned"} => pc[t] \in {"claim", "hold", "drop"}
    PROVE  Promise!Settle(t, v)
<1> USE DEF StartInv
<1>1. UNCHANGED StartedIn
  BY DEF StartedIn
<1>2. ASSUME v = "took" PROVE StartedIn[t] # None
  <2>1. t \in known[mine[t]] /\ mine[t] \in Sandboxes
    BY <1>2 DEF ThreadsAreConsistent, Working, TypeOK
  <2>2. QED
    BY <2>1, StartedInMine
<1>3. ASSUME v \in {"failed", "abandoned"} PROVE StartedIn[t] = None
  <2>1. ~(\E s \in Sandboxes : t \in known[s])
    BY <1>3 DEF StartsAreSettled, Reachable
  <2>2. QED
    BY <2>1, StartedInMine
<1>4. QED
  BY <1>1, <1>2, <1>3 DEF Promise!Settle, Promise!NotStarted

LEMMA StepImplements ==
    ASSUME StartInv, StartInv', [Next]_vars
    PROVE  [Promise!Next]_<<StartedIn, outcome>>
<1> USE DEF StartInv
<1> DEFINE Implemented == [Promise!Next]_<<StartedIn, outcome>>
<1>1. ASSUME UNCHANGED <<known, outcome>> PROVE Implemented
  BY <1>1 DEF StartedIn
<1>2. ASSUME NEW t \in Turns, CallAnswered(t) PROVE Implemented
  <2>1. mine[t] \in Sandboxes /\ outcome[t] = "none"
    BY <1>2 DEF CallAnswered, ThreadsAreConsistent, Working, TypeOK
  <2>2. Promise!Start(t, mine[t]) \/ UNCHANGED <<StartedIn, outcome>>
    BY <1>2, <2>1, StartIsStart DEF CallAnswered
  <2>3. QED
    BY <2>1, <2>2 DEF Promise!Next
<1>3. ASSUME NEW t \in Turns, NEW s \in Sandboxes, LateDelivery(t, s) PROVE Implemented
  <2>1. CASE UNCHANGED known
    BY <1>1, <1>3, <2>1 DEF LateDelivery
  <2>2. CASE running[s] = None
    <3>1. Reachable(t, s)
      BY <1>3, <2>2 DEF LateDelivery, Reachable
    <3>2. mine[t] = s /\ outcome[t] \notin {"failed", "abandoned"}
      BY <3>1 DEF StartsAreSettled
    <3>3. Promise!Start(t, s) \/ UNCHANGED <<StartedIn, outcome>>
      BY <1>3, <3>2, StartIsStart DEF LateDelivery
    <3>4. QED
      BY <3>3 DEF Promise!Next
  <2>3. QED
    BY <1>3, <2>1, <2>2 DEF LateDelivery, StartTurn
<1>4. ASSUME NEW t \in Turns, NEW v \in {"took", "uncertain", "failed", "abandoned"},
             Promise!Settle(t, v)
      PROVE  Implemented
  BY <1>4 DEF Promise!Next, Promise!Verdicts, Promise!NotStarted
<1>5. ASSUME NEW t \in Turns, StopClaiming(t) PROVE Implemented
  BY <1>4, <1>5, LeaveIsSettle DEF StopClaiming, ThreadsAreConsistent
<1>6. ASSUME NEW t \in Turns, ClaimFails(t) PROVE Implemented
  BY <1>4, <1>6, LeaveIsSettle DEF ClaimFails, ThreadsAreConsistent
<1>7. ASSUME NEW t \in Turns, Hold(t) PROVE Implemented
  BY <1>1, <1>4, <1>7, LeaveIsSettle DEF Hold, ThreadsAreConsistent
<1>8. ASSUME NEW t \in Turns, Publish(t) PROVE Implemented
  BY <1>4, <1>8, LeaveIsSettle DEF Publish, ThreadsAreConsistent
<1>9. ASSUME NEW t \in Turns, PublishUncertain(t) PROVE Implemented
  BY <1>4, <1>9, LeaveIsSettle DEF PublishUncertain, ThreadsAreConsistent
<1>10. ASSUME NEW t \in Turns, Drop(t) PROVE Implemented
  BY <1>1, <1>4, <1>10, LeaveIsSettle DEF Drop, ThreadsAreConsistent
<1>11. ASSUME NEW t \in Turns,
              CallFindsGone(t) \/ CallLost(t) \/ AskAgain(t) \/ GiveUpAsking(t) \/ Refused(t)
              \/ Finish(t) \/ Submit(t) \/ RunCleanup(t)
              \/ \E s \in Sandboxes : ClaimWarm(t, s) \/ ClaimCold(t, s)
       PROVE  UNCHANGED <<known, outcome>>
  BY <1>11 DEF CallFindsGone, CallLost, AskAgain, GiveUpAsking, Refused, Finish, Submit,
               RunCleanup, ClaimWarm, ClaimCold
<1>12. ASSUME NEW s \in Sandboxes,
              RunDelete(s) \/ Refill(s) \/ TurnEnds(s) \/ Vanish(s) \/ ForeignTurn(s)
       PROVE  UNCHANGED <<known, outcome>>
  BY <1>12 DEF RunDelete, Refill, TurnEnds, Vanish, ForeignTurn
<1>13. ASSUME Driving \/ Cancel \/ CancelTooEarly \/ Detach \/ RefillFails \/ UNCHANGED vars
       PROVE  UNCHANGED <<known, outcome>>
  BY <1>13 DEF Driving, DriverStarts, CancelTooEarly, DispatchReturns, StreamEnds, Finalize, Take, Cancel, Detach, RefillFails
<1>14. QED
  BY <1>1, <1>2, <1>3, <1>5, <1>6, <1>7, <1>8, <1>9, <1>10, <1>11, <1>12, <1>13
     DEF Next, Dispatching

\* Seen from outside, with all its threads, retries and lost answers, the
\* hand-over of a session is AtMostOnce.
THEOREM Implements == Spec => AtMostOnceSpec
<1>1. Init => Promise!Init
  BY DEF Init, Promise!Init, StartedIn
<1>2. StartInv /\ StartInv' /\ [Next]_vars => [Promise!Next]_<<StartedIn, outcome>>
  BY StepImplements
<1>3. QED
  BY <1>1, <1>2, StartInvariant, PTL DEF Spec, AtMostOnceSpec, Promise!Spec

-----------------------------------------------------------------------------
(* A sandbox off the roster has a thread.                                  *)

LEMMA ClaimedStep ==
    ASSUME OwnInv, [Next]_vars
    PROVE  ClaimedHasThread'
<1> USE DEF OwnInv, StartInv, TypeOK, ClaimedHasThread, StartTurn, Release
<1>1. ASSUME UNCHANGED <<mine, pool>>,
             \A s \in Sandboxes : box'[s] = "live" => box[s] = "live",
             \A s \in Sandboxes : box'[s] = "live" /\ running[s] = Foreign => running'[s] = Foreign
      PROVE  ClaimedHasThread'
  BY <1>1
<1>2. ASSUME NEW t \in Turns, NEW s \in Sandboxes, ClaimWarm(t, s) PROVE ClaimedHasThread'
  BY <1>2 DEF ClaimWarm, ThreadsAreConsistent
<1>3. ASSUME NEW t \in Turns, NEW s \in Sandboxes, ClaimCold(t, s) PROVE ClaimedHasThread'
  BY <1>3 DEF ClaimCold, ThreadsAreConsistent
<1>4. ASSUME NEW t \in Turns, Drop(t) PROVE ClaimedHasThread'
  <2>1. mine[t] \in Sandboxes /\ ~Reachable(t, mine[t])
    BY <1>4 DEF Drop, ThreadsAreConsistent, Working, StartsAreSettled
  <2>2. ASSUME RunsAnotherTurn(mine[t]) PROVE running[mine[t]] = Foreign
    <3>1. ASSUME NEW u \in Turns, running[mine[t]] = u PROVE FALSE
      <4>1. u \in known[mine[t]]
        BY <2>1, <3>1 DEF WorkersAreConsistent
      <4>2. mine[u] = mine[t]
        BY <2>1, <4>1 DEF StartsAreSettled, Reachable
      <4>3. u = t
        BY <2>1, <4>2 DEF ClaimsAreDistinct
      <4>4. QED
        BY <2>1, <4>1, <4>3 DEF Reachable
    <3>2. QED
      BY <2>1, <2>2, <3>1 DEF RunsAnotherTurn
  <2>3. CASE Release(mine[t])
    BY <1>4, <2>1, <2>3 DEF Drop
  <2>4. CASE RunsAnotherTurn(mine[t]) /\ UNCHANGED <<box, running>>
    BY <1>4, <2>1, <2>2, <2>4 DEF Drop
  <2>5. QED
    BY <1>4, <2>3, <2>4 DEF Drop
<1>5. ASSUME NEW s \in Sandboxes, RunDelete(s) \/ Vanish(s) \/ TurnEnds(s) \/ ForeignTurn(s)
      PROVE  ClaimedHasThread'
  BY <1>1, <1>5 DEF RunDelete, Vanish, TurnEnds, ForeignTurn
<1>6. ASSUME NEW s \in Sandboxes, Refill(s) PROVE ClaimedHasThread'
  BY <1>6 DEF Refill
<1>7. ASSUME NEW t \in Turns, RunCleanup(t) PROVE ClaimedHasThread'
  BY <1>1, <1>7 DEF RunCleanup, Slots
<1>8. ASSUME NEW t \in Turns,
             StopClaiming(t) \/ ClaimFails(t) \/ Hold(t) \/ CallFindsGone(t)
             \/ CallLost(t) \/ AskAgain(t) \/ GiveUpAsking(t) \/ Publish(t) \/ PublishUncertain(t)
             \/ Refused(t) \/ Finish(t) \/ Submit(t)
      PROVE  ClaimedHasThread'
  BY <1>1, <1>8
     DEF StopClaiming, ClaimFails, Hold, CallFindsGone, CallLost, AskAgain, GiveUpAsking, Publish,
         PublishUncertain, Refused, Finish, Submit
<1>9. ASSUME NEW t \in Turns, CallAnswered(t) PROVE ClaimedHasThread'
  BY <1>1, <1>9 DEF CallAnswered, ThreadsAreConsistent, Working
<1>10. ASSUME NEW t \in Turns, NEW s \in Sandboxes, LateDelivery(t, s) PROVE ClaimedHasThread'
  BY <1>1, <1>10 DEF LateDelivery
<1>11. ASSUME Driving \/ Cancel \/ CancelTooEarly \/ Detach \/ RefillFails \/ UNCHANGED vars PROVE ClaimedHasThread'
  BY <1>1, <1>11 DEF Driving, DriverStarts, CancelTooEarly, DispatchReturns, StreamEnds, Finalize, Take, Cancel, Detach,
                     RefillFails
<1>12. QED
  BY <1>2, <1>3, <1>4, <1>5, <1>6, <1>7, <1>8, <1>9, <1>10, <1>11 DEF Next, Dispatching

-----------------------------------------------------------------------------
(* The slot of each hand-over.                                             *)

\* What setting one field of one slot does.
LEMMA SlotFields ==
    ASSUME NEW f \in [Turns -> Slots], NEW t \in Turns, NEW x
    PROVE  /\ LET g == [f EXCEPT ![t].sandbox = x]
              IN  /\ g[t].sandbox = x
                  /\ g[t].abandoned = f[t].abandoned
                  /\ g[t].accepted = f[t].accepted
                  /\ g[t].finished = f[t].finished
                  /\ \A u \in Turns : u # t => g[u] = f[u]
           /\ LET g == [f EXCEPT ![t].abandoned = TRUE]
              IN  /\ g[t].sandbox = f[t].sandbox
                  /\ g[t].abandoned
                  /\ g[t].accepted = f[t].accepted
                  /\ g[t].finished = f[t].finished
                  /\ \A u \in Turns : u # t => g[u] = f[u]
           /\ LET g == [f EXCEPT ![t].accepted = TRUE]
              IN  /\ g[t].sandbox = f[t].sandbox
                  /\ g[t].abandoned = f[t].abandoned
                  /\ g[t].accepted
                  /\ g[t].finished = f[t].finished
                  /\ \A u \in Turns : u # t => g[u] = f[u]
           /\ LET g == [f EXCEPT ![t].finished = TRUE]
              IN  /\ g[t].sandbox = f[t].sandbox
                  /\ g[t].abandoned = f[t].abandoned
                  /\ g[t].accepted = f[t].accepted
                  /\ g[t].finished
                  /\ \A u \in Turns : u # t => g[u] = f[u]
  BY DEF Slots

\* The jobs of different sandboxes and turns are different.
LEMMA JobsDiffer ==
    /\ \A s \in Sandboxes, t \in Turns : Delete(s) # Cleanup(t)
    /\ \A t, u \in Turns : Cleanup(t) = Cleanup(u) => t = u
    /\ \A s, r \in Sandboxes : Delete(s) = Delete(r) => s = r
  BY DEF Delete, Cleanup

\* A slot refers to the sandbox of its thread, or to none.
LEMMA SlotIsMine ==
    ASSUME OwnInv, NEW t \in Turns
    PROVE  slot[t].sandbox \in {None, mine[t]}
  BY DEF OwnInv, StartInv, TypeOK, ThreadStates, SlotsAreConsistent, SlotIsConsistent

LEMMA SlotsStep ==
    ASSUME OwnInv, [Next]_vars
    PROVE  SlotsAreConsistent'
<1> USE DEF OwnInv, StartInv, TypeOK, SlotIsConsistent
<1> \A u \in Turns : SlotIsConsistent(u)
  BY DEF SlotsAreConsistent
<1>1. ASSUME NEW t \in Turns, StopClaiming(t) PROVE SlotsAreConsistent'
  <2>1. ASSUME NEW u \in Turns, u # t PROVE SlotIsConsistent(u)'
    BY <1>1, <2>1 DEF StopClaiming
  <2>2. SlotIsConsistent(t)'
    BY <1>1 DEF StopClaiming, ThreadsAreConsistent
  <2>3. QED
    BY <2>1, <2>2 DEF SlotsAreConsistent
<1>2. ASSUME NEW t \in Turns, ClaimFails(t) PROVE SlotsAreConsistent'
  <2>1. ASSUME NEW u \in Turns, u # t PROVE SlotIsConsistent(u)'
    BY <1>2, <2>1 DEF ClaimFails
  <2>2. SlotIsConsistent(t)'
    BY <1>2 DEF ClaimFails, ThreadsAreConsistent
  <2>3. QED
    BY <2>1, <2>2 DEF SlotsAreConsistent
<1>3. ASSUME NEW t \in Turns, CallAnswered(t) PROVE SlotsAreConsistent'
  <2>1. ASSUME NEW u \in Turns, u # t PROVE SlotIsConsistent(u)'
    BY <1>3, <2>1 DEF CallAnswered
  <2>2. SlotIsConsistent(t)'
    BY <1>3 DEF CallAnswered, ThreadsAreConsistent
  <2>3. QED
    BY <2>1, <2>2 DEF SlotsAreConsistent
<1>4. ASSUME NEW t \in Turns, CallFindsGone(t) PROVE SlotsAreConsistent'
  <2>1. ASSUME NEW u \in Turns, u # t PROVE SlotIsConsistent(u)'
    BY <1>4, <2>1 DEF CallFindsGone
  <2>2. SlotIsConsistent(t)'
    BY <1>4 DEF CallFindsGone, ThreadsAreConsistent
  <2>3. QED
    BY <2>1, <2>2 DEF SlotsAreConsistent
<1>5. ASSUME NEW t \in Turns, CallLost(t) PROVE SlotsAreConsistent'
  <2>1. ASSUME NEW u \in Turns, u # t PROVE SlotIsConsistent(u)'
    BY <1>5, <2>1 DEF CallLost
  <2>2. SlotIsConsistent(t)'
    BY <1>5 DEF CallLost, ThreadsAreConsistent
  <2>3. QED
    BY <2>1, <2>2 DEF SlotsAreConsistent
<1>6. ASSUME NEW t \in Turns, AskAgain(t) PROVE SlotsAreConsistent'
  <2>1. ASSUME NEW u \in Turns, u # t PROVE SlotIsConsistent(u)'
    BY <1>6, <2>1 DEF AskAgain
  <2>2. SlotIsConsistent(t)'
    BY <1>6 DEF AskAgain, ThreadsAreConsistent
  <2>3. QED
    BY <2>1, <2>2 DEF SlotsAreConsistent
<1>7. ASSUME NEW t \in Turns, GiveUpAsking(t) PROVE SlotsAreConsistent'
  <2>1. ASSUME NEW u \in Turns, u # t PROVE SlotIsConsistent(u)'
    BY <1>7, <2>1 DEF GiveUpAsking
  <2>2. SlotIsConsistent(t)'
    BY <1>7 DEF GiveUpAsking, ThreadsAreConsistent
  <2>3. QED
    BY <2>1, <2>2 DEF SlotsAreConsistent
<1>8. ASSUME NEW t \in Turns, PublishUncertain(t) PROVE SlotsAreConsistent'
  <2>1. ASSUME NEW u \in Turns, u # t PROVE SlotIsConsistent(u)'
    BY <1>8, <2>1 DEF PublishUncertain
  <2>2. SlotIsConsistent(t)'
    BY <1>8 DEF PublishUncertain, ThreadsAreConsistent
  <2>3. QED
    BY <2>1, <2>2 DEF SlotsAreConsistent
<1>9. ASSUME NEW t \in Turns, Hold(t) PROVE SlotsAreConsistent'
  <2>1. ASSUME NEW u \in Turns, u # t PROVE SlotIsConsistent(u)'
    BY <1>9, <2>1, SlotFields DEF Hold
  <2>2. SlotIsConsistent(t)'
    BY <1>9, SlotFields DEF Hold, ThreadsAreConsistent
  <2>3. QED
    BY <2>1, <2>2 DEF SlotsAreConsistent
<1>10. ASSUME NEW t \in Turns, Publish(t) PROVE SlotsAreConsistent'
  <2>1. ASSUME NEW u \in Turns, u # t PROVE SlotIsConsistent(u)'
    BY <1>10, <2>1, SlotFields DEF Publish
  <2>2. SlotIsConsistent(t)'
    <3>1. CASE slot[t].abandoned
      BY <1>10, <3>1 DEF Publish, ThreadsAreConsistent
    <3>2. CASE ~slot[t].abandoned
      <4>1. slot' = [slot EXCEPT ![t].accepted = TRUE]
        BY <1>10, <3>2 DEF Publish
      <4>2. QED
        BY <1>10, <3>2, <4>1, SlotFields DEF Publish, ThreadsAreConsistent
    <3>3. QED
      BY <3>1, <3>2
  <2>3. QED
    BY <2>1, <2>2 DEF SlotsAreConsistent
<1>11. ASSUME NEW t \in Turns, Refused(t) PROVE SlotsAreConsistent'
  <2>1. ASSUME NEW u \in Turns, u # t PROVE SlotIsConsistent(u)'
    BY <1>11, <2>1, SlotFields DEF Refused
  <2>2. SlotIsConsistent(t)'
    BY <1>11, SlotFields DEF Refused, ThreadsAreConsistent
  <2>3. QED
    BY <2>1, <2>2 DEF SlotsAreConsistent
<1>12. ASSUME NEW t \in Turns, Finish(t) PROVE SlotsAreConsistent'
  <2>1. ASSUME NEW u \in Turns, u # t PROVE SlotIsConsistent(u)'
    BY <1>12, <2>1, SlotFields DEF Finish
  <2>2. SlotIsConsistent(t)'
    BY <1>12, SlotFields DEF Finish, ThreadsAreConsistent
  <2>3. QED
    BY <2>1, <2>2 DEF SlotsAreConsistent
<1>13. ASSUME NEW t \in Turns, Drop(t) PROVE SlotsAreConsistent'
  <2>1. ASSUME NEW u \in Turns, u # t PROVE SlotIsConsistent(u)'
    BY <1>13, <2>1, SlotIsMine DEF Drop, Release
  <2>2. SlotIsConsistent(t)'
    BY <1>13, SlotIsMine DEF Drop, Release, ThreadsAreConsistent
  <2>3. QED
    BY <2>1, <2>2 DEF SlotsAreConsistent
<1>14. ASSUME NEW t \in Turns, Submit(t) PROVE SlotsAreConsistent'
  <2>1. ASSUME NEW u \in Turns, u # t PROVE SlotIsConsistent(u)'
    BY <1>14, <2>1 DEF Submit, NewSlot
  <2>2. SlotIsConsistent(t)'
    BY <1>14 DEF Submit, NewSlot, ThreadsAreConsistent
  <2>3. QED
    BY <2>1, <2>2 DEF SlotsAreConsistent
<1>15. ASSUME NEW t \in Turns, NEW s \in Sandboxes, ClaimWarm(t, s) PROVE SlotsAreConsistent'
  <2>1. ASSUME NEW u \in Turns, u # t PROVE SlotIsConsistent(u)'
    BY <1>15, <2>1 DEF ClaimWarm
  <2>2. SlotIsConsistent(t)'
    BY <1>15 DEF ClaimWarm, ThreadsAreConsistent
  <2>3. QED
    BY <2>1, <2>2 DEF SlotsAreConsistent
<1>16. ASSUME NEW t \in Turns, NEW s \in Sandboxes, ClaimCold(t, s) PROVE SlotsAreConsistent'
  <2>1. ASSUME NEW u \in Turns, u # t PROVE SlotIsConsistent(u)'
    BY <1>16, <2>1, SlotIsMine DEF ClaimCold, ClaimsAreDistinct
  <2>2. SlotIsConsistent(t)'
    BY <1>16, SlotIsMine DEF ClaimCold, ClaimsAreDistinct, ThreadsAreConsistent
  <2>3. QED
    BY <2>1, <2>2 DEF SlotsAreConsistent
<1>17. ASSUME NEW t \in Turns, RunCleanup(t) PROVE SlotsAreConsistent'
  <2>1. ASSUME NEW u \in Turns, u # t PROVE SlotIsConsistent(u)'
    BY <1>17, <2>1, JobsDiffer, SlotIsMine DEF RunCleanup, Release
  <2>2. SlotIsConsistent(t)'
    BY <1>17, JobsDiffer, SlotIsMine DEF RunCleanup, Release, ThreadsAreConsistent
  <2>3. QED
    BY <2>1, <2>2 DEF SlotsAreConsistent
<1>18. ASSUME NEW s \in Sandboxes, RunDelete(s) PROVE SlotsAreConsistent'
  BY <1>18, JobsDiffer, SlotIsMine DEF RunDelete, Release, SlotsAreConsistent
<1>19. ASSUME NEW s \in Sandboxes, Refill(s) PROVE SlotsAreConsistent'
  BY <1>19, SlotIsMine DEF Refill, SlotsAreConsistent, ClaimsAreDistinct
<1>20. ASSUME Finalize PROVE SlotsAreConsistent'
  <2>1. turn \in Turns
    BY <1>20 DEF Finalize
  <2>2. ASSUME NEW u \in Turns, u # turn PROVE SlotIsConsistent(u)'
    BY <1>20, <2>1, <2>2, JobsDiffer, SlotFields DEF Finalize
  <2>3. SlotIsConsistent(turn)'
    <3>1. CASE slot[turn].finished
      BY <1>20, <2>1, <3>1, JobsDiffer DEF Finalize, SessionIsConsistent, DriverIsConsistent
    <3>2. CASE ~slot[turn].finished
      <4>1. slot' = [slot EXCEPT ![turn].abandoned = TRUE]
        BY <1>20, <3>2 DEF Finalize
      <4>2. pc[turn] # "none" /\ turn \notin left
        BY <1>20 DEF Finalize, SessionIsConsistent, DriverIsConsistent
      <4>3. Cleanup(turn) \in jobs' /\ turn' = turn /\ driver' = "idle"
        BY <1>20, <3>2 DEF Finalize
      <4>4. QED
        BY <1>20, <2>1, <3>2, <4>1, <4>2, <4>3, SlotFields DEF Finalize
    <3>3. QED
      BY <3>1, <3>2
  <2>4. QED
    BY <1>20, <2>1, <2>2, <2>3 DEF Finalize, SlotsAreConsistent
<1>21. ASSUME Take PROVE SlotsAreConsistent'
  BY <1>21, JobsDiffer DEF Take, SlotsAreConsistent, SessionIsConsistent, DriverIsConsistent
<1>22. ASSUME DispatchReturns \/ StreamEnds \/ Cancel \/ CancelTooEarly \/ Detach PROVE SlotsAreConsistent'
  BY <1>22 DEF DispatchReturns, StreamEnds, CancelTooEarly, Cancel, Detach, SlotsAreConsistent
<1>23. ASSUME NEW s \in Sandboxes, TurnEnds(s) \/ Vanish(s) \/ ForeignTurn(s)
      PROVE  SlotsAreConsistent'
  BY <1>23, SlotIsMine DEF TurnEnds, Vanish, ForeignTurn, SlotsAreConsistent
<1>24. ASSUME RefillFails \/ (\E t \in Turns, s \in Sandboxes : LateDelivery(t, s)) \/ UNCHANGED vars
      PROVE  SlotsAreConsistent'
  <2>1. UNCHANGED <<session, slot, thread, jobs>>
    BY <1>24 DEF RefillFails, LateDelivery
  <2>2. \A s \in Sandboxes : box'[s] = box[s]
    BY <1>24 DEF RefillFails, LateDelivery
  <2>3. QED
    BY <2>1, <2>2 DEF SlotsAreConsistent
<1>25. ASSUME DriverStarts PROVE SlotsAreConsistent'
  <2>1. ASSUME NEW u \in Turns, u # turn PROVE SlotIsConsistent(u)'
    BY <1>25, <2>1 DEF DriverStarts
  <2>2. ASSUME NEW u \in Turns, u = turn PROVE SlotIsConsistent(u)'
    <3>1. SlotIsConsistent(u) /\ pc[u] = "none" /\ pc'[u] = "claim"
      BY <1>25, <2>2 DEF DriverStarts, Goto
    <3>2. driver' = "awaiting" /\ UNCHANGED <<turn, left, slot, outcome, jobs, mine, box>>
      BY <1>25 DEF DriverStarts, engine
    <3>3. QED
      BY <2>2, <3>1, <3>2
  <2>3. QED
    BY <2>1, <2>2 DEF SlotsAreConsistent
<1>26. QED
  BY <1>1, <1>2, <1>3, <1>4, <1>5, <1>6, <1>7, <1>8, <1>9, <1>10, <1>11, <1>12, <1>13, <1>14,
     <1>15, <1>16, <1>17, <1>18, <1>19, <1>20, <1>21, <1>22, <1>23, <1>24, <1>25 DEF Next, Dispatching, Driving

-----------------------------------------------------------------------------
(* The session, and what it has handed on.                                 *)

LEMMA DeletesStep ==
    ASSUME OwnInv, [Next]_vars
    PROVE  DeletesAreOfEndedTurns'
<1> USE DEF OwnInv, StartInv, TypeOK, SessionIsConsistent, DeletesAreOfEndedTurns
<1>1. ASSUME jobs' \subseteq jobs \/ \E t \in Turns : jobs' = jobs \cup {Cleanup(t)},
             \A t \in Turns : pc[t] = "ended" => pc'[t] = "ended" /\ mine'[t] = mine[t]
      PROVE  DeletesAreOfEndedTurns'
  BY <1>1, JobsDiffer
<1>2. ASSUME NEW t \in Turns, Dispatching(t) PROVE DeletesAreOfEndedTurns'
  <2>1. ASSUME NEW u \in Turns, pc[u] = "ended" PROVE pc'[u] = "ended" /\ mine'[u] = mine[u]
    BY <1>2, <2>1
       DEF Dispatching, StopClaiming, ClaimFails, Hold, CallAnswered, CallFindsGone, CallLost,
           AskAgain, GiveUpAsking, Publish, PublishUncertain, Refused, Drop, Finish, ClaimWarm,
           ClaimCold
  <2>2. jobs' = jobs
    BY <1>2
       DEF Dispatching, StopClaiming, ClaimFails, Hold, CallAnswered, CallFindsGone, CallLost,
           AskAgain, GiveUpAsking, Publish, PublishUncertain, Refused, Drop, Finish, ClaimWarm,
           ClaimCold
  <2>3. QED
    BY <1>1, <2>1, <2>2
<1>3. ASSUME Take PROVE DeletesAreOfEndedTurns'
  <2>1. turn \in Turns /\ pc[turn] = "ended" /\ (held # None => held = mine[turn])
    BY <1>3 DEF Take, DriverIsConsistent, SlotsAreConsistent, SlotIsConsistent
  <2>2. ASSUME NEW s \in Sandboxes, Delete(s) \in jobs', Delete(s) \notin jobs PROVE s = held
    BY <1>3, <2>2, JobsDiffer DEF Take
  <2>3. QED
    BY <1>3, <2>1, <2>2 DEF Take
<1>4. ASSUME Finalize PROVE DeletesAreOfEndedTurns'
  <2>1. turn \in Turns
    BY <1>4 DEF Finalize
  <2>2. QED
    BY <1>1, <1>4, <2>1 DEF Finalize
<1>5. ASSUME NEW t \in Turns, Submit(t) \/ RunCleanup(t) PROVE DeletesAreOfEndedTurns'
  BY <1>1, <1>5 DEF Submit, RunCleanup
<1>6. ASSUME NEW s \in Sandboxes,
             RunDelete(s) \/ Refill(s) \/ TurnEnds(s) \/ Vanish(s) \/ ForeignTurn(s)
             \/ \E t \in Turns : LateDelivery(t, s)
      PROVE  DeletesAreOfEndedTurns'
  <2>1. jobs' \subseteq jobs /\ UNCHANGED <<mine, pc>>
    BY <1>6 DEF RunDelete, Refill, TurnEnds, Vanish, ForeignTurn, LateDelivery
  <2>2. QED
    BY <1>1, <2>1
<1>7. ASSUME DispatchReturns \/ StreamEnds \/ Cancel \/ CancelTooEarly \/ Detach \/ RefillFails \/ UNCHANGED vars
      PROVE  DeletesAreOfEndedTurns'
  BY <1>1, <1>7 DEF DispatchReturns, StreamEnds, CancelTooEarly, Cancel, Detach, RefillFails
<1>8. ASSUME DriverStarts PROVE DeletesAreOfEndedTurns'
  BY <1>1, <1>8 DEF DriverStarts
<1>9. QED
  BY <1>2, <1>3, <1>4, <1>5, <1>6, <1>7, <1>8 DEF Next, Driving

\* While a run is on, no thread but its own touches what its driver sees.
LEMMA DriverStep ==
    ASSUME OwnInv, [Next]_vars
    PROVE  DriverIsConsistent'
<1> USE DEF OwnInv, StartInv, TypeOK, SessionIsConsistent, DriverIsConsistent
<1> USE SlotFields
<1>1. ASSUME NEW t \in Turns,
             CallAnswered(t) \/ CallFindsGone(t) \/ CallLost(t) \/ AskAgain(t) \/ GiveUpAsking(t)
      PROVE  DriverIsConsistent'
  BY <1>1 DEF CallAnswered, CallFindsGone, CallLost, AskAgain, GiveUpAsking
<1>2. ASSUME NEW t \in Turns, StopClaiming(t) \/ ClaimFails(t) PROVE DriverIsConsistent'
  BY <1>2 DEF StopClaiming, ClaimFails, ThreadsAreConsistent
<1>3. ASSUME NEW t \in Turns, Hold(t) PROVE DriverIsConsistent'
  BY <1>3 DEF Hold, ThreadsAreConsistent
<1>4. ASSUME NEW t \in Turns, Publish(t) \/ PublishUncertain(t) PROVE DriverIsConsistent'
  <2>1. CASE slot[t].abandoned
    BY <1>4, <2>1 DEF Publish, PublishUncertain, ThreadsAreConsistent
  <2>2. CASE ~slot[t].abandoned
    <3>1. turn = t /\ driver \in {"awaiting", "finalizing"} /\ ~slot[t].finished
      BY <1>4, <2>2 DEF Publish, PublishUncertain, SlotsAreConsistent, SlotIsConsistent
    <3>2. ~detached
      BY <3>1
    <3>3. slot'[t].abandoned <=> slot[t].abandoned
      <4>1. CASE slot' = slot
        BY <4>1
      <4>2. CASE slot' = [slot EXCEPT ![t].accepted = TRUE]
        BY <4>2
      <4>3. QED
        BY <1>4, <2>2, <4>1, <4>2 DEF Publish, PublishUncertain
    <3>4. held' = mine[t] /\ mine' = mine /\ outcome'[t] \in {"took", "uncertain"}
      BY <1>4, <2>2 DEF Publish, PublishUncertain
    <3>5. QED
      BY <1>4, <2>2, <3>1, <3>2, <3>3, <3>4 DEF Publish, PublishUncertain, ThreadsAreConsistent
  <2>3. QED
    BY <2>1, <2>2
<1>5. ASSUME NEW t \in Turns, Refused(t) \/ Finish(t) PROVE DriverIsConsistent'
  <2>1. CASE Refused(t)
    BY <2>1 DEF Refused
  <2>2. CASE Finish(t)
    BY <2>2 DEF Finish
  <2>3. QED
    BY <1>5, <2>1, <2>2
<1>6. ASSUME NEW t \in Turns, Drop(t) PROVE DriverIsConsistent'
  BY <1>6 DEF Drop, ThreadsAreConsistent
<1>7. ASSUME NEW t \in Turns, NEW s \in Sandboxes, ClaimWarm(t, s) \/ ClaimCold(t, s)
      PROVE  DriverIsConsistent'
  <2>1. Delete(s) \notin jobs
    BY <1>7 DEF ClaimWarm, ClaimCold, DeletesAreOfEndedTurns, ClaimsAreDistinct
  <2>2. QED
    BY <1>7, <2>1 DEF ClaimWarm, ClaimCold, ThreadsAreConsistent
<1>8. ASSUME NEW t \in Turns, Submit(t) PROVE DriverIsConsistent'
  BY <1>8 DEF Submit, NewSlot, ThreadsAreConsistent
<1>9. ASSUME NEW t \in Turns, RunCleanup(t) PROVE DriverIsConsistent'
  BY <1>9 DEF RunCleanup
<1>10. ASSUME NEW s \in Sandboxes,
              RunDelete(s) \/ Refill(s) \/ TurnEnds(s) \/ Vanish(s) \/ ForeignTurn(s)
              \/ \E t \in Turns : LateDelivery(t, s)
       PROVE  DriverIsConsistent'
  <2>1. jobs' \subseteq jobs /\ UNCHANGED <<session, slot, thread>>
    BY <1>10 DEF RunDelete, Refill, TurnEnds, Vanish, ForeignTurn, LateDelivery
  <2>2. QED
    BY <2>1
<1>11. ASSUME DispatchReturns \/ StreamEnds \/ Cancel \/ CancelTooEarly PROVE DriverIsConsistent'
  BY <1>11 DEF DispatchReturns, StreamEnds, CancelTooEarly, Cancel
<1>12. ASSUME Detach PROVE DriverIsConsistent'
  BY <1>12 DEF Detach, SlotsAreConsistent, SlotIsConsistent
<1>13. ASSUME Finalize PROVE DriverIsConsistent'
  BY <1>13, JobsDiffer DEF Finalize
<1>14. ASSUME Take PROVE DriverIsConsistent'
  BY <1>14 DEF Take
<1>15. ASSUME RefillFails \/ UNCHANGED vars PROVE DriverIsConsistent'
  BY <1>15 DEF RefillFails
<1>16. ASSUME DriverStarts PROVE DriverIsConsistent'
  BY <1>16 DEF DriverStarts, ThreadsAreConsistent, SlotsAreConsistent, SlotIsConsistent
<1>17. QED
  BY <1>1, <1>2, <1>3, <1>4, <1>5, <1>6, <1>7, <1>8, <1>9, <1>10, <1>11, <1>12, <1>13, <1>14,
     <1>15, <1>16
     DEF Next, Dispatching, Driving

\* A sandbox that may run a turn is passed on from its thread to the run, and
\* from there to a delete or to another process.
LEMMA PassedOnStep ==
    ASSUME OwnInv, [Next]_vars, NEW u \in Turns
    PROVE  SandboxIsPassedOn(u)'
<1> USE DEF OwnInv, StartInv, TypeOK, SessionIsConsistent, SandboxIsPassedOn
<1> USE SlotFields
<1>1. outcome[u] \in {"took", "uncertain"} => mine[u] \in Sandboxes /\ pc[u] \in {"end", "ended"}
  BY DEF ThreadsAreConsistent
<1>2. ASSUME mine'[u] = mine[u], outcome'[u] = outcome[u],
             slot'[u].abandoned <=> slot[u].abandoned,
             left' = left, turn' = turn, driver # "idle" => driver' # "idle",
             Delete(mine[u]) \in jobs' <=> Delete(mine[u]) \in jobs,
             Cleanup(u) \in jobs' => Cleanup(u) \in jobs,
             mine[u] \in Sandboxes /\ box[mine[u]] # "live" => box'[mine[u]] # "live"
      PROVE  SandboxIsPassedOn(u)'
  BY <1>1, <1>2
<1>3. ASSUME NEW s \in Sandboxes, box[s] = "absent" PROVE mine[u] # s
  BY <1>3 DEF ClaimsAreDistinct
<1>4. ASSUME NEW t \in Turns, Dispatching(t), t # u PROVE SandboxIsPassedOn(u)'
  <2>1. mine'[u] = mine[u] /\ outcome'[u] = outcome[u] /\ slot'[u] = slot[u]
    BY <1>4 DEF Dispatching, StopClaiming, ClaimFails, Hold, CallAnswered, CallFindsGone, CallLost,
                AskAgain, GiveUpAsking, Publish, PublishUncertain, Refused, Drop, Finish, ClaimWarm,
                ClaimCold
  <2>2. UNCHANGED <<left, turn, driver, jobs>>
    BY <1>4 DEF Dispatching, StopClaiming, ClaimFails, Hold, CallAnswered, CallFindsGone, CallLost,
                AskAgain, GiveUpAsking, Publish, PublishUncertain, Refused, Drop, Finish, ClaimWarm,
                ClaimCold
  <2>3. mine[u] \in Sandboxes /\ box[mine[u]] # "live" => box'[mine[u]] # "live"
    <3>1. CASE Drop(t)
      BY <3>1 DEF Drop, Release
    <3>2. CASE \E s \in Sandboxes : ClaimCold(t, s)
      BY <1>3, <3>2 DEF ClaimCold
    <3>3. CASE box' = box
      BY <3>3
    <3>4. QED
      BY <1>4, <3>1, <3>2, <3>3
         DEF Dispatching, StopClaiming, ClaimFails, Hold, CallAnswered, CallFindsGone, CallLost,
             AskAgain, GiveUpAsking, Publish, PublishUncertain, Refused, Finish, ClaimWarm
  <2>4. QED
    BY <1>2, <2>1, <2>2, <2>3
<1>5. ASSUME Dispatching(u) PROVE SandboxIsPassedOn(u)'
  <2>1. u \notin left
    BY <1>5 DEF Dispatching, StopClaiming, ClaimFails, Hold, CallAnswered, CallFindsGone, CallLost,
                AskAgain, GiveUpAsking, Publish, PublishUncertain, Refused, Drop, Finish, ClaimWarm,
                ClaimCold, SlotsAreConsistent, SlotIsConsistent
  <2>2. UNCHANGED <<left, turn, driver, jobs>>
    BY <1>5 DEF Dispatching, StopClaiming, ClaimFails, Hold, CallAnswered, CallFindsGone, CallLost,
                AskAgain, GiveUpAsking, Publish, PublishUncertain, Refused, Drop, Finish, ClaimWarm,
                ClaimCold
  <2>3. CASE Publish(u)
    <3>1. slot'[u].abandoned <=> slot[u].abandoned
      <4>1. CASE slot' = slot
        BY <4>1
      <4>2. CASE slot' = [slot EXCEPT ![u].accepted = TRUE]
        BY <4>2
      <4>3. QED
        BY <2>3, <4>1, <4>2 DEF Publish
    <3>2. ~slot[u].abandoned => turn = u /\ driver # "idle"
      BY <2>3 DEF Publish, SlotsAreConsistent, SlotIsConsistent
    <3>3. QED
      BY <2>1, <2>2, <3>1, <3>2
  <2>4. CASE PublishUncertain(u)
    <3>1. ~slot[u].abandoned => turn = u /\ driver # "idle"
      BY <2>4 DEF PublishUncertain, SlotsAreConsistent, SlotIsConsistent
    <3>2. QED
      BY <2>1, <2>2, <2>4, <3>1 DEF PublishUncertain
  <2>5. CASE Finish(u)
    BY <1>2, <2>5 DEF Finish
  <2>6. CASE outcome'[u] \notin {"took", "uncertain"}
    BY <2>1, <2>2, <2>6
  <2>7. ASSUME StopClaiming(u) \/ ClaimFails(u) \/ Hold(u) \/ CallAnswered(u) \/ CallFindsGone(u)
               \/ CallLost(u) \/ AskAgain(u) \/ GiveUpAsking(u) \/ Refused(u) \/ Drop(u)
               \/ \E s \in Sandboxes : ClaimWarm(u, s) \/ ClaimCold(u, s)
        PROVE  outcome'[u] \notin {"took", "uncertain"}
    BY <1>1, <2>7 DEF StopClaiming, ClaimFails, Hold, CallAnswered, CallFindsGone, CallLost,
                AskAgain, GiveUpAsking, Refused, Drop, ClaimWarm, ClaimCold
  <2>8. QED
    BY <1>5, <2>3, <2>4, <2>5, <2>6, <2>7 DEF Dispatching
<1>6. ASSUME NEW t \in Turns, Submit(t) PROVE SandboxIsPassedOn(u)'
  <2>1. CASE t = u
    BY <1>1, <1>6, <2>1 DEF Submit
  <2>2. CASE t # u
    BY <1>6, <2>2 DEF Submit
  <2>3. QED
    BY <2>1, <2>2
<1>7. ASSUME Finalize PROVE SandboxIsPassedOn(u)'
  <2>1. turn \in Turns /\ turn \notin left
    BY <1>7 DEF Finalize, DriverIsConsistent
  <2>2. CASE slot[turn].finished
    BY <1>2, <1>7, <2>2 DEF Finalize
  <2>3. CASE ~slot[turn].finished
    <3>1. slot' = [slot EXCEPT ![turn].abandoned = TRUE] /\ jobs' = jobs \cup {Cleanup(turn)}
          /\ UNCHANGED <<left, turn, mine, outcome, box>>
      BY <1>7, <2>3 DEF Finalize
    <3>2. CASE u = turn
      BY <2>1, <3>1, <3>2
    <3>3. CASE u # turn
      BY <1>1, <2>1, <3>1, <3>3, JobsDiffer
    <3>4. QED
      BY <3>2, <3>3
  <2>4. QED
    BY <2>2, <2>3
<1>8. ASSUME Take PROVE SandboxIsPassedOn(u)'
  <2>1. turn \in Turns /\ turn \notin left /\ ~slot[turn].abandoned
        /\ Cleanup(turn) \notin jobs
    BY <1>8 DEF Take, DriverIsConsistent, SlotsAreConsistent, SlotIsConsistent
  <2>2. CASE u = turn
    <3>1. outcome[u] \in {"took", "uncertain"} => held = mine[u] /\ held # None
      BY <1>1, <1>8, <2>2 DEF Take, DriverIsConsistent
    <3>2. detached => outcome[u] = "took" /\ Delete(mine[u]) \notin jobs
      BY <1>1, <1>8, <2>2 DEF Take, DriverIsConsistent
    <3>3. QED
      BY <1>8, <2>1, <2>2, <3>1, <3>2 DEF Take
  <2>3. CASE u # turn
    <3>1. held # None => held = mine[turn] /\ held # mine[u]
      BY <2>1, <2>3 DEF DriverIsConsistent, ClaimsAreDistinct
    <3>2. u \in left => mine[u] \in Sandboxes
      BY <1>1
    <3>3. QED
      BY <1>8, <2>1, <2>3, <3>1, <3>2, JobsDiffer DEF Take
  <2>4. QED
    BY <2>2, <2>3
<1>9. ASSUME NEW s \in Sandboxes, RunDelete(s) PROVE SandboxIsPassedOn(u)'
  <2>1. CASE mine[u] = s
    BY <1>9, <2>1, JobsDiffer DEF RunDelete, Release
  <2>2. CASE mine[u] # s
    BY <1>1, <1>9, <2>2, JobsDiffer DEF RunDelete, Release
  <2>3. QED
    BY <2>1, <2>2
<1>10. ASSUME NEW t \in Turns, RunCleanup(t) PROVE SandboxIsPassedOn(u)'
  <2>1. mine[u] \in Sandboxes /\ box[mine[u]] # "live" => box'[mine[u]] # "live"
    BY <1>10, SlotIsMine DEF RunCleanup, Release
  <2>2. QED
    BY <1>1, <1>10, <2>1, JobsDiffer DEF RunCleanup
<1>11. ASSUME NEW s \in Sandboxes,
              Refill(s) \/ TurnEnds(s) \/ Vanish(s) \/ ForeignTurn(s)
              \/ \E t \in Turns : LateDelivery(t, s)
       PROVE  SandboxIsPassedOn(u)'
  <2>1. UNCHANGED <<session, slot, thread, jobs>>
    BY <1>11 DEF Refill, TurnEnds, Vanish, ForeignTurn, LateDelivery
  <2>2. mine[u] \in Sandboxes /\ box[mine[u]] # "live" => box'[mine[u]] # "live"
    <3>1. CASE Refill(s)
      BY <1>3, <3>1 DEF Refill
    <3>2. CASE Vanish(s)
      BY <3>2 DEF Vanish
    <3>3. CASE TurnEnds(s) \/ ForeignTurn(s) \/ \E t \in Turns : LateDelivery(t, s)
      BY <3>3 DEF TurnEnds, ForeignTurn, LateDelivery
    <3>4. QED
      BY <1>11, <3>1, <3>2, <3>3
  <2>3. QED
    BY <1>2, <2>1, <2>2
<1>12. ASSUME DispatchReturns \/ StreamEnds \/ Cancel \/ CancelTooEarly \/ Detach \/ RefillFails \/ UNCHANGED vars
       PROVE  SandboxIsPassedOn(u)'
  BY <1>2, <1>12 DEF DispatchReturns, StreamEnds, CancelTooEarly, Cancel, Detach, RefillFails
<1>13. ASSUME DriverStarts PROVE SandboxIsPassedOn(u)'
  BY <1>13 DEF DriverStarts
<1>14. QED
  BY <1>4, <1>5, <1>6, <1>7, <1>8, <1>9, <1>10, <1>11, <1>12, <1>13 DEF Next, Driving

LEMMA OwnInvariant == Spec => []OwnInv
<1>1. Init => OwnInv
  <2> SUFFICES ASSUME Init PROVE SlotsAreConsistent /\ SessionIsConsistent /\ ClaimedHasThread
    BY StartHolds DEF OwnInv
  <2>1. SlotsAreConsistent
    BY DEF Init, NewSlot, SlotsAreConsistent, SlotIsConsistent
  <2>2. SessionIsConsistent
    BY DEF Init, SessionIsConsistent, DriverIsConsistent, SandboxIsPassedOn, DeletesAreOfEndedTurns
  <2>3. ClaimedHasThread
    BY DEF Init, ClaimedHasThread
  <2>4. QED
    BY <2>1, <2>2, <2>3
<1>2. OwnInv /\ [Next]_vars => OwnInv'
  <2>1. SUFFICES ASSUME OwnInv, [Next]_vars PROVE OwnInv'
    OBVIOUS
  <2>2. StartInv'
    BY <2>1, StartStep DEF OwnInv
  <2>3. SlotsAreConsistent' /\ ClaimedHasThread'
    BY <2>1, SlotsStep, ClaimedStep
  <2>4. SessionIsConsistent'
    <3>1. DriverIsConsistent' /\ DeletesAreOfEndedTurns'
      BY <2>1, DriverStep, DeletesStep
    <3>2. \A u \in Turns : SandboxIsPassedOn(u)'
      BY <2>1, PassedOnStep
    <3>3. QED
      BY <3>1, <3>2 DEF SessionIsConsistent
  <2>5. QED
    BY <2>2, <2>3, <2>4 DEF OwnInv
<1>3. QED
  BY <1>1, <1>2, PTL DEF Spec

\* No sandbox leaks: whatever the order of claims, lost answers, interrupts,
\* detaches and cleanups, somebody is going to delete each sandbox that left
\* the roster, or has handed it to another process.
THEOREM NoLeak == Spec => []NothingLeaks
<1>1. OwnInv => NothingLeaks
  <2> SUFFICES ASSUME OwnInv, NEW s \in Sandboxes, box[s] = "live", s \notin pool,
                      running[s] # Foreign
               PROVE  Owned(s)
    BY DEF NothingLeaks, Owned
  <2> USE DEF OwnInv, StartInv, TypeOK
  <2>1. PICK t \in Turns : mine[t] = s
    BY DEF ClaimedHasThread
  <2>2. CASE pc[t] # "ended"
    BY <2>1, <2>2 DEF Owned
  <2>3. CASE pc[t] = "ended"
    <3>1. slot[t].finished /\ slot[t].sandbox = s /\ s # None
      BY <2>1, <2>3 DEF SlotsAreConsistent, SlotIsConsistent
    <3>2. CASE slot[t].abandoned
      BY <2>1, <3>1, <3>2 DEF SlotsAreConsistent, SlotIsConsistent, Owned
    <3>3. CASE ~slot[t].abandoned
      <4>1. outcome[t] \in {"took", "uncertain"}
        BY <2>1, <2>3, <3>1, <3>3
           DEF ThreadsAreConsistent, SlotsAreConsistent, SlotIsConsistent, Outcomes
      <4>2. \/ turn = t /\ driver # "idle"
            \/ t \in left
            \/ Delete(s) \in jobs
        BY <2>1, <3>3, <4>1 DEF SessionIsConsistent, SandboxIsPassedOn
      <4>3. turn = t /\ driver # "idle" => held = s
        <5>1. turn = t => driver \notin {"created", "stuck"}
          BY <2>3 DEF SessionIsConsistent, DriverIsConsistent
        <5>2. QED
          BY <2>1, <4>1, <5>1 DEF SessionIsConsistent, DriverIsConsistent
      <4>4. QED
        BY <2>1, <4>2, <4>3 DEF Owned
    <3>4. QED
      BY <3>2, <3>3
  <2>4. QED
    BY <2>2, <2>3
<1>2. QED
  BY <1>1, OwnInvariant, PTL

\* What detach() left running stays: the worker took that turn, and no
\* scheduled job of this process is about to delete its sandbox.
THEOREM DetachedStays == Spec => []DetachedIsKept
<1>1. OwnInv => DetachedIsKept
  BY DEF OwnInv, StartInv, TypeOK, SessionIsConsistent, SandboxIsPassedOn, DetachedIsKept,
         ThreadsAreConsistent
<1>2. QED
  BY <1>1, OwnInvariant, PTL

\* A dispatch thread that outlives its run never makes the session refer to
\* the sandbox of an older turn, nor stream from a worker without the turn.
THEOREM HeldIsCurrent == Spec => []HeldIsThisTurns
<1>1. OwnInv => HeldIsThisTurns
  BY DEF OwnInv, StartInv, TypeOK, SessionIsConsistent, DriverIsConsistent, HeldIsThisTurns,
         ThreadsAreConsistent
<1>2. QED
  BY <1>1, OwnInvariant, PTL

-----------------------------------------------------------------------------
(* The ready pool keeps its size.                                          *)

\* The pool entries the dispatch threads have taken and not given back, as
\* PoolConserved counts them.
Taken == {c \in Turns \X (1..Attempts) : c[2] <= consumed[c[1]]}

PoolInv ==
    /\ StartInv
    /\ IsFiniteSet(pool)
    /\ IsFiniteSet(Taken)
    /\ PoolConserved

\* A thread takes one more pool entry.
LEMMA TakesOne ==
    ASSUME StartInv, IsFiniteSet(Taken), NEW t \in Turns, NEW s \in Sandboxes, ClaimWarm(t, s)
    PROVE  IsFiniteSet(Taken') /\ Cardinality(Taken') = Cardinality(Taken) + 1
<1> DEFINE n == consumed[t] + 1
<1>1. consumed \in [Turns -> 0..Attempts] /\ Attempts \in Nat
  BY DEF StartInv, TypeOK
<1>2. n \in 1..Attempts
  BY <1>1 DEF ClaimWarm, StartInv, TypeOK, ThreadsAreConsistent
<1>3. consumed' = [consumed EXCEPT ![t] = n]
  BY DEF ClaimWarm
<1> HIDE DEF n
<1>4. Taken' = Taken \cup {<<t, n>>}
  <2>1. ASSUME NEW u \in Turns, NEW i \in 1..Attempts
        PROVE  i <= consumed'[u] <=> (i <= consumed[u] \/ (u = t /\ i = n))
    <3>1. CASE u = t
      BY <1>1, <1>2, <1>3, <3>1 DEF n
    <3>2. CASE u # t
      BY <1>1, <1>3, <3>2
    <3>3. QED
      BY <3>1, <3>2
  <2>2. QED
    BY <1>2, <2>1 DEF Taken
<1>5. <<t, n>> \notin Taken
  BY <1>1, <1>2 DEF Taken, n
<1>6. QED
  BY <1>4, <1>5, FS_AddElement

\* A thread that ends gives back all it took: one refill is scheduled for each.
LEMMA GivesBackAll ==
    ASSUME StartInv, IsFiniteSet(Taken), NEW t \in Turns, Finish(t)
    PROVE  IsFiniteSet(Taken') /\ Cardinality(Taken) = Cardinality(Taken') + consumed[t]
<1> DEFINE n    == consumed[t]
           Mine == {t} \X (1..n)
<1>1. consumed \in [Turns -> 0..Attempts] /\ Attempts \in Nat
  BY DEF StartInv, TypeOK
<1>2. consumed' = [consumed EXCEPT ![t] = 0]
  BY DEF Finish
<1>3. n \in 0..Attempts
  BY <1>1
<1> HIDE DEF n
<1>4. Taken' = Taken \ Mine
  <2>1. ASSUME NEW u \in Turns, NEW i \in 1..Attempts
        PROVE  i <= consumed'[u] <=> (i <= consumed[u] /\ ~(u = t /\ i \in 1..n))
    <3>1. CASE u = t
      BY <1>1, <1>2, <1>3, <3>1 DEF n
    <3>2. CASE u # t
      BY <1>1, <1>2, <3>2
    <3>3. QED
      BY <3>1, <3>2
  <2>2. QED
    BY <1>3, <2>1 DEF Taken
<1>5. Taken \cap Mine = Mine
  BY <1>1, <1>3 DEF Taken, n
<1>6. IsFiniteSet({t}) /\ Cardinality({t}) = 1
  BY FS_Singleton
<1>7. IsFiniteSet(1..n) /\ Cardinality(1..n) = n
  BY <1>3, FS_Interval
<1>8. Cardinality(Mine) = n
  <2>1. Cardinality(Mine) = Cardinality({t}) * Cardinality(1..n)
    BY <1>6, <1>7, FS_Product
  <2>2. Cardinality(Mine) = 1 * n
    BY <1>6, <1>7, <2>1
  <2> HIDE DEF Mine
  <2>3. QED
    BY <1>3, <2>2
<1>9. IsFiniteSet(Taken') /\ Cardinality(Taken') = Cardinality(Taken) - n
  <2> HIDE DEF Mine
  <2>1. IsFiniteSet(Taken \ Mine)
        /\ Cardinality(Taken \ Mine) = Cardinality(Taken) - Cardinality(Taken \cap Mine)
    BY FS_Difference
  <2>2. QED
    BY <1>4, <1>5, <1>8, <2>1
<1>10. Cardinality(Taken) \in Nat
  BY FS_CardinalityType
<1>11. QED
  BY <1>3, <1>9, <1>10 DEF n

LEMMA PoolStep ==
    ASSUME PoolInv, [Next]_vars
    PROVE  PoolInv'
<1> DEFINE P == Cardinality(pool)
           T == Cardinality(Taken)
<1>1. StartInv /\ StartInv'
  BY StartStep DEF PoolInv
<1>2. /\ P \in Nat /\ T \in Nat /\ owed \in Nat /\ short \in Nat
      /\ IsFiniteSet(pool) /\ IsFiniteSet(Taken)
  BY <1>1, FS_CardinalityType DEF PoolInv, StartInv, TypeOK
<1>3. P + owed + short + T = Cardinality(Pooled)
  BY DEF PoolInv, PoolConserved, Taken
<1>4. SUFFICES IsFiniteSet(pool') /\ IsFiniteSet(Taken') /\ P' + owed' + short' + T' = P + owed + short + T
  BY <1>1, <1>3 DEF PoolInv, PoolConserved, Taken
<1>5. ASSUME NEW t \in Turns, NEW s \in Sandboxes, ClaimWarm(t, s)
      PROVE  IsFiniteSet(pool') /\ IsFiniteSet(Taken') /\ P' + owed' + short' + T' = P + owed + short + T
  <2>1. pool' = pool \ {s} /\ s \in pool /\ UNCHANGED <<owed, short>>
    BY <1>5 DEF ClaimWarm
  <2>2. IsFiniteSet(pool') /\ P' = P - 1
    BY <1>2, <2>1, FS_RemoveElement
  <2>3. IsFiniteSet(Taken') /\ T' = T + 1
    BY <1>1, <1>2, <1>5, TakesOne
  <2> HIDE DEF P, T
  <2>4. QED
    BY <1>2, <2>1, <2>2, <2>3
<1>6. ASSUME NEW t \in Turns, Finish(t)
      PROVE  IsFiniteSet(pool') /\ IsFiniteSet(Taken') /\ P' + owed' + short' + T' = P + owed + short + T
  <2>1. pool' = pool /\ short' = short /\ owed' = owed + consumed[t]
    BY <1>6 DEF Finish
  <2>2. IsFiniteSet(Taken') /\ T = T' + consumed[t]
    BY <1>1, <1>2, <1>6, GivesBackAll
  <2>3. T' \in Nat /\ consumed[t] \in Nat
    BY <1>1, <2>2, FS_CardinalityType DEF StartInv, TypeOK
  <2>4. P' = P
    BY <2>1
  <2> HIDE DEF P, T
  <2>5. QED
    BY <1>2, <2>1, <2>2, <2>3, <2>4
<1>7. ASSUME NEW s \in Sandboxes, Refill(s)
      PROVE  IsFiniteSet(pool') /\ IsFiniteSet(Taken') /\ P' + owed' + short' + T' = P + owed + short + T
  <2>1. pool' = pool \cup {s} /\ owed' = owed - 1 /\ owed > 0 /\ UNCHANGED <<short, consumed>>
    BY <1>7 DEF Refill
  <2>2. s \notin pool
    BY <1>1, <1>7 DEF Refill, StartInv, ClaimsAreDistinct
  <2>3. IsFiniteSet(pool') /\ P' = P + 1
    BY <1>2, <2>1, <2>2, FS_AddElement
  <2>4. Taken' = Taken
    BY <2>1 DEF Taken
  <2>5. T' = T
    BY <2>4
  <2> HIDE DEF P, T
  <2>6. QED
    BY <1>2, <2>1, <2>3, <2>4, <2>5
<1>8. ASSUME RefillFails
      PROVE  IsFiniteSet(pool') /\ IsFiniteSet(Taken') /\ P' + owed' + short' + T' = P + owed + short + T
  <2>1. owed' = owed - 1 /\ short' = short + 1 /\ owed > 0 /\ UNCHANGED <<pool, consumed>>
    BY <1>8 DEF RefillFails
  <2>2. Taken' = Taken
    BY <2>1 DEF Taken
  <2>3. P' = P /\ T' = T
    BY <2>1, <2>2
  <2> HIDE DEF P, T
  <2>4. QED
    BY <1>2, <2>1, <2>2, <2>3
<1>9. ASSUME UNCHANGED <<pool, owed, short, consumed>>
      PROVE  IsFiniteSet(pool') /\ IsFiniteSet(Taken') /\ P' + owed' + short' + T' = P + owed + short + T
  BY <1>2, <1>9 DEF Taken
<1>10. ASSUME NEW t \in Turns,
              StopClaiming(t) \/ ClaimFails(t) \/ Hold(t) \/ CallAnswered(t) \/ CallFindsGone(t)
              \/ CallLost(t) \/ AskAgain(t) \/ GiveUpAsking(t) \/ Publish(t) \/ PublishUncertain(t)
              \/ Refused(t) \/ Drop(t) \/ Submit(t) \/ RunCleanup(t)
              \/ \E s \in Sandboxes : ClaimCold(t, s) \/ LateDelivery(t, s)
       PROVE  UNCHANGED <<pool, owed, short, consumed>>
  BY <1>10
     DEF StopClaiming, ClaimFails, Hold, CallAnswered, CallFindsGone, CallLost, AskAgain, GiveUpAsking, Publish,
         PublishUncertain, Refused, Drop, Submit, RunCleanup, ClaimCold, LateDelivery
<1>11. ASSUME Driving \/ Cancel \/ CancelTooEarly \/ Detach \/ UNCHANGED vars
              \/ \E s \in Sandboxes : RunDelete(s) \/ TurnEnds(s) \/ Vanish(s) \/ ForeignTurn(s)
       PROVE  UNCHANGED <<pool, owed, short, consumed>>
  BY <1>11
     DEF Driving, DriverStarts, DispatchReturns, StreamEnds, Finalize, Take, Cancel, CancelTooEarly, Detach,
         RunDelete, TurnEnds, Vanish, ForeignTurn
<1> HIDE DEF P, T
<1>12. QED
  BY <1>5, <1>6, <1>7, <1>8, <1>9, <1>10, <1>11 DEF Next, Dispatching

\* However many dead entries a dispatch meets, and whichever refills fail, the
\* pool loses nothing: an entry is on the roster, taken by a thread that will
\* have it replaced, about to be replaced, or its refill has failed.
THEOREM PoolKeepsItsSize == IsFiniteSet(Pooled) => (Spec => []PoolConserved)
<1> SUFFICES ASSUME IsFiniteSet(Pooled) PROVE Spec => []PoolConserved
  OBVIOUS
<1>1. Init => PoolInv
  <2> SUFFICES ASSUME Init PROVE PoolInv
    OBVIOUS
  <2>1. StartInv
    BY StartHolds
  <2>2. pool = Pooled /\ owed = 0 /\ short = 0 /\ consumed = [t \in Turns |-> 0]
    BY DEF Init
  <2>3. Taken = {}
    BY <2>2 DEF Taken
  <2>4. IsFiniteSet(Taken) /\ Cardinality(Taken) = 0
    BY <2>3, FS_EmptySet
  <2>5. Cardinality(Pooled) \in Nat
    BY FS_CardinalityType
  <2>6. QED
    BY <2>1, <2>2, <2>4, <2>5 DEF PoolInv, PoolConserved, Taken
<1>2. PoolInv /\ [Next]_vars => PoolInv'
  BY PoolStep
<1>3. PoolInv => PoolConserved
  BY DEF PoolInv
<1>4. QED
  BY <1>1, <1>2, <1>3, PTL DEF Spec
=============================================================================
