-------------------------- MODULE ReadyPoolProofs --------------------------
(* Proofs about ReadyPool, for any number of clients, sandboxes and        *)
(* attempts. They need nothing of the listings: whatever rows a client     *)
(* walks, the conditional delete decides.                                  *)
EXTENDS ReadyPool, WellFoundedInduction, TLAPS

USE DEF vars, walk, held, engine, Goto

-----------------------------------------------------------------------------
(* The invariant.                                                          *)

\* The types of what the properties speak of.
PoolTypes ==
    /\ roster \subseteq Sandboxes
    /\ box \in [Sandboxes -> {"absent", "live", "gone"}]
    /\ pc \in [Clients -> States]
    /\ got \in [Clients -> Sandboxes \cup {None}]
    /\ pruned \in [Clients -> SUBSET Sandboxes]
    /\ filling \in [Clients -> SUBSET Sandboxes]
    /\ jobs = [c \in Clients |-> jobs[c]]

\* A client holds a claimed sandbox from the claim to the end of its turn,
\* and expired ones only while it walks its listing.
ClaimsAreOpen ==
    \A c \in Clients :
        /\ pc[c] \in {"hold", "run"} => got[c] # None
        /\ got[c] # None => pc[c] \in {"walk", "hold", "run"}
        /\ pc[c] # "walk" => pruned[c] = {}

\* What a client has claimed, pruned and not yet recorded are different
\* sandboxes.
HoldsApart ==
    \A c \in Clients :
        /\ got[c] \notin pruned[c] \cup filling[c]
        /\ pruned[c] \cap filling[c] = {}

\* What is idle or held was created.
HeldWereCreated ==
    \A s \in Sandboxes :
        box[s] = "absent" => s \notin roster /\ \A c \in Clients : s \notin InHand(c)

PoolInv ==
    PoolTypes /\ ClaimsAreOpen /\ HoldsApart /\ HeldWereCreated /\ OneHolder /\ NoneForgotten

-----------------------------------------------------------------------------
\* The initial state satisfies it.
LEMMA PoolInvInit == PoolAssumption /\ Init => PoolInv
<1> SUFFICES ASSUME PoolAssumption, Init PROVE PoolInv
  OBVIOUS
<1> USE DEF Init
<1>1. Occurs(Initial) \subseteq Sandboxes
  BY DEF Occurs, PoolAssumption
<1>2. PoolTypes
  BY <1>1 DEF PoolTypes, States
<1>3. ClaimsAreOpen
  BY DEF ClaimsAreOpen
<1>4. \A c \in Clients : InHand(c) = {} /\ got[c] = None /\ pruned[c] = {} /\ filling[c] = {}
  BY DEF InHand
<1>5. HoldsApart
  BY <1>4 DEF HoldsApart
<1>6. HeldWereCreated /\ OneHolder /\ NoneForgotten
  BY <1>1, <1>4 DEF HeldWereCreated, OneHolder, NoneForgotten
<1>7. QED
  BY <1>2, <1>3, <1>5, <1>6 DEF PoolInv

-----------------------------------------------------------------------------
(* Every step keeps it.                                                    *)

\* A client's walk over its listing: what it takes off the roster it won.
LEMMA ClaimingStep ==
    ASSUME PoolAssumption, PoolInv, NEW c \in Clients, Claiming(c)
    PROVE  PoolInv'
<1> USE DEF PoolInv, PoolTypes, ClaimsAreOpen, HoldsApart, HeldWereCreated, OneHolder,
            NoneForgotten, InHand, States, PoolAssumption
<1>1. CASE List(c)
  <2>1. PoolTypes'
    BY <1>1 DEF List
  <2>2. ClaimsAreOpen'
    BY <1>1 DEF List
  <2>3. HoldsApart'
    BY <1>1 DEF List
  <2>4. HeldWereCreated'
    BY <1>1 DEF List
  <2>5. OneHolder'
    BY <1>1 DEF List
  <2>6. NoneForgotten'
    BY <1>1 DEF List
  <2>7. QED
    BY <2>1, <2>2, <2>3, <2>4, <2>5, <2>6
<1>2. CASE PruneRow(c)
  <2>1. PoolTypes'
    BY <1>2 DEF PruneRow, Walking, NextRow
  <2>2. ClaimsAreOpen'
    BY <1>2 DEF PruneRow, Walking, NextRow
  <2>3. HoldsApart'
    BY <1>2 DEF PruneRow, Walking, NextRow
  <2>4. HeldWereCreated'
    BY <1>2 DEF PruneRow, Walking, NextRow
  <2>5. OneHolder'
    BY <1>2 DEF PruneRow, Walking, NextRow
  <2>6. NoneForgotten'
    BY <1>2 DEF PruneRow, Walking, NextRow
  <2>7. QED
    BY <2>1, <2>2, <2>3, <2>4, <2>5, <2>6
<1>3. CASE TakeRow(c)
  <2>1. PoolTypes'
    BY <1>3 DEF TakeRow, Walking, NextRow
  <2>2. ClaimsAreOpen'
    BY <1>3 DEF TakeRow, Walking, NextRow
  <2>3. HoldsApart'
    BY <1>3 DEF TakeRow, Walking, NextRow
  <2>4. HeldWereCreated'
    BY <1>3 DEF TakeRow, Walking, NextRow
  <2>5. OneHolder'
    BY <1>3 DEF TakeRow, Walking, NextRow
  <2>6. NoneForgotten'
    BY <1>3 DEF TakeRow, Walking, NextRow
  <2>7. QED
    BY <2>1, <2>2, <2>3, <2>4, <2>5, <2>6
<1>4. CASE SkipRow(c)
  BY <1>4 DEF SkipRow, NextRow
<1>5. CASE RowFails(c)
  <2>1. PoolTypes'
    BY <1>5 DEF RowFails, Walking
  <2>2. ClaimsAreOpen'
    BY <1>5 DEF RowFails, Walking
  <2>3. HoldsApart'
    BY <1>5 DEF RowFails, Walking
  <2>4. HeldWereCreated'
    BY <1>5 DEF RowFails, Walking
  <2>5. OneHolder'
    BY <1>5 DEF RowFails, Walking
  <2>6. NoneForgotten'
    BY <1>5 DEF RowFails, Walking
  <2>7. QED
    BY <2>1, <2>2, <2>3, <2>4, <2>5, <2>6
<1>6. CASE ClaimWarm(c)
  <2>1. PoolTypes'
    BY <1>6 DEF ClaimWarm, SchedulePruned
  <2>2. ClaimsAreOpen'
    BY <1>6 DEF ClaimWarm, SchedulePruned
  <2>3. HoldsApart'
    BY <1>6 DEF ClaimWarm, SchedulePruned
  <2>4. HeldWereCreated'
    BY <1>6 DEF ClaimWarm, SchedulePruned
  <2>5. OneHolder'
    BY <1>6 DEF ClaimWarm, SchedulePruned
  <2>6. NoneForgotten'
    BY <1>6 DEF ClaimWarm, SchedulePruned
  <2>7. QED
    BY <2>1, <2>2, <2>3, <2>4, <2>5, <2>6
<1>7. ASSUME NEW s \in Sandboxes, ClaimCold(c, s) PROVE PoolInv'
  <2>1. PoolTypes'
    BY <1>7 DEF ClaimCold, SchedulePruned, Born
  <2>2. ClaimsAreOpen'
    BY <1>7 DEF ClaimCold, SchedulePruned, Born
  <2>3. HoldsApart'
    BY <1>7 DEF ClaimCold, SchedulePruned, Born
  <2>4. HeldWereCreated'
    BY <1>7 DEF ClaimCold, SchedulePruned, Born
  <2>5. OneHolder'
    BY <1>7 DEF ClaimCold, SchedulePruned, Born
  <2>6. NoneForgotten'
    BY <1>7 DEF ClaimCold, SchedulePruned, Born
  <2>7. QED
    BY <2>1, <2>2, <2>3, <2>4, <2>5, <2>6
<1>8. CASE ClaimFails(c)
  <2>1. PoolTypes'
    BY <1>8 DEF ClaimFails, SchedulePruned
  <2>2. ClaimsAreOpen'
    BY <1>8 DEF ClaimFails, SchedulePruned
  <2>3. HoldsApart'
    BY <1>8 DEF ClaimFails, SchedulePruned
  <2>4. HeldWereCreated'
    BY <1>8 DEF ClaimFails, SchedulePruned
  <2>5. OneHolder'
    BY <1>8 DEF ClaimFails, SchedulePruned
  <2>6. NoneForgotten'
    BY <1>8 DEF ClaimFails, SchedulePruned
  <2>7. QED
    BY <2>1, <2>2, <2>3, <2>4, <2>5, <2>6
<1>9. QED
  BY <1>1, <1>2, <1>3, <1>4, <1>5, <1>6, <1>7, <1>8 DEF Claiming

\* A dispatch and a turn: a sandbox given up is deleted, or its delete failed.
LEMMA RunningStep ==
    ASSUME PoolAssumption, PoolInv, NEW c \in Clients, Running(c)
    PROVE  PoolInv'
<1> USE DEF PoolInv, PoolTypes, ClaimsAreOpen, HoldsApart, HeldWereCreated, OneHolder,
            NoneForgotten, InHand, States, PoolAssumption
<1>1. CASE TurnStarts(c)
  BY <1>1 DEF TurnStarts
<1>2. CASE TurnRefused(c)
  <2>1. PoolTypes'
    BY <1>2, SMTT(30) DEF TurnRefused, Release
  <2>2. ClaimsAreOpen'
    BY <1>2 DEF TurnRefused, Release
  <2>3. HoldsApart'
    BY <1>2 DEF TurnRefused, Release
  <2>4. HeldWereCreated'
    BY <1>2 DEF TurnRefused, Release
  <2>5. OneHolder'
    BY <1>2 DEF TurnRefused, Release
  <2>6. NoneForgotten'
    BY <1>2 DEF TurnRefused, Release
  <2>7. QED
    BY <2>1, <2>2, <2>3, <2>4, <2>5, <2>6
<1>3. CASE TurnOver(c)
  <2>1. PoolTypes'
    BY <1>3 DEF TurnOver, Release
  <2>2. ClaimsAreOpen'
    BY <1>3 DEF TurnOver, Release
  <2>3. HoldsApart'
    BY <1>3 DEF TurnOver, Release
  <2>4. HeldWereCreated'
    BY <1>3 DEF TurnOver, Release
  <2>5. OneHolder'
    BY <1>3 DEF TurnOver, Release
  <2>6. NoneForgotten'
    BY <1>3 DEF TurnOver, Release
  <2>7. QED
    BY <2>1, <2>2, <2>3, <2>4, <2>5, <2>6
<1>4. QED
  BY <1>1, <1>2, <1>3 DEF Running

\* The refills and the deletes in the background.
LEMMA BackgroundStep ==
    ASSUME PoolAssumption, PoolInv, NEW c \in Clients, Background(c)
    PROVE  PoolInv'
<1> USE DEF PoolInv, PoolTypes, ClaimsAreOpen, HoldsApart, HeldWereCreated, OneHolder,
            NoneForgotten, InHand, States, PoolAssumption
<1>1. CASE RefillFails(c)
  BY <1>1 DEF RefillFails
<1>2. ASSUME NEW s \in Sandboxes, Refill(c, s) PROVE PoolInv'
  <2>1. PoolTypes'
    BY <1>2 DEF Refill, Born
  <2>2. ClaimsAreOpen'
    BY <1>2 DEF Refill, Born
  <2>3. HoldsApart'
    BY <1>2 DEF Refill, Born
  <2>4. HeldWereCreated'
    BY <1>2 DEF Refill, Born
  <2>5. OneHolder'
    BY <1>2 DEF Refill, Born
  <2>6. NoneForgotten'
    BY <1>2 DEF Refill, Born
  <2>7. QED
    BY <2>1, <2>2, <2>3, <2>4, <2>5, <2>6
<1>3. ASSUME NEW s \in Sandboxes, Record(c, s) PROVE PoolInv'
  BY <1>3 DEF Record
<1>4. ASSUME NEW s \in Sandboxes, RecordFails(c, s) PROVE PoolInv'
  BY <1>4 DEF RecordFails, Release
<1>5. ASSUME NEW s \in Sandboxes, RunDelete(c, s) PROVE PoolInv'
  <2>1. PoolTypes'
    BY <1>5, ZenonT(30) DEF RunDelete, Release
  <2>2. ClaimsAreOpen'
    BY <1>5 DEF RunDelete, Release
  <2>3. HoldsApart'
    BY <1>5 DEF RunDelete, Release
  <2>4. HeldWereCreated'
    BY <1>5 DEF RunDelete, Release
  <2>5. OneHolder'
    BY <1>5 DEF RunDelete, Release
  <2>6. NoneForgotten'
    BY <1>5 DEF RunDelete, Release
  <2>7. QED
    BY <2>1, <2>2, <2>3, <2>4, <2>5, <2>6
<1>6. QED
  BY <1>1, <1>2, <1>3, <1>4, <1>5 DEF Background

\* wait_until_warm, which takes entries off the roster to delete their
\* sandboxes.
LEMMA WaitingStep ==
    ASSUME PoolAssumption, PoolInv, NEW c \in Clients, Waiting(c)
    PROVE  PoolInv'
<1> USE DEF PoolInv, PoolTypes, ClaimsAreOpen, HoldsApart, HeldWereCreated, OneHolder,
            NoneForgotten, InHand, States, PoolAssumption
<1>1. CASE Look(c)
  BY <1>1 DEF Look
<1>2. CASE Answers(c)
  BY <1>2 DEF Answers, NextRow
<1>3. CASE DoesNotAnswer(c)
  BY <1>3 DEF DoesNotAnswer
<1>4. CASE DropRow(c)
  <2>1. PoolTypes'
    BY <1>4 DEF DropRow, NextRow
  <2>2. ClaimsAreOpen'
    BY <1>4 DEF DropRow, NextRow
  <2>3. HoldsApart'
    BY <1>4 DEF DropRow, NextRow
  <2>4. HeldWereCreated'
    BY <1>4 DEF DropRow, NextRow
  <2>5. OneHolder'
    BY <1>4 DEF DropRow, NextRow
  <2>6. NoneForgotten'
    BY <1>4 DEF DropRow, NextRow
  <2>7. QED
    BY <2>1, <2>2, <2>3, <2>4, <2>5, <2>6
<1>5. CASE EndLook(c)
  BY <1>5 DEF EndLook
<1>6. QED
  BY <1>1, <1>2, <1>3, <1>4, <1>5 DEF Waiting

\* Time passes, a sandbox disappears, a client is killed.
LEMMA FaultStep ==
    ASSUME PoolAssumption, PoolInv,
           \/ \E i \in DOMAIN created : Expire(i)
           \/ \E s \in Sandboxes : Vanish(s)
           \/ \E c \in Clients : Crash(c)
    PROVE  PoolInv'
<1> USE DEF PoolInv, PoolTypes, ClaimsAreOpen, HoldsApart, HeldWereCreated, OneHolder,
            NoneForgotten, InHand, States, PoolAssumption
<1>1. ASSUME NEW i \in DOMAIN created, Expire(i) PROVE PoolInv'
  BY <1>1 DEF Expire
<1>2. ASSUME NEW s \in Sandboxes, Vanish(s) PROVE PoolInv'
  BY <1>2 DEF Vanish
<1>3. ASSUME NEW c \in Clients, Crash(c) PROVE PoolInv'
  <2>1. PoolTypes'
    <3>1. pc' \in [Clients -> States]
      BY <1>3 DEF Crash
    <3>2. jobs' = [d \in Clients |-> jobs'[d]]
      <4>1. jobs' = [jobs EXCEPT ![c] = {}] /\ jobs = [d \in Clients |-> jobs[d]]
        BY <1>3 DEF Crash
      <4>2. QED
        BY ONLY <4>1
    <3>3. got' \in [Clients -> Sandboxes \cup {None}]
      BY <1>3 DEF Crash
    <3>4. pruned' \in [Clients -> SUBSET Sandboxes] /\ filling' \in [Clients -> SUBSET Sandboxes]
      BY <1>3 DEF Crash
    <3>5. QED
      BY <1>3, <3>1, <3>2, <3>3, <3>4 DEF Crash
  <2>2. ClaimsAreOpen'
    BY <1>3 DEF Crash
  <2>3. HoldsApart'
    BY <1>3 DEF Crash
  <2>4. HeldWereCreated'
    BY <1>3 DEF Crash
  <2>5. OneHolder'
    BY <1>3 DEF Crash
  <2>6. NoneForgotten'
    BY <1>3, ZenonT(30) DEF Crash
  <2>7. QED
    BY <2>1, <2>2, <2>3, <2>4, <2>5, <2>6
<1>4. QED
  BY <1>1, <1>2, <1>3

\* Every step keeps the invariant.
LEMMA PoolInvStep == PoolAssumption /\ PoolInv /\ [Next]_vars => PoolInv'
<1> SUFFICES ASSUME PoolAssumption, PoolInv, [Next]_vars PROVE PoolInv'
  OBVIOUS
<1>1. CASE UNCHANGED vars
  BY <1>1 DEF PoolInv, PoolTypes, ClaimsAreOpen, HoldsApart, HeldWereCreated, OneHolder,
              NoneForgotten, InHand
<1>2. CASE Next
  BY <1>2, ClaimingStep, RunningStep, BackgroundStep, WaitingStep, FaultStep DEF Next
<1>3. QED
  BY <1>1, <1>2

-----------------------------------------------------------------------------
(* The listings, and how often a client tries.                             *)

ListTypes ==
    /\ stale \subseteq Sandboxes /\ mislaid \subseteq Sandboxes
    /\ created \in Seq(Sandboxes)
    /\ rows \in [Clients -> SUBSET Sandboxes]
    /\ dated \in [Clients -> SUBSET Sandboxes]
    /\ jobs \in [Clients -> SUBSET Sandboxes]
    /\ tries \in [Clients -> 0..(Attempts - 1)]
    /\ consumed \in [Clients -> 0..Attempts]
    /\ owed \in [Clients -> Nat]

\* The order of creation has every sandbox that was created.
CreatedAreBorn == \A s \in Sandboxes : box[s] = "absent" <=> s \notin Occurs(created)

\* What a client read, however long ago, or will delete was created, and it
\* drops a row that it has read.
ListedAreBorn ==
    \A c \in Clients :
        /\ rows[c] \cup jobs[c] \subseteq Occurs(created)
        /\ pc[c] = "drop" => rows[c] # {}

\* A dispatch uses up one entry a try at most.
TriesAreCounted ==
    \A c \in Clients :
        /\ consumed[c] <= tries[c] + 1
        /\ pc[c] \notin {"hold", "dead"} => consumed[c] <= tries[c]

ListInv == ListTypes /\ CreatedAreBorn /\ ListedAreBorn /\ TriesAreCounted

\* Both: the inductive invariant of the pool.
RosterInv == PoolInv /\ ListInv

\* The next row of a listing is one of them.
LEMMA RowIsListed ==
    ASSUME ListInv, NEW c \in Clients, rows[c] # {}
    PROVE  Row(c) \in rows[c] /\ Row(c) \in Sandboxes /\ Row(c) \in Occurs(created)
<1> DEFINE S == {i \in DOMAIN created : created[i] \in rows[c]}
<1>1. created \in Seq(Sandboxes) /\ rows[c] \subseteq Occurs(created) /\ rows[c] \subseteq Sandboxes
  BY DEF ListInv, ListTypes, ListedAreBorn
<1>2. S \subseteq Nat /\ DOMAIN created = 1..Len(created) /\ Len(created) \in Nat
  BY <1>1
<1>3. S # {}
  BY <1>1 DEF Occurs
<1>4. PICK m \in S : \A j \in S : ~(<<j, m>> \in OpToRel(<, Nat))
  BY ONLY <1>2, <1>3, NatLessThanWellFounded, WFMin
<1>5. \A j \in S : ~(j < m)
  BY <1>2, <1>4 DEF OpToRel
<1>6. m \in DOMAIN created /\ created[m] \in rows[c] /\ \A j \in 1..(m - 1) : created[j] \notin rows[c]
  BY <1>2, <1>5
<1>7. QED
  BY <1>1, <1>6 DEF Row

\* A sandbox that is created comes last.
LEMMA BornLast ==
    ASSUME ListInv, NEW s \in Sandboxes, Born(s)
    PROVE  /\ created' \in Seq(Sandboxes)
           /\ Occurs(created') = Occurs(created) \cup {s}
<1>1. created \in Seq(Sandboxes) /\ created' = Append(created, s)
  BY DEF ListInv, ListTypes, Born
<1>2. Len(created') = Len(created) + 1 /\ DOMAIN created' = 1..(Len(created) + 1) /\ DOMAIN created = 1..Len(created)
      /\ Len(created) \in Nat
  BY <1>1
<1>3. \A i \in DOMAIN created' : created'[i] = IF i = Len(created) + 1 THEN s ELSE created[i]
  BY <1>1, <1>2
<1>4. QED
  BY <1>1, <1>2, <1>3 DEF Occurs

LEMMA ListInvInit == PoolAssumption /\ Init => ListInv
<1> SUFFICES ASSUME PoolAssumption, Init PROVE ListInv
  OBVIOUS
<1>1. Occurs(Initial) \subseteq Sandboxes
  BY DEF Occurs, PoolAssumption
<1>2. QED
  BY <1>1 DEF Init, PoolAssumption, ListInv, ListTypes, CreatedAreBorn, ListedAreBorn, TriesAreCounted

\* A client's walk over its listing.
LEMMA ClaimingLists ==
    ASSUME PoolAssumption, PoolInv, ListInv, NEW c \in Clients, Claiming(c)
    PROVE  ListInv'
<1> USE DEF ListInv, PoolAssumption, PoolInv, PoolTypes, States
<1>0. rows[c] # {} => Row(c) \in rows[c] /\ Row(c) \in Sandboxes /\ Row(c) \in Occurs(created)
  BY RowIsListed
<1>1. CASE List(c)
  <2>1. ListTypes'
    BY <1>1 DEF List, ListTypes, ClaimsAreOpen
  <2>2. CreatedAreBorn' /\ ListedAreBorn'
    BY <1>1 DEF List, ListTypes, CreatedAreBorn, ListedAreBorn, HeldWereCreated, InHand
  <2>3. TriesAreCounted'
    BY <1>1 DEF List, ListTypes, TriesAreCounted
  <2>4. QED
    BY <2>1, <2>2, <2>3
<1>2. CASE PruneRow(c)
  <2>1. ListTypes'
    BY <1>2, <1>0 DEF PruneRow, Walking, NextRow, ListTypes, ClaimsAreOpen
  <2>2. CreatedAreBorn' /\ ListedAreBorn'
    BY <1>2, <1>0 DEF PruneRow, Walking, NextRow, ListTypes, CreatedAreBorn, ListedAreBorn, HeldWereCreated, InHand
  <2>3. TriesAreCounted'
    BY <1>2 DEF PruneRow, Walking, NextRow, ListTypes, TriesAreCounted
  <2>4. QED
    BY <2>1, <2>2, <2>3
<1>3. CASE TakeRow(c)
  <2>1. ListTypes'
    BY <1>3, <1>0 DEF TakeRow, Walking, NextRow, ListTypes, ClaimsAreOpen
  <2>2. CreatedAreBorn' /\ ListedAreBorn'
    BY <1>3, <1>0 DEF TakeRow, Walking, NextRow, ListTypes, CreatedAreBorn, ListedAreBorn, HeldWereCreated, InHand
  <2>3. TriesAreCounted'
    BY <1>3 DEF TakeRow, Walking, NextRow, ListTypes, TriesAreCounted
  <2>4. QED
    BY <2>1, <2>2, <2>3
<1>4. CASE SkipRow(c)
  <2>1. ListTypes'
    BY <1>4, <1>0 DEF SkipRow, Walking, NextRow, ListTypes, ClaimsAreOpen
  <2>2. CreatedAreBorn' /\ ListedAreBorn'
    BY <1>4, <1>0 DEF SkipRow, Walking, NextRow, ListTypes, CreatedAreBorn, ListedAreBorn, HeldWereCreated, InHand
  <2>3. TriesAreCounted'
    BY <1>4 DEF SkipRow, Walking, NextRow, ListTypes, TriesAreCounted
  <2>4. QED
    BY <2>1, <2>2, <2>3
<1>5. CASE RowFails(c)
  <2>1. ListTypes'
    BY <1>5, <1>0 DEF RowFails, Walking, EndDispatch, ListTypes, ClaimsAreOpen
  <2>2. CreatedAreBorn' /\ ListedAreBorn'
    BY <1>5, <1>0 DEF RowFails, Walking, EndDispatch, ListTypes, CreatedAreBorn, ListedAreBorn, HeldWereCreated, InHand
  <2>3. TriesAreCounted'
    BY <1>5 DEF RowFails, Walking, EndDispatch, ListTypes, TriesAreCounted
  <2>4. QED
    BY <2>1, <2>2, <2>3
<1>6. CASE ClaimWarm(c)
  <2>1. ListTypes'
    <3>1. consumed[c] <= tries[c] /\ consumed[c] \in 0..Attempts /\ tries[c] \in 0..(Attempts - 1)
      BY <1>6 DEF ClaimWarm, ListTypes, TriesAreCounted
    <3>2. consumed[c] + 1 \in 0..Attempts
      BY <3>1
    <3>3. consumed' = [consumed EXCEPT ![c] = consumed[c] + 1] /\ UNCHANGED tries
      BY <1>6 DEF ClaimWarm
    <3>4. consumed' \in [Clients -> 0..Attempts]
      BY <3>2, <3>3 DEF ListTypes
    <3>5. /\ jobs' \in [Clients -> SUBSET Sandboxes]
          /\ dated' \in [Clients -> SUBSET Sandboxes]
      BY <1>6 DEF ClaimWarm, SchedulePruned, ListTypes
    <3>6. QED
      BY <1>6, <3>4, <3>5 DEF ClaimWarm, ListTypes
  <2>2. CreatedAreBorn' /\ ListedAreBorn'
    BY <1>6 DEF ClaimWarm, SchedulePruned, ListTypes, CreatedAreBorn, ListedAreBorn, HeldWereCreated, InHand
  <2>3. TriesAreCounted'
    BY <1>6 DEF ClaimWarm, SchedulePruned, ListTypes, TriesAreCounted
  <2>4. QED
    BY <2>1, <2>2, <2>3
<1>7. ASSUME NEW t \in Sandboxes, ClaimCold(c, t) PROVE ListInv'
  <2>1. ListTypes'
    BY <1>7, BornLast DEF ClaimCold, SchedulePruned, Born, ListTypes, ClaimsAreOpen
  <2>2. CreatedAreBorn' /\ ListedAreBorn'
    <3>1. Occurs(created') = Occurs(created) \cup {t} /\ box' = [box EXCEPT ![t] = "live"]
      BY <1>7, BornLast DEF ClaimCold, Born
    <3>2. CreatedAreBorn'
      BY <3>1 DEF CreatedAreBorn
    <3>3. \A d \in Clients : rows'[d] = rows[d] /\ jobs'[d] \subseteq jobs[d] \cup pruned[d]
      BY <1>7 DEF ClaimCold, SchedulePruned, ListTypes
    <3>4. \A d \in Clients : pruned[d] \subseteq Occurs(created)
      BY DEF CreatedAreBorn, HeldWereCreated, InHand
    <3>5. ListedAreBorn'
      <4>1. \A d \in Clients : pc'[d] = "drop" => pc[d] = "drop"
        BY <1>7 DEF ClaimCold
      <4>2. QED
        BY <3>1, <3>3, <3>4, <4>1 DEF ListedAreBorn
    <3>6. QED
      BY <3>2, <3>5
  <2>3. TriesAreCounted'
    BY <1>7 DEF ClaimCold, SchedulePruned, Born, ListTypes, TriesAreCounted
  <2>4. QED
    BY <2>1, <2>2, <2>3
<1>8. CASE ClaimFails(c)
  <2>1. ListTypes'
    BY <1>8 DEF ClaimFails, SchedulePruned, ListTypes, ClaimsAreOpen
  <2>2. CreatedAreBorn' /\ ListedAreBorn'
    BY <1>8 DEF ClaimFails, SchedulePruned, ListTypes, CreatedAreBorn, ListedAreBorn, HeldWereCreated, InHand
  <2>3. TriesAreCounted'
    BY <1>8 DEF ClaimFails, SchedulePruned, ListTypes, TriesAreCounted
  <2>4. QED
    BY <2>1, <2>2, <2>3
<1>9. QED
  BY <1>1, <1>2, <1>3, <1>4, <1>5, <1>6, <1>7, <1>8, Zenon DEF Claiming

\* The turn on the sandbox it claimed.
LEMMA RunningLists ==
    ASSUME PoolAssumption, PoolInv, ListInv, NEW c \in Clients, Running(c)
    PROVE  ListInv'
<1> USE DEF ListInv, PoolAssumption, PoolInv, PoolTypes, States
<1>0. rows[c] # {} => Row(c) \in rows[c] /\ Row(c) \in Sandboxes /\ Row(c) \in Occurs(created)
  BY RowIsListed
<1>1. CASE TurnStarts(c)
  <2>1. ListTypes'
    BY <1>1 DEF TurnStarts, EndDispatch, ListTypes, ClaimsAreOpen
  <2>2. CreatedAreBorn' /\ ListedAreBorn'
    BY <1>1 DEF TurnStarts, EndDispatch, ListTypes, CreatedAreBorn, ListedAreBorn, HeldWereCreated, InHand
  <2>3. TriesAreCounted'
    BY <1>1 DEF TurnStarts, EndDispatch, ListTypes, TriesAreCounted
  <2>4. QED
    BY <2>1, <2>2, <2>3
<1>2. CASE TurnRefused(c)
  <2>1. ListTypes'
    <3>1. mislaid' \subseteq Sandboxes
      BY <1>2 DEF TurnRefused, Release, ListTypes, ClaimsAreOpen
    <3>2. /\ UNCHANGED <<stale, created, rows, dated, jobs>>
          /\ tries' = [tries EXCEPT ![c] = tries'[c]] /\ tries'[c] \in 0..(Attempts - 1)
          /\ consumed' = [consumed EXCEPT ![c] = consumed'[c]] /\ consumed'[c] \in 0..Attempts
          /\ owed' = [owed EXCEPT ![c] = owed'[c]] /\ owed'[c] \in Nat
      <4>1. tries[c] \in 0..(Attempts - 1) /\ consumed[c] \in 0..Attempts /\ owed[c] \in Nat
        BY DEF ListTypes
      <4>2. CASE MayTryAgain(c) /\ tries' = [tries EXCEPT ![c] = @ + 1] /\ UNCHANGED <<consumed, owed>>
        BY <1>2, <4>1, <4>2 DEF TurnRefused, MayTryAgain, ListTypes
      <4>3. CASE EndDispatch(c)
        BY <1>2, <4>1, <4>3 DEF TurnRefused, EndDispatch, ListTypes
      <4>4. QED
        BY <1>2, <4>2, <4>3 DEF TurnRefused
    <3>3. QED
      BY <3>1, <3>2 DEF ListTypes
  <2>2. CreatedAreBorn' /\ ListedAreBorn'
    <3>1. UNCHANGED <<created, rows, jobs>> /\ \A d \in Clients : pc'[d] = "drop" => pc[d] = "drop"
      BY <1>2 DEF TurnRefused
    <3>2. \A s \in Sandboxes : box'[s] = "absent" <=> box[s] = "absent"
      BY <1>2 DEF TurnRefused, Release, HeldWereCreated, InHand, ClaimsAreOpen
    <3>3. QED
      BY <3>1, <3>2 DEF CreatedAreBorn, ListedAreBorn
  <2>3. TriesAreCounted'
    <3>1. tries[c] \in Nat /\ consumed[c] \in Nat /\ consumed[c] <= tries[c] + 1
      BY DEF ListTypes, TriesAreCounted
    <3>2. \A d \in Clients : d # c => tries'[d] = tries[d] /\ consumed'[d] = consumed[d] /\ pc'[d] = pc[d]
      BY <1>2 DEF TurnRefused, EndDispatch, ListTypes
    <3>3. consumed'[c] <= tries'[c]
      <4>1. CASE tries' = [tries EXCEPT ![c] = @ + 1] /\ UNCHANGED consumed
        BY <3>1, <4>1 DEF ListTypes
      <4>2. CASE EndDispatch(c)
        BY <4>2 DEF EndDispatch, ListTypes
      <4>3. QED
        BY <1>2, <4>1, <4>2 DEF TurnRefused
    <3>4. consumed'[c] \in Nat /\ tries'[c] \in Nat
      BY <2>1 DEF ListTypes
    <3>5. QED
      BY <3>2, <3>3, <3>4 DEF TriesAreCounted
  <2>4. QED
    BY <2>1, <2>2, <2>3
<1>3. CASE TurnOver(c)
  <2>1. ListTypes'
    BY <1>3 DEF TurnOver, Release, ListTypes, ClaimsAreOpen
  <2>2. CreatedAreBorn' /\ ListedAreBorn'
    BY <1>3 DEF TurnOver, Release, ListTypes, CreatedAreBorn, ListedAreBorn, HeldWereCreated, InHand
  <2>3. TriesAreCounted'
    BY <1>3 DEF TurnOver, Release, ListTypes, TriesAreCounted
  <2>4. QED
    BY <2>1, <2>2, <2>3
<1>4. QED
  BY <1>1, <1>2, <1>3, Zenon DEF Running

\* Its refills and its deletes.
LEMMA BackgroundLists ==
    ASSUME PoolAssumption, PoolInv, ListInv, NEW c \in Clients, Background(c)
    PROVE  ListInv'
<1> USE DEF ListInv, PoolAssumption, PoolInv, PoolTypes, States
<1>0. rows[c] # {} => Row(c) \in rows[c] /\ Row(c) \in Sandboxes /\ Row(c) \in Occurs(created)
  BY RowIsListed
<1>1. CASE RefillFails(c)
  <2>1. ListTypes'
    BY <1>1 DEF RefillFails, ListTypes, ClaimsAreOpen
  <2>2. CreatedAreBorn' /\ ListedAreBorn'
    BY <1>1 DEF RefillFails, ListTypes, CreatedAreBorn, ListedAreBorn, HeldWereCreated, InHand
  <2>3. TriesAreCounted'
    BY <1>1 DEF RefillFails, ListTypes, TriesAreCounted
  <2>4. QED
    BY <2>1, <2>2, <2>3
<1>2. ASSUME NEW t \in Sandboxes, Refill(c, t) PROVE ListInv'
  <2>1. ListTypes'
    <3>1. created' \in Seq(Sandboxes)
      BY <1>2, BornLast DEF Refill
    <3>2. owed[c] - 1 \in Nat /\ owed' = [owed EXCEPT ![c] = owed[c] - 1]
      BY <1>2 DEF Refill, ListTypes
    <3>3. owed' \in [Clients -> Nat]
      BY <3>2 DEF ListTypes
    <3>4. QED
      BY <1>2, <3>1, <3>3 DEF Refill, ListTypes
  <2>2. CreatedAreBorn' /\ ListedAreBorn'
    <3>1. Occurs(created') = Occurs(created) \cup {t} /\ box' = [box EXCEPT ![t] = "live"]
      BY <1>2, BornLast DEF Refill, Born
    <3>2. CreatedAreBorn'
      BY <3>1 DEF CreatedAreBorn
    <3>3. \A d \in Clients : rows'[d] = rows[d] /\ jobs'[d] \subseteq jobs[d] \cup pruned[d]
      BY <1>2 DEF Refill, SchedulePruned, ListTypes
    <3>4. \A d \in Clients : pruned[d] \subseteq Occurs(created)
      BY DEF CreatedAreBorn, HeldWereCreated, InHand
    <3>5. ListedAreBorn'
      <4>1. \A d \in Clients : pc'[d] = "drop" => pc[d] = "drop"
        BY <1>2 DEF Refill
      <4>2. QED
        BY <3>1, <3>3, <3>4, <4>1 DEF ListedAreBorn
    <3>6. QED
      BY <3>2, <3>5
  <2>3. TriesAreCounted'
    BY <1>2 DEF Refill, Born, ListTypes, TriesAreCounted
  <2>4. QED
    BY <2>1, <2>2, <2>3
<1>3. ASSUME NEW t \in Sandboxes, Record(c, t) PROVE ListInv'
  <2>1. ListTypes'
    BY <1>3 DEF Record, ListTypes, ClaimsAreOpen
  <2>2. CreatedAreBorn' /\ ListedAreBorn'
    BY <1>3 DEF Record, ListTypes, CreatedAreBorn, ListedAreBorn, HeldWereCreated, InHand
  <2>3. TriesAreCounted'
    BY <1>3 DEF Record, ListTypes, TriesAreCounted
  <2>4. QED
    BY <2>1, <2>2, <2>3
<1>4. ASSUME NEW t \in Sandboxes, RecordFails(c, t) PROVE ListInv'
  <2>1. ListTypes'
    BY <1>4 DEF RecordFails, Release, ListTypes, ClaimsAreOpen
  <2>2. CreatedAreBorn' /\ ListedAreBorn'
    BY <1>4 DEF RecordFails, Release, ListTypes, CreatedAreBorn, ListedAreBorn, HeldWereCreated, InHand
  <2>3. TriesAreCounted'
    BY <1>4 DEF RecordFails, Release, ListTypes, TriesAreCounted
  <2>4. QED
    BY <2>1, <2>2, <2>3
<1>5. ASSUME NEW t \in Sandboxes, RunDelete(c, t) PROVE ListInv'
  <2>1. ListTypes'
    BY <1>5 DEF RunDelete, Release, ListTypes, ClaimsAreOpen
  <2>2. CreatedAreBorn' /\ ListedAreBorn'
    BY <1>5 DEF RunDelete, Release, ListTypes, CreatedAreBorn, ListedAreBorn, HeldWereCreated, InHand
  <2>3. TriesAreCounted'
    BY <1>5 DEF RunDelete, Release, ListTypes, TriesAreCounted
  <2>4. QED
    BY <2>1, <2>2, <2>3
<1>6. QED
  BY <1>1, <1>2, <1>3, <1>4, <1>5, Zenon DEF Background

\* Its wait for a warm pool.
LEMMA WaitingLists ==
    ASSUME PoolAssumption, PoolInv, ListInv, NEW c \in Clients, Waiting(c)
    PROVE  ListInv'
<1> USE DEF ListInv, PoolAssumption, PoolInv, PoolTypes, States
<1>0. rows[c] # {} => Row(c) \in rows[c] /\ Row(c) \in Sandboxes /\ Row(c) \in Occurs(created)
  BY RowIsListed
<1>1. CASE Look(c)
  <2>1. ListTypes'
    BY <1>1 DEF Look, ListTypes, ClaimsAreOpen
  <2>2. CreatedAreBorn' /\ ListedAreBorn'
    BY <1>1 DEF Look, ListTypes, CreatedAreBorn, ListedAreBorn, HeldWereCreated, InHand
  <2>3. TriesAreCounted'
    BY <1>1 DEF Look, ListTypes, TriesAreCounted
  <2>4. QED
    BY <2>1, <2>2, <2>3
<1>2. CASE Answers(c)
  <2>1. ListTypes'
    BY <1>2, <1>0 DEF Answers, NextRow, ListTypes, ClaimsAreOpen
  <2>2. CreatedAreBorn' /\ ListedAreBorn'
    BY <1>2, <1>0 DEF Answers, NextRow, ListTypes, CreatedAreBorn, ListedAreBorn, HeldWereCreated, InHand
  <2>3. TriesAreCounted'
    BY <1>2 DEF Answers, NextRow, ListTypes, TriesAreCounted
  <2>4. QED
    BY <2>1, <2>2, <2>3
<1>3. CASE DoesNotAnswer(c)
  <2>1. ListTypes'
    BY <1>3, <1>0 DEF DoesNotAnswer, ListTypes, ClaimsAreOpen
  <2>2. CreatedAreBorn' /\ ListedAreBorn'
    BY <1>3, <1>0 DEF DoesNotAnswer, ListTypes, CreatedAreBorn, ListedAreBorn, HeldWereCreated, InHand
  <2>3. TriesAreCounted'
    BY <1>3 DEF DoesNotAnswer, ListTypes, TriesAreCounted
  <2>4. QED
    BY <2>1, <2>2, <2>3
<1>4. CASE DropRow(c)
  <2>1. ListTypes'
    <3>1. Row(c) \in Sandboxes
      BY <1>4, <1>0 DEF DropRow, ListedAreBorn
    <3>2. jobs' = [jobs EXCEPT ![c] = jobs[c] \cup {Row(c)}] /\ rows' = [rows EXCEPT ![c] = rows[c] \ {Row(c)}]
          /\ UNCHANGED <<stale, mislaid, created, dated, tries, consumed, owed>>
      BY <1>4 DEF DropRow, NextRow
    <3>3. QED
      BY <3>1, <3>2 DEF ListTypes
  <2>2. CreatedAreBorn' /\ ListedAreBorn'
    <3>1. Row(c) \in Occurs(created)
      BY <1>4, <1>0 DEF DropRow, ListedAreBorn
    <3>2. jobs' = [jobs EXCEPT ![c] = jobs[c] \cup {Row(c)}] /\ rows' = [rows EXCEPT ![c] = rows[c] \ {Row(c)}]
          /\ UNCHANGED <<box, created>> /\ pc' = [pc EXCEPT ![c] = "look"]
      BY <1>4 DEF DropRow, NextRow
    <3>3. QED
      BY <3>1, <3>2 DEF ListTypes, CreatedAreBorn, ListedAreBorn
  <2>3. TriesAreCounted'
    BY <1>4 DEF DropRow, NextRow, ListTypes, TriesAreCounted
  <2>4. QED
    BY <2>1, <2>2, <2>3
<1>5. CASE EndLook(c)
  <2>1. ListTypes'
    BY <1>5 DEF EndLook, ListTypes, ClaimsAreOpen
  <2>2. CreatedAreBorn' /\ ListedAreBorn'
    BY <1>5 DEF EndLook, ListTypes, CreatedAreBorn, ListedAreBorn, HeldWereCreated, InHand
  <2>3. TriesAreCounted'
    BY <1>5 DEF EndLook, ListTypes, TriesAreCounted
  <2>4. QED
    BY <2>1, <2>2, <2>3
<1>6. QED
  BY <1>1, <1>2, <1>3, <1>4, <1>5, Zenon DEF Waiting

\* Time passes, a sandbox disappears, a client is killed.
LEMMA FaultLists ==
    ASSUME PoolAssumption, PoolInv, ListInv,
           \/ \E i \in DOMAIN created : Expire(i)
           \/ \E s \in Sandboxes : Vanish(s)
           \/ \E c \in Clients : Crash(c)
    PROVE  ListInv'
<1> USE DEF ListInv, PoolAssumption, PoolInv, PoolTypes, States
<1>1. ASSUME NEW i \in DOMAIN created, Expire(i) PROVE ListInv'
  BY <1>1 DEF Expire, ListTypes, CreatedAreBorn, ListedAreBorn, TriesAreCounted
<1>2. ASSUME NEW s \in Sandboxes, Vanish(s) PROVE ListInv'
  BY <1>2 DEF Vanish, ListTypes, CreatedAreBorn, ListedAreBorn, TriesAreCounted
<1>3. ASSUME NEW c \in Clients, Crash(c) PROVE ListInv'
  <2>1. ListTypes'
    BY <1>3 DEF Crash, ListTypes
  <2>2. CreatedAreBorn' /\ ListedAreBorn'
    BY <1>3 DEF Crash, ListTypes, CreatedAreBorn, ListedAreBorn
  <2>3. TriesAreCounted'
    BY <1>3 DEF Crash, ListTypes, TriesAreCounted
  <2>4. QED
    BY <2>1, <2>2, <2>3
<1>4. QED
  BY <1>1, <1>2, <1>3

\* Every step keeps both.
LEMMA RosterInvStep == PoolAssumption /\ RosterInv /\ [Next]_vars => RosterInv'
<1> SUFFICES ASSUME PoolAssumption, PoolInv, ListInv, [Next]_vars PROVE ListInv'
  BY PoolInvStep DEF RosterInv
<1>1. CASE UNCHANGED vars
  BY <1>1 DEF ListInv, ListTypes, CreatedAreBorn, ListedAreBorn, TriesAreCounted
<1>2. CASE Next
  BY <1>2, ClaimingLists, RunningLists, BackgroundLists, WaitingLists, FaultLists DEF Next
<1>3. QED
  BY <1>1, <1>2

LEMMA RosterInvInit == PoolAssumption /\ Init => RosterInv
  BY PoolInvInit, ListInvInit DEF RosterInv

\* Together they type every variable.
LEMMA RosterTyped == RosterInv => TypeOK
  BY DEF RosterInv, PoolInv, PoolTypes, ListInv, ListTypes, TypeOK

-----------------------------------------------------------------------------
(* The theorems.                                                           *)

\* The invariant of the pool holds in every state of every behaviour.
LEMMA PoolInvariant ==
    ASSUME PoolAssumption
    PROVE  Spec => []PoolInv
<1>1. Init => PoolInv
  BY PoolInvInit
<1>2. PoolInv /\ [Next]_vars => PoolInv'
  BY PoolInvStep
<1>3. QED
  BY <1>1, <1>2, PTL DEF Spec

\* However the claims, prunings and refills of any number of clients meet in
\* the roster, a sandbox is idle or in the hands of one of them.
THEOREM OneHolderOnly ==
    ASSUME PoolAssumption
    PROVE  Spec => []OneHolder
<1>1. PoolInv => OneHolder
  BY DEF PoolInv
<1>2. QED
  BY <1>1, PoolInvariant, PTL

\* And a live one that is off the roster is in somebody's hands or about to
\* be deleted, unless a failing call or a crash made a client forget it.
THEOREM NoSandboxForgotten ==
    ASSUME PoolAssumption
    PROVE  Spec => []NoneForgotten
<1>1. PoolInv => NoneForgotten
  BY DEF PoolInv
<1>2. QED
  BY <1>1, PoolInvariant, PTL

-----------------------------------------------------------------------------
(* ReadyPool implements ServedOnce.                                        *)

\* The stage of a sandbox as client c sees it: what others hold is over.
Seen(c, s) ==
    IF s \in roster THEN "idle"
    ELSE IF got[c] = s THEN "claimed"
    ELSE IF s \in pruned[c] THEN "pruned"
    ELSE IF s \in filling[c] THEN "filling"
    ELSE IF box[s] = "absent" THEN "absent" ELSE "over"

\* A step of client c moves sandboxes as ServedOnce allows.
SeenMoves(c) ==
    \A s \in Sandboxes :
        Seen(c, s)' = Seen(c, s) \/ <<Seen(c, s), Seen(c, s)'>> \in Service!Moves

\* It leaves alone what the others hold.
OthersRest(c) ==
    \A d \in Clients \ {c} :
        got'[d] = got[d] /\ pruned'[d] = pruned[d] /\ filling'[d] = filling[d]

\* What the moves are, one by one.
LEMMA MovesAre ==
    \A x, y : <<x, y>> \in Service!Moves <=>
        \/ x = "absent" /\ y \in {"filling", "claimed"}
        \/ x = "filling" /\ y \in {"idle", "over"}
        \/ x = "idle" /\ y \in {"claimed", "pruned", "over"}
        \/ x \in {"claimed", "pruned"} /\ y = "over"
  BY SMT DEF Service!Moves

\* A client's walk over its listing.
LEMMA ClaimingMoves ==
    ASSUME PoolAssumption, RosterInv, NEW c \in Clients, Claiming(c)
    PROVE  SeenMoves(c) /\ OthersRest(c)
<1> USE MovesAre DEF RosterInv, PoolInv, PoolTypes, ClaimsAreOpen, HoldsApart, HeldWereCreated, InHand,
            PoolAssumption, SeenMoves, Seen, OthersRest
<1>1. CASE List(c)
  BY <1>1 DEF List
<1>2. CASE PruneRow(c)
  BY <1>2 DEF PruneRow, Walking, NextRow
<1>3. CASE TakeRow(c)
  BY <1>3 DEF TakeRow, Walking, NextRow
<1>4. CASE SkipRow(c)
  BY <1>4 DEF SkipRow, Walking, NextRow
<1>5. CASE RowFails(c)
  <2>1. PICK kept \in {roster, roster \ {Row(c)}} : roster' = kept
    BY <1>5 DEF RowFails
  <2>2. /\ got' = [got EXCEPT ![c] = None] /\ pruned' = [pruned EXCEPT ![c] = {}]
        /\ UNCHANGED <<box, filling>>
    BY <1>5 DEF RowFails
  <2>3. ASSUME NEW s \in Sandboxes
        PROVE  Seen(c, s)' = Seen(c, s) \/ <<Seen(c, s), Seen(c, s)'>> \in Service!Moves
    <3>1. s \notin pruned'[c] /\ got'[c] # s /\ filling'[c] = filling[c] /\ box'[s] = box[s]
      BY <2>2
    <3>2. CASE s \in roster
      <4>1. s \notin filling[c] /\ box[s] # "absent"
        BY <3>2 DEF OneHolder
      <4>2. Seen(c, s) = "idle" /\ Seen(c, s)' \in {"idle", "over"}
        BY <3>1, <3>2, <4>1
      <4>3. QED
        BY <4>2
    <3>3. CASE s \notin roster
      <4>1. s \notin roster'
        BY <2>1, <3>3
      <4>2. CASE got[c] = s \/ s \in pruned[c]
        <5>1. Seen(c, s) \in {"claimed", "pruned"} /\ Seen(c, s)' = "over"
          BY <3>1, <3>3, <4>1, <4>2
        <5>2. QED
          BY <5>1
      <4>3. CASE ~(got[c] = s \/ s \in pruned[c])
        BY <3>1, <3>3, <4>1, <4>3
      <4>4. QED
        BY <4>2, <4>3
    <3>4. QED
      BY <3>2, <3>3
  <2>4. OthersRest(c)
    BY <2>2
  <2>5. QED
    BY <2>3, <2>4
<1>6. CASE ClaimWarm(c)
  BY <1>6 DEF ClaimWarm, SchedulePruned
<1>7. ASSUME NEW t \in Sandboxes, ClaimCold(c, t) PROVE SeenMoves(c) /\ OthersRest(c)
  BY <1>7 DEF ClaimCold, SchedulePruned, Born
<1>8. CASE ClaimFails(c)
  BY <1>8 DEF ClaimFails, SchedulePruned
<1>9. QED
  BY <1>1, <1>2, <1>3, <1>4, <1>5, <1>6, <1>7, <1>8, Zenon DEF Claiming

\* The turn on the sandbox it claimed.
LEMMA RunningMoves ==
    ASSUME PoolAssumption, RosterInv, NEW c \in Clients, Running(c)
    PROVE  SeenMoves(c) /\ OthersRest(c)
<1> USE MovesAre DEF RosterInv, PoolInv, PoolTypes, ClaimsAreOpen, HoldsApart, HeldWereCreated, InHand,
            PoolAssumption, SeenMoves, Seen, OthersRest
<1>1. CASE TurnStarts(c)
  BY <1>1 DEF TurnStarts, EndDispatch
<1>2. CASE TurnRefused(c)
  BY <1>2 DEF TurnRefused, EndDispatch, Release
<1>3. CASE TurnOver(c)
  BY <1>3 DEF TurnOver, Release
<1>4. QED
  BY <1>1, <1>2, <1>3, Zenon DEF Running

\* Its refills and its deletes.
LEMMA BackgroundMoves ==
    ASSUME PoolAssumption, RosterInv, NEW c \in Clients, Background(c)
    PROVE  SeenMoves(c) /\ OthersRest(c)
<1> USE MovesAre DEF RosterInv, PoolInv, PoolTypes, ClaimsAreOpen, HoldsApart, HeldWereCreated, InHand,
            PoolAssumption, SeenMoves, Seen, OthersRest
<1>1. CASE RefillFails(c)
  BY <1>1 DEF RefillFails
<1>2. ASSUME NEW t \in Sandboxes, Refill(c, t) PROVE SeenMoves(c) /\ OthersRest(c)
  BY <1>2 DEF Refill, Born
<1>3. ASSUME NEW t \in Sandboxes, Record(c, t) PROVE SeenMoves(c) /\ OthersRest(c)
  BY <1>3 DEF Record
<1>4. ASSUME NEW t \in Sandboxes, RecordFails(c, t) PROVE SeenMoves(c) /\ OthersRest(c)
  <2>1. t \in filling[c] /\ roster' \in {roster, roster \cup {t}} /\ UNCHANGED <<got, pruned>>
    BY <1>4 DEF RecordFails
  <2>2. filling' = [filling EXCEPT ![c] = filling[c] \ {t}]
    BY <1>4 DEF RecordFails
  <2>3. box' = [box EXCEPT ![t] = "gone"] \/ box' = box
    BY <1>4 DEF RecordFails, Release
  <2>4. SeenMoves(c)
    BY <2>1, <2>2, <2>3
  <2>5. OthersRest(c)
    BY <2>1, <2>2
  <2>6. QED
    BY <2>4, <2>5
<1>5. ASSUME NEW t \in Sandboxes, RunDelete(c, t) PROVE SeenMoves(c) /\ OthersRest(c)
  <2>1. box[t] # "absent"
    BY <1>5 DEF RunDelete, RosterInv, ListInv, CreatedAreBorn, ListedAreBorn
  <2>2. UNCHANGED <<roster, got, pruned, filling>> /\ (box' = [box EXCEPT ![t] = "gone"] \/ box' = box)
    BY <1>5 DEF RunDelete, Release
  <2>3. QED
    BY <2>1, <2>2
<1>6. QED
  BY <1>1, <1>2, <1>3, <1>4, <1>5, Zenon DEF Background

\* Its wait for a warm pool, and its death.
LEMMA WaitingMoves ==
    ASSUME PoolAssumption, RosterInv, NEW c \in Clients, Waiting(c) \/ Crash(c)
    PROVE  SeenMoves(c) /\ OthersRest(c)
<1> USE MovesAre DEF RosterInv, PoolInv, PoolTypes, ClaimsAreOpen, HoldsApart, HeldWereCreated, InHand,
            PoolAssumption, SeenMoves, Seen, OthersRest
<1>1. CASE Look(c) \/ Answers(c) \/ DoesNotAnswer(c) \/ EndLook(c)
  <2>1. UNCHANGED <<roster, got, pruned, filling, box>>
    BY <1>1 DEF Look, Answers, DoesNotAnswer, EndLook
  <2>2. QED
    BY <2>1
<1>2. CASE DropRow(c)
  <2>1. UNCHANGED <<got, pruned, filling, box>> /\ roster' \subseteq roster
    BY <1>2 DEF DropRow
  <2>2. ASSUME NEW s \in Sandboxes
        PROVE  Seen(c, s)' = Seen(c, s) \/ <<Seen(c, s), Seen(c, s)'>> \in Service!Moves
    <3>1. CASE s \in roster
      <4>1. s \notin InHand(c) /\ box[s] # "absent"
        BY <3>1 DEF OneHolder
      <4>2. Seen(c, s) = "idle" /\ Seen(c, s)' \in {"idle", "over"}
        BY <2>1, <3>1, <4>1
      <4>3. QED
        BY <4>2
    <3>2. CASE s \notin roster
      BY <2>1, <3>2
    <3>3. QED
      BY <3>1, <3>2
  <2>3. QED
    BY <2>1, <2>2
<1>3. CASE Crash(c)
  BY <1>3 DEF Crash
<1>4. QED
  BY <1>1, <1>2, <1>3, Zenon DEF Waiting

\* A sandbox has the stage and the holder that the client sees who has it.
StagesAgree ==
    \A c \in Clients, s \in Sandboxes :
        /\ \A d \in Clients \ {c} : s \in InHand(d) =>
              /\ {e \in Clients : s \in InHand(e)} = {d}
              /\ Stage(s) = IF got[d] = s THEN "claimed"
                            ELSE IF s \in pruned[d] THEN "pruned" ELSE "filling"
        /\ (\A d \in Clients \ {c} : s \notin InHand(d)) =>
              /\ Stage(s) = Seen(c, s)
              /\ {e \in Clients : s \in InHand(e)} = IF Seen(c, s) \in Service!Held THEN {c} ELSE {}

LEMMA StagesAreSeen == PoolAssumption /\ PoolInv => StagesAgree
<1> SUFFICES ASSUME PoolAssumption, PoolInv, NEW c \in Clients, NEW s \in Sandboxes
             PROVE  /\ \A d \in Clients \ {c} : s \in InHand(d) =>
                          /\ {e \in Clients : s \in InHand(e)} = {d}
                          /\ Stage(s) = IF got[d] = s THEN "claimed"
                                        ELSE IF s \in pruned[d] THEN "pruned" ELSE "filling"
                    /\ (\A d \in Clients \ {c} : s \notin InHand(d)) =>
                          /\ Stage(s) = Seen(c, s)
                          /\ {e \in Clients : s \in InHand(e)} = IF Seen(c, s) \in Service!Held THEN {c} ELSE {}
  BY DEF StagesAgree
<1> USE DEF PoolAssumption, PoolInv, PoolTypes, OneHolder, HeldWereCreated, HoldsApart
<1>1. ASSUME NEW d \in Clients \ {c}, s \in InHand(d)
      PROVE  /\ {e \in Clients : s \in InHand(e)} = {d}
             /\ Stage(s) = IF got[d] = s THEN "claimed" ELSE IF s \in pruned[d] THEN "pruned" ELSE "filling"
  <2>1. \A e \in Clients : e # d => s \notin InHand(e)
    BY <1>1
  <2>2. s \notin roster
    BY <1>1
  <2>3. \A e \in Clients : e # d => got[e] # s /\ s \notin pruned[e] /\ s \notin filling[e]
    BY <2>1 DEF InHand
  <2>4. got[d] = s \/ s \in pruned[d] \/ s \in filling[d]
    BY <1>1 DEF InHand
  <2>5. {e \in Clients : s \in InHand(e)} = {d}
    BY <1>1, <2>1
  <2>6. Stage(s) = IF got[d] = s THEN "claimed" ELSE IF s \in pruned[d] THEN "pruned" ELSE "filling"
    BY <2>2, <2>3, <2>4 DEF Stage
  <2>7. QED
    BY <2>5, <2>6
<1>2. ASSUME \A d \in Clients \ {c} : s \notin InHand(d)
      PROVE  /\ Stage(s) = Seen(c, s)
             /\ {e \in Clients : s \in InHand(e)} = IF Seen(c, s) \in Service!Held THEN {c} ELSE {}
  <2>1. \A e \in Clients : e # c => got[e] # s /\ s \notin pruned[e] /\ s \notin filling[e]
    BY <1>2 DEF InHand
  <2>2. Stage(s) = Seen(c, s)
    BY <2>1 DEF Stage, Seen
  <2>3. s \in InHand(c) <=> Seen(c, s) \in Service!Held
    BY DEF Seen, InHand, Service!Held
  <2>4. QED
    BY <1>2, <2>2, <2>3
<1>3. QED
  BY <1>1, <1>2

\* A step of a client is a step of the promise.
LEMMA ClientServes ==
    ASSUME StagesAgree, StagesAgree', NEW c \in Clients, SeenMoves(c), OthersRest(c)
    PROVE  Service!Next
<1> DEFINE stages == [s \in Sandboxes |-> Stage(s)]
           hands  == [s \in Sandboxes |-> {d \in Clients : s \in InHand(d)}]
<1>1. \A s \in Sandboxes : Stage(s) \in Service!Stages /\ Stage(s)' \in Service!Stages
  BY DEF Stage, Service!Stages, Service!Held
<1>2. stages' \in [Sandboxes -> Service!Stages] /\ hands' \in [Sandboxes -> SUBSET Clients]
  BY <1>1
<1>3. ASSUME NEW s \in Sandboxes
      PROVE  \/ stages'[s] = stages[s] /\ hands'[s] = hands[s]
             \/ Service!Move(c, s)
  <2>1. CASE \E d \in Clients \ {c} : s \in InHand(d)
    <3>1. PICK d \in Clients \ {c} : s \in InHand(d)
      BY <2>1
    <3>2. s \in InHand(d)' /\ got'[d] = got[d] /\ pruned'[d] = pruned[d]
      BY <3>1 DEF OthersRest, InHand
    <3>3. Stage(s) = Stage(s)' /\ hands[s] = {d} /\ hands'[s] = {d}
      <4>1. /\ {e \in Clients : s \in InHand(e)} = {d}
            /\ Stage(s) = IF got[d] = s THEN "claimed" ELSE IF s \in pruned[d] THEN "pruned" ELSE "filling"
        BY <3>1 DEF StagesAgree
      <4>2. /\ {e \in Clients : s \in InHand(e)'} = {d}
            /\ Stage(s)' = IF got'[d] = s THEN "claimed" ELSE IF s \in pruned'[d] THEN "pruned" ELSE "filling"
        BY <3>2 DEF StagesAgree
      <4>3. QED
        BY <3>2, <4>1, <4>2
    <3>4. QED
      BY <3>3
  <2>2. CASE \A d \in Clients \ {c} : s \notin InHand(d)
    <3>1. \A d \in Clients \ {c} : s \notin InHand(d)'
      BY <2>2 DEF OthersRest, InHand
    <3>2. Stage(s) = Seen(c, s) /\ hands[s] = IF Seen(c, s) \in Service!Held THEN {c} ELSE {}
      BY <2>2 DEF StagesAgree
    <3>3. Stage(s)' = Seen(c, s)' /\ hands'[s] = IF Seen(c, s)' \in Service!Held THEN {c} ELSE {}
      BY <3>1 DEF StagesAgree
    <3>4. CASE Seen(c, s)' = Seen(c, s)
      BY <3>2, <3>3, <3>4
    <3>5. CASE <<Seen(c, s), Seen(c, s)'>> \in Service!Moves
      BY <3>2, <3>3, <3>5 DEF Service!Move
    <3>6. QED
      BY <3>4, <3>5 DEF SeenMoves
  <2>3. QED
    BY <2>1, <2>2
<1>4. Service!Step(c)
  BY <1>3 DEF Service!Step
<1>5. QED
  BY <1>2, <1>4 DEF Service!Next

\* What is no step of a client leaves the promise as it was.
LEMMA OthersStutter ==
    ASSUME PoolAssumption, RosterInv,
           \/ \E i \in DOMAIN created : Expire(i)
           \/ \E s \in Sandboxes : Vanish(s)
           \/ UNCHANGED vars
    PROVE  UNCHANGED <<[s \in Sandboxes |-> Stage(s)],
                       [s \in Sandboxes |-> {c \in Clients : s \in InHand(c)}]>>
<1>1. UNCHANGED <<roster, got, pruned, filling>>
  BY DEF Expire, Vanish
<1>2. \A s \in Sandboxes : box'[s] = "absent" <=> box[s] = "absent"
  BY DEF Expire, Vanish, RosterInv, PoolInv, PoolTypes
<1>3. \A s \in Sandboxes : Stage(s)' = Stage(s)
  BY <1>1, <1>2 DEF Stage
<1>4. QED
  BY <1>1, <1>3 DEF InHand

LEMMA ServesInit == PoolAssumption /\ Init => Service!Init
<1> SUFFICES ASSUME PoolAssumption, Init PROVE Service!Init
  OBVIOUS
<1>1. \A c \in Clients, s \in Sandboxes : s \notin InHand(c) /\ got[c] # s /\ s \notin pruned[c] /\ s \notin filling[c]
  BY DEF Init, InHand, PoolAssumption
<1>2. \A s \in Sandboxes : Stage(s) \in {"absent", "idle"}
  BY <1>1 DEF Stage, Init
<1>3. QED
  BY <1>1, <1>2 DEF Service!Init

\* Every step of the pool is a step of the promise, or leaves it as it was.
LEMMA ServesStep ==
    PoolAssumption /\ RosterInv /\ RosterInv' /\ StagesAgree /\ StagesAgree' /\ [Next]_vars
        => [Service!Next]_<<[s \in Sandboxes |-> Stage(s)],
                            [s \in Sandboxes |-> {c \in Clients : s \in InHand(c)}]>>
<1> SUFFICES ASSUME PoolAssumption, RosterInv, StagesAgree, StagesAgree', [Next]_vars
             PROVE  \/ Service!Next
                    \/ UNCHANGED <<[s \in Sandboxes |-> Stage(s)],
                                   [s \in Sandboxes |-> {c \in Clients : s \in InHand(c)}]>>
  OBVIOUS
<1>1. ASSUME NEW c \in Clients, Claiming(c) \/ Running(c) \/ Background(c) \/ Waiting(c) \/ Crash(c)
      PROVE  Service!Next
  <2>1. SeenMoves(c) /\ OthersRest(c)
    BY <1>1, ClaimingMoves, RunningMoves, BackgroundMoves, WaitingMoves, Zenon
  <2>2. QED
    BY <2>1, ClientServes
<1>2. QED
  BY <1>1, OthersStutter, Zenon DEF Next

\* A sandbox serves one claim: ReadyPool implements ServedOnce, for any number
\* of clients and sandboxes, whatever the listings show when they are used
\* (PoolRoster.claim, prune_expired, remove, add).
THEOREM ServesOneClaim ==
    ASSUME PoolAssumption
    PROVE  Spec => ServedOnceSpec
<1>1. Init => Service!Init
  BY ServesInit
<1>2. RosterInv => StagesAgree
  BY StagesAreSeen DEF RosterInv
<1>3. Init => RosterInv
  BY RosterInvInit
<1>4. RosterInv /\ [Next]_vars => RosterInv'
  BY RosterInvStep
<1>5. RosterInv /\ RosterInv' /\ StagesAgree /\ StagesAgree' /\ [Next]_vars
        => [Service!Next]_<<[s \in Sandboxes |-> Stage(s)],
                            [s \in Sandboxes |-> {c \in Clients : s \in InHand(c)}]>>
  BY ServesStep
<1>6. QED
  BY <1>1, <1>2, <1>3, <1>4, <1>5, PTL DEF Spec, ServedOnceSpec, Service!Spec

=============================================================================
