--------------------------- MODULE RunTokensProofs ---------------------------
(***************************************************************************)
(* Proofs about RunTokens, for every lifetime, cadence and number of       *)
(* failures that leave the tokens some slack. The refresher keeps what is  *)
(* in the record, and what is served, ahead of its next round; the worker  *)
(* and the CLI keep what they hold ahead of the clock.                     *)
(***************************************************************************)
EXTENDS RunTokens, TLAPS

-----------------------------------------------------------------------------
(* The slack.                                                              *)

\* What a detach() may add to the time between two rounds.
Absence == IF MayDetach THEN Cadence + AdoptWithin ELSE 0

\* How long a token that is read from the record, or fetched, is good for.
StorageSlack == Lifetime - Cadence - Cadence * StorageFaults - Absence
ModelSlack   == Lifetime - Cadence - Retry * ModelFaults - Absence

\* From a failed read to the next one.
Late == IF RetrySoon - Early > 1 THEN RetrySoon - Early ELSE 1

\* What is left of a token when it is read again.
Reserve == LowerOf(Early, StorageSlack - 1)

\* The refresh comes soon enough, the worker is at work when it comes, and the
\* reserves outlast the failures.
Timely ==
    /\ RunTokensAssumption /\ Sampling
    /\ Retry <= Cadence /\ MaxDispatch < Cadence
    /\ Late * ReadFaults < Reserve
    /\ 1 < CliEarly /\ 0 < ModelSlack

-----------------------------------------------------------------------------
(* The invariant.                                                          *)

Instants ==
    /\ {now, since, due, minted, record, held, shown, asked, served, cli} \subseteq Int
    /\ turn \in {"dispatching", "accepted", "running"}
    /\ follower \in {"owner", "nobody", "adopter"} /\ step \in {"storage", "model"}
    /\ faults \in [storage : 0..StorageFaults, model : 0..ModelFaults, read : 0..ReadFaults]

\* Nobody refreshes before the turn runs; afterwards whoever follows it is
\* never late, and it is not left alone for long.
Followed ==
    /\ minted = Lifetime
    /\ turn # "running" => record = Lifetime /\ due = Cadence /\ follower = "owner" /\ step = "storage" /\ now <= MaxDispatch
    /\ follower # "nobody" => now <= due
    /\ follower = "nobody" => since <= now /\ now <= since + AdoptWithin
    /\ follower # "owner" => MayDetach

\* The latest time of the next round, and what an absence has cost.
NextRoundBy == IF follower = "nobody" THEN since + AdoptWithin + Cadence ELSE due
Missed == IF follower = "owner" THEN 0 ELSE Cadence + AdoptWithin

\* The record outlasts the next round, by less for each failure so far.
RecordLasts ==
    record >= NextRoundBy + Lifetime - (IF step = "storage" THEN Cadence ELSE 0) - Cadence * faults.storage - Missed

\* So does the token that is served.
ServedLasts == turn = "running" => served >= NextRoundBy + Lifetime - Cadence - Retry * faults.model - Missed

\* The worker asks before its token is used up, and again soon after a
\* failure; what it got was good for a while.
HeldLasts ==
    turn # "dispatching" =>
        /\ asked <= now /\ (now <= shown - Early \/ now <= asked + 1)
        /\ \/ shown <= held /\ held >= asked + StorageSlack
           \/ shown <= asked + RetrySoon /\ faults.read > 0 /\ held >= asked + Reserve - Late * (faults.read - 1)

\* The CLI asks before its token is used up.
CliLasts == turn = "running" => cli >= now + LowerOf(CliEarly - 1, ModelSlack)

TokenInv == Instants /\ Followed /\ RecordLasts /\ ServedLasts /\ HeldLasts /\ CliLasts

-----------------------------------------------------------------------------
(* Arithmetic.                                                             *)

LEMMA ProductGrows == \A a, b, c \in Nat : a <= b => c * a <= c * b
OBVIOUS

LEMMA NextProduct == \A c \in Int, a \in Int : c * (a + 1) = c * a + c /\ c * a \in Int
OBVIOUS

\* The slack is an integer, and the failures so far take no more than all.
LEMMA Slack ==
    ASSUME Timely, Instants
    PROVE  /\ {Lifetime, Cadence, Retry, Horizon, RetrySoon, Early, CliEarly, MaxDispatch, AdoptWithin} \subseteq Nat
           /\ {StorageSlack, ModelSlack, Reserve, Late} \subseteq Int /\ Late > 0
           /\ Cadence * faults.storage \in Nat /\ Retry * faults.model \in Nat
           /\ Cadence * faults.storage <= Cadence * StorageFaults
           /\ Retry * faults.model <= Retry * ModelFaults
           /\ faults.read > 0 => Late * (faults.read - 1) + Late <= Late * ReadFaults /\ Late * (faults.read - 1) \in Nat
           /\ 0 < Reserve /\ Reserve <= Early /\ Reserve <= StorageSlack - 1
<1>1. /\ {Lifetime, Cadence, Retry, Horizon, RetrySoon, Early, CliEarly, MaxDispatch, AdoptWithin} \subseteq Nat
      /\ StorageFaults \in Nat /\ ModelFaults \in Nat /\ ReadFaults \in Nat
  BY DEF Timely, RunTokensAssumption
<1>2. faults.storage \in 0..StorageFaults /\ faults.model \in 0..ModelFaults /\ faults.read \in 0..ReadFaults
  BY DEF Instants
<1>3. Late \in Nat /\ Late > 0
  BY <1>1 DEF Late
<1>4. /\ Cadence * faults.storage \in Nat /\ Retry * faults.model \in Nat
      /\ Cadence * StorageFaults \in Nat /\ Retry * ModelFaults \in Nat /\ Late * ReadFaults \in Nat
  BY <1>1, <1>2, <1>3
<1>5. Cadence * faults.storage <= Cadence * StorageFaults /\ Retry * faults.model <= Retry * ModelFaults
  BY <1>1, <1>2, ProductGrows
<1>6. faults.read > 0 => Late * (faults.read - 1) + Late <= Late * ReadFaults /\ Late * (faults.read - 1) \in Nat
  <2> SUFFICES ASSUME faults.read > 0
               PROVE  Late * (faults.read - 1) + Late <= Late * ReadFaults /\ Late * (faults.read - 1) \in Nat
    OBVIOUS
  <2> DEFINE r == faults.read - 1
  <2>1. r \in Nat /\ r + 1 <= ReadFaults /\ r + 1 \in Nat
    BY <1>1, <1>2
  <2> HIDE DEF r
  <2>2. Late * (r + 1) = Late * r + Late /\ Late * r \in Nat
    BY <1>3, <2>1, NextProduct
  <2>3. Late * (r + 1) <= Late * ReadFaults
    BY <1>1, <1>3, <2>1, ProductGrows
  <2>4. Late * r + Late <= Late * ReadFaults /\ Late * r \in Nat
    BY <2>2, <2>3
  <2>5. QED
    BY <2>4 DEF r
<1>7. Absence \in Nat
  BY <1>1 DEF Absence
<1>8. StorageSlack \in Int /\ ModelSlack \in Int
  BY <1>1, <1>4, <1>7 DEF StorageSlack, ModelSlack
<1>9. Reserve \in Int /\ Reserve <= Early /\ Reserve <= StorageSlack - 1
  BY <1>1, <1>8 DEF Reserve, LowerOf
<1>10. 0 < Reserve
  BY <1>4, <1>9 DEF Timely
<1>11. QED
  BY <1>1, <1>3, <1>4, <1>5, <1>6, <1>8, <1>9, <1>10

\* What is in the record, and what is served, is good for a while.
LEMMA Ahead ==
    ASSUME Timely, Instants, Followed
    PROVE  /\ now <= NextRoundBy /\ NextRoundBy \in Int
           /\ RecordLasts => record >= NextRoundBy + StorageSlack
           /\ ServedLasts /\ turn = "running" => served >= NextRoundBy + ModelSlack
<1>1. now <= NextRoundBy /\ NextRoundBy \in Int /\ Missed \in Int /\ Missed <= Absence /\ Absence \in Int
  BY Slack DEF Followed, NextRoundBy, Missed, Absence, Instants
<1> DEFINE p == Cadence * faults.storage
           q == Cadence * StorageFaults
           m == Retry * faults.model
           n == Retry * ModelFaults
<1>2. p \in Int /\ q \in Int /\ m \in Int /\ n \in Int /\ p <= q /\ m <= n
  BY Slack DEF Timely, RunTokensAssumption
<1>3. Lifetime \in Int /\ Cadence \in Int /\ Cadence >= 0 /\ now \in Int /\ record \in Int /\ served \in Int
  BY Slack DEF Instants
<1>4. StorageSlack = Lifetime - Cadence - q - Absence /\ ModelSlack = Lifetime - Cadence - n - Absence
  BY DEF StorageSlack, ModelSlack
<1>5. RecordLasts => record >= NextRoundBy + Lifetime - Cadence - p - Missed
  <2>1. RecordLasts => record >= NextRoundBy + Lifetime - (IF step = "storage" THEN Cadence ELSE 0) - p - Missed
    BY DEF RecordLasts
  <2> HIDE DEF p
  <2>2. QED
    BY <1>1, <1>2, <1>3, <2>1
<1>6. ServedLasts /\ turn = "running" => served >= NextRoundBy + Lifetime - Cadence - m - Missed
  BY DEF ServedLasts
<1> HIDE DEF p, q, m, n
<1>7. QED
  BY <1>1, <1>2, <1>3, <1>4, <1>5, <1>6

-----------------------------------------------------------------------------
(* Every step keeps the invariant.                                         *)

LEMMA FaultsCounted ==
    ASSUME Timely, Instants
    PROVE  /\ Fails("storage", StorageFaults) => faults' \in [storage : 0..StorageFaults, model : 0..ModelFaults, read : 0..ReadFaults]
           /\ Fails("model", ModelFaults) => faults' \in [storage : 0..StorageFaults, model : 0..ModelFaults, read : 0..ReadFaults]
           /\ Fails("read", ReadFaults) => faults' \in [storage : 0..StorageFaults, model : 0..ModelFaults, read : 0..ReadFaults]
<1>1. StorageFaults \in Nat /\ ModelFaults \in Nat /\ ReadFaults \in Nat
  BY DEF Timely, RunTokensAssumption
<1>2. faults \in [storage : 0..StorageFaults, model : 0..ModelFaults, read : 0..ReadFaults]
  BY DEF Instants
<1>3. \A k \in {"storage", "model", "read"}, l \in Nat : faults[k] \in 0..l /\ faults[k] < l => faults[k] + 1 \in 0..l
  OBVIOUS
<1>4. Fails("storage", StorageFaults) => faults.storage + 1 \in 0..StorageFaults /\ faults' = [faults EXCEPT !["storage"] = faults.storage + 1]
  BY <1>1, <1>2 DEF Fails
<1>5. Fails("model", ModelFaults) => faults.model + 1 \in 0..ModelFaults /\ faults' = [faults EXCEPT !["model"] = faults.model + 1]
  BY <1>1, <1>2 DEF Fails
<1>6. Fails("read", ReadFaults) => faults.read + 1 \in 0..ReadFaults /\ faults' = [faults EXCEPT !["read"] = faults.read + 1]
  BY <1>1, <1>2 DEF Fails
<1>7. QED
  BY <1>2, <1>4, <1>5, <1>6

LEMMA InstantsStep == Timely /\ Instants /\ [Next]_vars => Instants'
<1> SUFFICES ASSUME Timely, Instants, [Next]_vars PROVE Instants'
  OBVIOUS
<1>1. {Lifetime, Cadence, Retry, Horizon, RetrySoon} \subseteq Int
  BY Slack
<1>2. \A when \in Int : WithinHorizon(when) \in Int
  BY <1>1 DEF WithinHorizon, LowerOf, Instants
<1>3. CASE AcceptTurn \/ ServeToken \/ CliFetches
  BY <1>2, <1>3 DEF AcceptTurn, ServeToken, CliFetches, Instants
<1>4. CASE RefreshHandler
  <2>1. {held', shown', asked'} \subseteq Int
    BY <1>1, <1>2, <1>4 DEF RefreshHandler, Instants
  <2>2. faults' \in [storage : 0..StorageFaults, model : 0..ModelFaults, read : 0..ReadFaults]
    BY <1>4, FaultsCounted DEF RefreshHandler, Instants
  <2>3. QED
    BY <1>4, <2>1, <2>2 DEF RefreshHandler, Instants
<1>5. CASE RefreshStorage
  <2>1. record' \in Int
    BY <1>1, <1>5 DEF RefreshStorage, Instants
  <2>2. faults' \in [storage : 0..StorageFaults, model : 0..ModelFaults, read : 0..ReadFaults]
    BY <1>5, FaultsCounted DEF RefreshStorage, Instants
  <2>3. QED
    BY <1>5, <2>1, <2>2 DEF RefreshStorage, Instants
<1>6. CASE RefreshModelToken
  <2>1. served' \in Int /\ due' \in Int
    BY <1>1, <1>6 DEF RefreshModelToken, NextRound, Instants
  <2>2. faults' \in [storage : 0..StorageFaults, model : 0..ModelFaults, read : 0..ReadFaults]
    BY <1>6, FaultsCounted DEF RefreshModelToken, Instants
  <2>3. QED
    BY <1>6, <2>1, <2>2 DEF RefreshModelToken, Instants
<1>7. CASE Detach \/ Attach \/ Tick
  BY <1>1, <1>7 DEF Detach, Attach, Tick, StartRefresh, Instants
<1>8. CASE UNCHANGED vars
  BY <1>8 DEF vars, Instants
<1>9. QED
  BY <1>3, <1>4, <1>5, <1>6, <1>7, <1>8 DEF Next

LEMMA FollowedStep == Timely /\ Instants /\ Followed /\ [Next]_vars => Followed'
<1> SUFFICES ASSUME Timely, Instants, Followed, [Next]_vars PROVE Followed'
  OBVIOUS
<1> USE DEF Instants, Followed
<1>1. {Lifetime, Cadence, Retry, MaxDispatch, AdoptWithin} \subseteq Nat /\ MaxDispatch < Cadence
  BY Slack DEF Timely
<1>2. CASE AcceptTurn \/ ServeToken \/ CliFetches
  BY <1>2 DEF AcceptTurn, ServeToken, CliFetches
<1>3. CASE RefreshHandler
  BY <1>3 DEF RefreshHandler
<1>4. CASE RefreshStorage
  BY <1>1, <1>4 DEF RefreshStorage, Wakes
<1>5. CASE RefreshModelToken
  BY <1>1, <1>5 DEF RefreshModelToken, Wakes, NextRound
<1>6. CASE Detach \/ Attach
  BY <1>1, <1>6 DEF Detach, Attach, StartRefresh
<1>7. CASE Tick
  BY <1>1, <1>7 DEF Tick, Wakes
<1>8. CASE UNCHANGED vars
  BY <1>8 DEF vars
<1>9. QED
  BY <1>2, <1>3, <1>4, <1>5, <1>6, <1>7, <1>8 DEF Next

\* A round that fails costs the record one cadence.
LEMMA RecordStep == Timely /\ Instants /\ Followed /\ RecordLasts /\ [Next]_vars => RecordLasts'
<1> SUFFICES ASSUME Timely, Instants, Followed, RecordLasts, [Next]_vars PROVE RecordLasts'
  OBVIOUS
<1> DEFINE p == Cadence * faults.storage
<1>1. /\ {Lifetime, Cadence, Retry, AdoptWithin} \subseteq Nat /\ Retry <= Cadence /\ p \in Nat
      /\ Cadence * (faults.storage + 1) = p + Cadence
  <2>1. Cadence \in Int /\ faults.storage \in Int
    BY Slack DEF Instants
  <2>2. QED
    BY <2>1, Slack, NextProduct DEF Timely
<1>2. record >= NextRoundBy + Lifetime - (IF step = "storage" THEN Cadence ELSE 0) - p - Missed
  BY DEF RecordLasts
<1>3. faults'.storage = faults.storage => p' = p
  OBVIOUS
<1>4. faults'.storage = faults.storage + 1 => p' = p + Cadence
  BY <1>1
<1>5. RecordLasts' <=> record' >= NextRoundBy' + Lifetime - (IF step' = "storage" THEN Cadence ELSE 0) - p' - Missed'
  BY DEF RecordLasts
<1> HIDE DEF p
<1> USE DEF Instants, Followed, NextRoundBy, Missed
<1>6. CASE UNCHANGED <<record, due, follower, since, step, faults>>
  BY <1>2, <1>3, <1>5, <1>6
<1>7. CASE RefreshHandler
  BY <1>2, <1>3, <1>5, <1>7 DEF RefreshHandler, Fails
<1>8. CASE RefreshStorage
  BY <1>1, <1>2, <1>3, <1>4, <1>5, <1>8 DEF RefreshStorage, Wakes, Fails
<1>9. CASE RefreshModelToken
  BY <1>1, <1>2, <1>3, <1>5, <1>9 DEF RefreshModelToken, Wakes, Fails, NextRound
<1>10. CASE Detach \/ Attach
  BY <1>1, <1>2, <1>3, <1>5, <1>10 DEF Detach, Attach, StartRefresh
<1>11. QED
  BY <1>6, <1>7, <1>8, <1>9, <1>10 DEF Next, AcceptTurn, ServeToken, CliFetches, Tick, vars

\* A push that fails costs the served token one retry.
LEMMA ServedStep == Timely /\ Instants /\ Followed /\ ServedLasts /\ [Next]_vars => ServedLasts'
<1> SUFFICES ASSUME Timely, Instants, Followed, ServedLasts, [Next]_vars PROVE ServedLasts'
  OBVIOUS
<1> DEFINE p == Retry * faults.model
<1>1. /\ {Lifetime, Cadence, Retry, AdoptWithin} \subseteq Nat /\ Retry <= Cadence /\ p \in Nat
      /\ Retry * (faults.model + 1) = p + Retry
  <2>1. Retry \in Int /\ faults.model \in Int
    BY Slack DEF Instants
  <2>2. QED
    BY <2>1, Slack, NextProduct DEF Timely
<1>2. turn = "running" => served >= NextRoundBy + Lifetime - Cadence - p - Missed
  BY DEF ServedLasts
<1>3. faults'.model = faults.model => p' = p
  OBVIOUS
<1>4. faults'.model = faults.model + 1 => p' = p + Retry
  BY <1>1
<1>5. ServedLasts' <=> (turn' = "running" => served' >= NextRoundBy' + Lifetime - Cadence - p' - Missed')
  BY DEF ServedLasts
<1> HIDE DEF p
<1> USE DEF Instants, Followed, NextRoundBy, Missed
<1>6. CASE UNCHANGED <<turn, served, due, follower, since, faults>>
  BY <1>2, <1>3, <1>5, <1>6
<1>7. CASE RefreshHandler
  BY <1>2, <1>3, <1>5, <1>7 DEF RefreshHandler, Fails
<1>8. CASE RefreshStorage
  BY <1>2, <1>3, <1>5, <1>8 DEF RefreshStorage, Fails
<1>9. CASE RefreshModelToken
  BY <1>1, <1>2, <1>3, <1>4, <1>5, <1>9 DEF RefreshModelToken, Wakes, Fails, NextRound
<1>10. CASE Detach \/ Attach
  BY <1>1, <1>2, <1>3, <1>5, <1>10 DEF Detach, Attach, StartRefresh
<1>11. CASE AcceptTurn
  BY <1>5, <1>11 DEF AcceptTurn
<1>12. CASE ServeToken
  BY <1>1, <1>3, <1>5, <1>12 DEF ServeToken
<1>13. QED
  BY <1>6, <1>7, <1>8, <1>9, <1>10, <1>11, <1>12 DEF Next, CliFetches, Tick, vars

\* A token that is held works when it is used to read the next one.
LEMMA HeldWorks == Timely /\ Instants /\ HeldLasts /\ turn # "dispatching" => held > now
<1> SUFFICES ASSUME Timely, Instants, HeldLasts, turn # "dispatching" PROVE held > now
  OBVIOUS
<1>1. /\ {Early, RetrySoon, StorageSlack, Reserve, Late} \subseteq Int /\ {now, shown, held, asked} \subseteq Int
      /\ 0 < Reserve /\ Reserve <= Early /\ Reserve <= StorageSlack - 1
  BY Slack DEF Instants
<1>2. asked <= now /\ (now <= shown - Early \/ now <= asked + 1)
  BY DEF HeldLasts
<1>3. CASE shown <= held /\ held >= asked + StorageSlack
  BY <1>1, <1>2, <1>3
<1>4. CASE shown <= asked + RetrySoon /\ faults.read > 0 /\ held >= asked + Reserve - Late * (faults.read - 1)
  <2>1. Late >= 1 /\ Late >= RetrySoon - Early
    BY <1>1, Slack DEF Late
  <2>2. now <= asked + Late
    BY <1>1, <1>2, <1>4, <2>1
  <2> DEFINE m == Late * (faults.read - 1)
             n == Late * ReadFaults
  <2>3. m + Late <= n /\ m \in Int /\ n \in Int /\ n < Reserve
    <3>1. m + Late <= n /\ m \in Int /\ Late \in Int /\ ReadFaults \in Int
      BY <1>4, Slack DEF Timely, RunTokensAssumption
    <3>2. QED
      BY <3>1, NextProduct DEF Timely
  <2>4. held >= asked + Reserve - m
    BY <1>4
  <2> HIDE DEF m, n
  <2>5. QED
    BY <1>1, <2>2, <2>3, <2>4
<1>5. QED
  BY <1>3, <1>4 DEF HeldLasts
\* A read that succeeds brings a token that is good for a while; one that
\* fails leaves the token held a reserve.
LEMMA HeldStep ==
    Timely /\ Instants /\ Followed /\ RecordLasts /\ HeldLasts /\ [Next]_vars => HeldLasts'
<1> SUFFICES ASSUME Timely, Instants, Followed, RecordLasts, HeldLasts, [Next]_vars PROVE HeldLasts'
  OBVIOUS
<1>1. /\ {Lifetime, Cadence, Horizon, Early, RetrySoon, StorageSlack, Reserve, Late} \subseteq Int
      /\ {now, shown, held, asked, record, minted} \subseteq Int
      /\ 0 < Reserve /\ Reserve <= Early /\ Reserve <= StorageSlack - 1
  BY Slack DEF Instants
<1>2. record >= now + StorageSlack
  BY <1>1, Ahead
<1>3. \A when \in Int : WithinHorizon(when) <= when /\ WithinHorizon(when) \in Int
  BY <1>1 DEF WithinHorizon, LowerOf
<1>4. CASE UNCHANGED <<now, turn, held, shown, asked>> /\ faults'.read = faults.read
  BY <1>4 DEF HeldLasts
<1>5. CASE AcceptTurn
  <2>1. minted = record
    BY <1>5 DEF AcceptTurn, Followed
  <2>2. shown' <= held' /\ held' >= asked' + StorageSlack /\ asked' = now /\ now' = now
    BY <1>1, <1>2, <1>3, <1>5, <2>1 DEF AcceptTurn
  <2>3. QED
    BY <1>1, <2>2 DEF HeldLasts
<1>6. CASE RefreshHandler
  <2>1. /\ turn # "dispatching" /\ asked < now /\ now >= shown - Early
        /\ asked' = now /\ now' = now /\ turn' = turn
    BY <1>6 DEF RefreshHandler, Stale
  <2>2. asked <= now /\ (now <= shown - Early \/ now <= asked + 1)
    BY <2>1 DEF HeldLasts
  <2>3. asked' <= now' /\ now' <= asked' + 1
    BY <1>1, <2>1
  <2>4. CASE held > now /\ held' = record /\ shown' = WithinHorizon(record)
    <3>1. shown' <= held' /\ held' >= asked' + StorageSlack
      BY <1>1, <1>2, <1>3, <2>1, <2>4
    <3>2. QED
      BY <2>3, <3>1 DEF HeldLasts
  <2>5. CASE held <= now
    BY <1>1, <2>1, <2>5, HeldWorks
  <2>6. CASE Fails("read", ReadFaults) /\ shown' = now + RetrySoon /\ UNCHANGED held
    <3> DEFINE r == faults.read
               m == Late * faults.read
               k == Late * (faults.read - 1)
    <3>1. r \in Nat /\ faults'.read = r + 1
      BY <2>6, Slack DEF Instants, Fails, Timely, RunTokensAssumption
    <3>2. m \in Int /\ m >= 0 /\ (r > 0 => k \in Int /\ m = k + Late)
      <4>1. Late \in Nat
        BY <1>1, Slack
      <4>2. m \in Nat
        BY <3>1, <4>1
      <4>3. r > 0 => k \in Int /\ m = k + Late
        <5> DEFINE q == r - 1
        <5>1. q \in Int /\ q + 1 = r
          BY <3>1
        <5>2. Late * (q + 1) = Late * q + Late /\ Late * q \in Int
          <6> HIDE DEF q
          <6>1. QED
            BY <4>1, <5>1, NextProduct
        <5>3. QED
          BY <5>1, <5>2
      <4>4. QED
        BY <4>2, <4>3
    <3>3. held >= now + Reserve - m
      <4>1. CASE shown <= held /\ held >= asked + StorageSlack
        <5> HIDE DEF m
        <5>1. QED
          BY <1>1, <2>1, <2>2, <3>2, <4>1
      <4>2. CASE shown <= asked + RetrySoon /\ r > 0 /\ held >= asked + Reserve - k
        <5>1. Late >= 1 /\ Late >= RetrySoon - Early
          BY <1>1, Slack DEF Late
        <5>2. now <= asked + Late
          BY <1>1, <2>2, <4>2, <5>1
        <5> HIDE DEF m, k, r
        <5>3. QED
          BY <1>1, <3>2, <4>2, <5>2
      <4>3. QED
        BY <2>1, <4>1, <4>2 DEF HeldLasts
    <3>4. shown' <= asked' + RetrySoon /\ held' >= asked' + Reserve - m
      BY <1>1, <2>1, <2>6, <3>3
    <3>5. faults'.read > 0 /\ faults'.read - 1 = faults.read
      BY <3>1
    <3>6. held' >= asked' + Reserve - Late * (faults'.read - 1)
      BY <3>4, <3>5
    <3>7. QED
      BY <2>3, <3>4, <3>5, <3>6 DEF HeldLasts
  <2>7. QED
    BY <1>6, <2>4, <2>5, <2>6 DEF RefreshHandler
<1>7. CASE Tick
  <2>1. UNCHANGED <<turn, held, shown, asked, faults>> /\ now' = now + 1 /\ (Stale => asked = now)
    BY <1>7 DEF Tick, Timely
  <2>2. turn # "dispatching" => asked <= now' /\ (now' <= shown - Early \/ now' <= asked + 1)
    BY <1>1, <2>1 DEF HeldLasts, Stale
  <2>3. QED
    BY <2>1, <2>2 DEF HeldLasts
<1>8. ASSUME Fails("storage", StorageFaults) \/ Fails("model", ModelFaults) PROVE faults'.read = faults.read
  BY <1>8 DEF Fails, Instants
<1>9. CASE RefreshStorage \/ RefreshModelToken
  BY <1>4, <1>8, <1>9 DEF RefreshStorage, RefreshModelToken
<1>10. CASE ServeToken
  BY <1>10 DEF ServeToken, HeldLasts
<1>11. QED
  BY <1>4, <1>5, <1>6, <1>7, <1>9, <1>10
     DEF Next, CliFetches, Detach, Attach, vars

\* The CLI takes what is served before its own is used up.
LEMMA CliStep == Timely /\ Instants /\ Followed /\ ServedLasts /\ CliLasts /\ [Next]_vars => CliLasts'
<1> SUFFICES ASSUME Timely, Instants, Followed, ServedLasts, CliLasts, [Next]_vars PROVE CliLasts'
  OBVIOUS
<1> DEFINE least == LowerOf(CliEarly - 1, ModelSlack)
<1>1. /\ {Lifetime, Cadence, AdoptWithin, MaxDispatch, CliEarly, ModelSlack} \subseteq Int
      /\ {now, cli, served, minted, due, since} \subseteq Int
      /\ Cadence > 0
  BY Slack DEF Instants, Timely, RunTokensAssumption
<1>2. least \in Int /\ least <= CliEarly - 1 /\ least <= ModelSlack
  BY <1>1 DEF LowerOf
<1>3. CliLasts' <=> (turn' = "running" => cli' >= now' + least)
  BY DEF CliLasts
<1>4. turn = "running" => cli >= now + least
  BY DEF CliLasts
<1> HIDE DEF least
<1>5. CASE UNCHANGED <<now, turn, cli>>
  BY <1>3, <1>4, <1>5
<1>6. CASE AcceptTurn
  BY <1>3, <1>6 DEF AcceptTurn
<1>7. CASE ServeToken
  <2>1. minted = Lifetime /\ now <= MaxDispatch /\ MaxDispatch < Cadence /\ cli' = minted /\ now' = now
    BY <1>7 DEF ServeToken, Followed, Timely
  <2> DEFINE n == Retry * ModelFaults
  <2>2. n \in Nat /\ Absence \in Nat /\ ModelSlack = Lifetime - Cadence - n - Absence
    BY <1>1, Slack DEF ModelSlack, Absence, Timely, RunTokensAssumption
  <2> HIDE DEF n
  <2>3. ModelSlack <= Lifetime - Cadence
    BY <1>1, <2>2
  <2>4. QED
    BY <1>1, <1>2, <1>3, <2>1, <2>3
<1>8. CASE CliFetches
  <2>1. turn = "running" /\ cli' = served /\ now' = now
    BY <1>8 DEF CliFetches, CliStale
  <2>2. served >= NextRoundBy + ModelSlack /\ now <= NextRoundBy /\ NextRoundBy \in Int
    BY <2>1, Ahead
  <2>3. QED
    BY <1>1, <1>2, <1>3, <2>1, <2>2
<1>9. CASE Tick
  <2>1. UNCHANGED <<turn, cli, served>> /\ now' = now + 1 /\ (CliStale => cli = served)
    BY <1>9 DEF Tick
  <2>2. now < NextRoundBy
    BY <1>1, <1>9 DEF Tick, Wakes, Followed, NextRoundBy, Instants
  <2>3. CASE turn = "running" /\ CliStale
    <3>1. served >= NextRoundBy + ModelSlack /\ NextRoundBy \in Int
      BY <2>3, Ahead
    <3>2. QED
      BY <1>1, <1>2, <1>3, <2>1, <2>2, <2>3, <3>1
  <2>4. CASE turn = "running" /\ ~CliStale
    BY <1>1, <1>2, <1>3, <2>1, <2>4 DEF CliStale
  <2>5. QED
    BY <1>3, <2>1, <2>3, <2>4
<1>10. QED
  BY <1>5, <1>6, <1>7, <1>8, <1>9
     DEF Next, RefreshHandler, RefreshStorage, RefreshModelToken, Detach, Attach, vars

-----------------------------------------------------------------------------
(* The tokens.                                                             *)

LEMMA TokenInvInit == Timely /\ Init => TokenInv
<1> SUFFICES ASSUME Timely, Init PROVE TokenInv
  OBVIOUS
<1>1. /\ {Lifetime, Cadence, MaxDispatch, AdoptWithin} \subseteq Nat
      /\ StorageFaults \in Nat /\ ModelFaults \in Nat /\ ReadFaults \in Nat
  BY DEF Timely, RunTokensAssumption
<1>2. minted = Lifetime /\ record = Lifetime /\ due = Cadence
  BY <1>1 DEF Init, MintTokens, StartRefresh
<1>3. Instants
  BY <1>1, <1>2 DEF Init, Instants
<1>4. Followed
  BY <1>1, <1>2 DEF Init, Followed
<1>5. RecordLasts
  <2>1. Cadence * faults.storage = 0
    BY <1>1 DEF Init
  <2>2. NextRoundBy = Cadence /\ Missed = 0 /\ step = "storage"
    BY <1>2 DEF Init, NextRoundBy, Missed
  <2>3. QED
    BY <1>1, <1>2, <2>1, <2>2 DEF RecordLasts
<1>6. ServedLasts /\ HeldLasts /\ CliLasts
  BY DEF Init, ServedLasts, HeldLasts, CliLasts
<1>7. QED
  BY <1>3, <1>4, <1>5, <1>6 DEF TokenInv

LEMMA TokenInvStep == Timely /\ TokenInv /\ [Next]_vars => TokenInv'
BY InstantsStep, FollowedStep, RecordStep, ServedStep, HeldStep, CliStep DEF TokenInv

LEMMA TokensLast ==
    ASSUME Timely, TokenInv
    PROVE  turn = "running" => held > now /\ cli > now
<1>1. turn = "running" => held > now
  BY HeldWorks DEF TokenInv
<1>2. turn = "running" => cli > now
  <2>1. {CliEarly, ModelSlack, now, cli} \subseteq Int /\ CliEarly > 1 /\ ModelSlack > 0
    BY Slack DEF TokenInv, Instants, Timely
  <2>2. turn = "running" => cli >= now + LowerOf(CliEarly - 1, ModelSlack)
    BY DEF TokenInv, CliLasts
  <2>3. QED
    BY <2>1, <2>2 DEF LowerOf
<1>3. QED
  BY <1>1, <1>2

\* Both tokens of a turn that is followed, and adopted in time when it is
\* not, work at every instant of the turn (backend.py _start_refresh,
\* _refresh_model_token; scoped_gcs.py worker_credentials; model_token.py).
THEOREM TokensLive == Timely => (Spec => [](StorageLives /\ ModelLives /\ AdoptedInTime))
<1> SUFFICES ASSUME Timely PROVE Spec => [](StorageLives /\ ModelLives /\ AdoptedInTime)
  OBVIOUS
<1>1. Init => TokenInv
  BY TokenInvInit
<1>2. TokenInv /\ [Next]_vars => TokenInv'
  BY TokenInvStep
<1>3. TokenInv => StorageLives /\ ModelLives /\ AdoptedInTime
  BY TokensLast DEF StorageLives, ModelLives, AdoptedInTime
<1>4. QED
  BY <1>1, <1>2, <1>3, PTL DEF Spec

-----------------------------------------------------------------------------
(* The types, which hold however late anybody is.                          *)

Expiries ==
    /\ TypeOK /\ {shown, asked} \subseteq Int
    /\ minted = Lifetime

LEMMA TypesStep == RunTokensAssumption /\ Expiries /\ [Next]_vars => Expiries'
<1> SUFFICES ASSUME RunTokensAssumption, Expiries, [Next]_vars PROVE Expiries'
  OBVIOUS
<1>1. /\ {Lifetime, Horizon, RetrySoon, MaxTime} \subseteq Nat /\ RetrySoon <= Horizon
      /\ now \in 0..MaxTime /\ {record, held, served, cli} \subseteq 0..(MaxTime + Lifetime)
      /\ shown \in Int /\ asked \in Int /\ shown <= now + Horizon /\ asked <= now /\ minted = Lifetime
      /\ turn \in {"dispatching", "accepted", "running"} /\ follower \in {"owner", "nobody", "adopter"}
      /\ step \in {"storage", "model"}
  BY DEF RunTokensAssumption, Expiries, TypeOK
<1>2. \A when \in Int : WithinHorizon(when) \in Int /\ WithinHorizon(when) <= now + Horizon
  BY <1>1 DEF WithinHorizon, LowerOf
<1> USE <1>1 DEF Expiries, TypeOK
<1>3. CASE AcceptTurn
  BY <1>2, <1>3 DEF AcceptTurn
<1>4. CASE ServeToken
  BY <1>4 DEF ServeToken
<1>5. CASE RefreshHandler
  BY <1>2, <1>5 DEF RefreshHandler
<1>6. CASE CliFetches
  BY <1>6 DEF CliFetches
<1>7. CASE RefreshStorage
  BY <1>7 DEF RefreshStorage
<1>8. CASE RefreshModelToken
  <2>1. UNCHANGED <<now, turn, follower, minted, record, held, shown, asked, cli>> /\ step' = "storage"
    BY <1>8 DEF RefreshModelToken
  <2>2. served' = served \/ served' = now + Lifetime
    BY <1>8 DEF RefreshModelToken
  <2>3. QED
    BY <2>1, <2>2
<1>9. CASE Detach \/ Attach
  BY <1>9 DEF Detach, Attach
<1>10. CASE Tick
  BY <1>10 DEF Tick
<1>11. CASE UNCHANGED vars
  BY <1>11 DEF vars
<1>12. QED
  BY <1>3, <1>4, <1>5, <1>6, <1>7, <1>8, <1>9, <1>10, <1>11 DEF Next

LEMMA TypesInit == RunTokensAssumption /\ Init => Expiries
<1> SUFFICES ASSUME RunTokensAssumption, Init PROVE Expiries
  OBVIOUS
<1>1. {Lifetime, Horizon, MaxTime} \subseteq Nat
  BY DEF RunTokensAssumption
<1>2. /\ now = 0 /\ turn = "dispatching" /\ follower = "owner" /\ step = "storage"
      /\ minted = Lifetime /\ record = Lifetime /\ held = 0 /\ shown = 0 /\ asked = 0 /\ served = 0 /\ cli = 0
  BY DEF Init, MintTokens
<1>3. QED
  BY <1>1, <1>2 DEF Expiries, TypeOK

\* Each time and expiry keeps its type, and what google-auth is shown is never
\* further off than the horizon, whatever fails and however late a call is.
THEOREM TokenTypes == RunTokensAssumption => (Spec => []TypeOK)
<1> SUFFICES ASSUME RunTokensAssumption PROVE Spec => []TypeOK
  OBVIOUS
<1>1. Init => Expiries
  BY TypesInit
<1>2. Expiries /\ [Next]_vars => Expiries'
  BY TypesStep
<1>3. Expiries => TypeOK
  BY DEF Expiries
<1>4. QED
  BY <1>1, <1>2, <1>3, PTL DEF Spec
====
