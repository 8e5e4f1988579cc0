----------------------------- MODULE ReadyPool -----------------------------
(***************************************************************************)
(* The ready pool of one template and its roster (runtime/sandbox/         *)
(* roster.py, and the engine's use of it in backend.py), shared by several *)
(* client processes.                                                       *)
(*                                                                         *)
(* A client works from a listing that may be out of date when it is used:  *)
(* it walks the listed rows and deletes entries one call at a time. It     *)
(* claims the oldest entry it can delete, prunes the expired ones, and     *)
(* wait_until_warm() drops those that do not answer. Other clients, the    *)
(* refills, failing calls and crashes come in between.                     *)
(*                                                                         *)
(* An entry is written once, under a name of its own, so the generation of *)
(* the roster's conditional delete stands for "still there".               *)
(***************************************************************************)
EXTENDS Naturals, Sequences

CONSTANTS
    Clients,    \* the processes that share the pool
    Sandboxes,  \* the sandboxes the platform can ever create
    Initial,    \* those that are in the pool at first, oldest first
    Attempts,   \* DISPATCH_ATTEMPTS: sandboxes tried for one turn
    None        \* no sandbox

\* What the constants have to satisfy.
PoolAssumption ==
    /\ Initial \in Seq(Sandboxes)
    /\ Attempts \in Nat \ {0}
    /\ None \notin Sandboxes

VARIABLES
    roster,     \* the sandboxes that have an entry
    created,    \* the sandboxes in the order of their created_at
    stale,      \* those whose entry has expired, or will within the margin
    box,        \* the life of each sandbox
    pc,         \* where each client stands
    rows,       \* the sandboxes of its listing it has yet to look at
    dated,      \* the rows that had expired when it took the time
    got,        \* the sandbox it holds
    pruned,     \* the expired entries it has removed so far
    tries,      \* the sandboxes it has tried for this turn
    consumed,   \* the pool entries its dispatch has used up
    owed,       \* the refills it has scheduled
    filling,    \* the sandboxes its refills have yet to record
    jobs,       \* the sandboxes its background threads will delete
    mislaid     \* sandboxes forgotten in a failure (history)

walk   == <<rows, dated, pruned>>
held   == <<got, tries, consumed>>
engine == <<owed, filling, jobs>>
vars   == <<roster, created, stale, box, pc, walk, held, engine, mislaid>>

States == {"idle", "walk", "hold", "run", "retry", "look", "drop", "dead"}

Occurs(seq) == {seq[i] : i \in DOMAIN seq}
Goto(c, where) == pc' = [pc EXCEPT ![c] = where]

Init ==
    /\ created = Initial
    /\ roster = Occurs(Initial)
    /\ stale = {}
    /\ box = [s \in Sandboxes |-> IF s \in Occurs(Initial) THEN "live" ELSE "absent"]
    /\ pc = [c \in Clients |-> "idle"]
    /\ rows = [c \in Clients |-> {}]
    /\ dated = [c \in Clients |-> {}]
    /\ got = [c \in Clients |-> None]
    /\ pruned = [c \in Clients |-> {}]
    /\ tries = [c \in Clients |-> 0]
    /\ consumed = [c \in Clients |-> 0]
    /\ owed = [c \in Clients |-> 0]
    /\ filling = [c \in Clients |-> {}]
    /\ jobs = [c \in Clients |-> {}]
    /\ mislaid = {}

-----------------------------------------------------------------------------
(* PoolRoster.claim, walking its listing.                                  *)

\* claim() takes the time, then reads the rows.
List(c) ==
    /\ pc[c] \in {"idle", "retry"}
    /\ rows' = [rows EXCEPT ![c] = roster]
    /\ dated' = [dated EXCEPT ![c] = stale]
    /\ pruned' = [pruned EXCEPT ![c] = {}]
    /\ got' = [got EXCEPT ![c] = None]
    /\ Goto(c, "walk")
    /\ UNCHANGED <<roster, created, stale, box, tries, consumed, engine, mislaid>>

\* A listing is sorted by created_at.
Row(c) ==
    created[CHOOSE i \in DOMAIN created :
                created[i] \in rows[c] /\ \A j \in 1..(i - 1) : created[j] \notin rows[c]]
Walking(c) == pc[c] = "walk" /\ rows[c] # {}
NextRow(c) == rows' = [rows EXCEPT ![c] = @ \ {Row(c)}]

\* An expired entry: this client removes it, unless somebody did before.
PruneRow(c) ==
    /\ Walking(c) /\ Row(c) \in dated[c]
    /\ roster' = roster \ {Row(c)}
    /\ pruned' = IF Row(c) \in roster THEN [pruned EXCEPT ![c] = @ \cup {Row(c)}] ELSE pruned
    /\ NextRow(c)
    /\ UNCHANGED <<created, stale, box, pc, dated, held, engine, mislaid>>

\* The conditional delete taken for a success although it found nothing.
TakeRowUnchecked(c) ==
    /\ Walking(c) /\ Row(c) \notin dated[c] /\ got[c] = None
    /\ roster' = roster \ {Row(c)}
    /\ got' = [got EXCEPT ![c] = Row(c)]
    /\ NextRow(c)
    /\ UNCHANGED <<created, stale, box, pc, dated, pruned, tries, consumed, engine, mislaid>>

\* The first entry this client wins.
TakeRow(c) ==
    /\ Walking(c) /\ Row(c) \notin dated[c] /\ got[c] = None
    /\ Row(c) \in roster
    /\ roster' = roster \ {Row(c)}
    /\ got' = [got EXCEPT ![c] = Row(c)]
    /\ NextRow(c)
    /\ UNCHANGED <<created, stale, box, pc, dated, pruned, tries, consumed, engine, mislaid>>

\* An entry somebody else won, or one beyond the claimed entry.
SkipRow(c) ==
    /\ Walking(c) /\ Row(c) \notin dated[c]
    /\ got[c] # None \/ Row(c) \notin roster
    /\ NextRow(c)
    /\ UNCHANGED <<roster, created, stale, box, pc, dated, pruned, held, engine, mislaid>>

\* The dispatch is over: what it used up is scheduled for a refill.
EndDispatch(c) ==
    /\ owed' = [owed EXCEPT ![c] = @ + consumed[c]]
    /\ consumed' = [consumed EXCEPT ![c] = 0]
    /\ tries' = [tries EXCEPT ![c] = 0]

\* A delete raises, with or without having deleted: claim() raises, and
\* what it had won so far is in nobody's hands.
RowFails(c) ==
    /\ Walking(c) /\ (Row(c) \in dated[c] \/ got[c] = None)
    /\ \E kept \in {roster, roster \ {Row(c)}} :
           /\ roster' = kept
           /\ mislaid' = mislaid \cup pruned[c] \cup ({got[c]} \ {None}) \cup (roster \ kept)
    /\ rows' = [rows EXCEPT ![c] = {}]
    /\ dated' = [dated EXCEPT ![c] = {}]
    /\ pruned' = [pruned EXCEPT ![c] = {}]
    /\ got' = [got EXCEPT ![c] = None]
    /\ EndDispatch(c)
    /\ Goto(c, "idle")
    /\ UNCHANGED <<created, stale, box, filling, jobs>>

-----------------------------------------------------------------------------
(* _claim_sandbox and the dispatch around it.                              *)

Born(s) ==
    /\ box[s] = "absent"
    /\ box' = [box EXCEPT ![s] = "live"]
    /\ created' = Append(created, s)

\* Best effort: a sandbox whose delete failed lives on until its TTL.
Release(s) ==
    \/ box' = [box EXCEPT ![s] = "gone"] /\ UNCHANGED mislaid
    \/ UNCHANGED box /\ mislaid' = mislaid \cup {s}

\* The pruned sandboxes are deleted in the background.
SchedulePruned(c) ==
    /\ jobs' = [jobs EXCEPT ![c] = @ \cup pruned[c]]
    /\ pruned' = [pruned EXCEPT ![c] = {}]
    /\ dated' = [dated EXCEPT ![c] = {}]

ClaimWarm(c) ==
    /\ pc[c] = "walk" /\ rows[c] = {} /\ got[c] # None
    /\ SchedulePruned(c)
    /\ consumed' = [consumed EXCEPT ![c] = @ + 1]
    /\ Goto(c, "hold")
    /\ UNCHANGED <<roster, created, stale, box, rows, got, tries, owed, filling, mislaid>>

ClaimCold(c, s) ==
    /\ pc[c] = "walk" /\ rows[c] = {} /\ got[c] = None
    /\ Born(s)
    /\ SchedulePruned(c)
    /\ got' = [got EXCEPT ![c] = s]
    /\ Goto(c, "hold")
    /\ UNCHANGED <<roster, stale, rows, tries, consumed, owed, filling, mislaid>>

\* No entry, and no sandbox could be created.
ClaimFails(c) ==
    /\ pc[c] = "walk" /\ rows[c] = {} /\ got[c] = None
    /\ SchedulePruned(c)
    /\ owed' = [owed EXCEPT ![c] = @ + consumed[c]]
    /\ consumed' = [consumed EXCEPT ![c] = 0]
    /\ tries' = [tries EXCEPT ![c] = 0]
    /\ Goto(c, "idle")
    /\ UNCHANGED <<roster, created, stale, box, rows, got, filling, mislaid>>

\* The worker takes the turn.
TurnStarts(c) ==
    /\ pc[c] = "hold" /\ box[got[c]] = "live"
    /\ EndDispatch(c)
    /\ Goto(c, "run")
    /\ UNCHANGED <<roster, created, stale, box, walk, got, filling, jobs, mislaid>>

MayTryAgain(c) == tries[c] + 1 < Attempts

\* The sandbox is dead or refuses; it is dropped and another one claimed.
TurnRefused(c) ==
    /\ pc[c] = "hold"
    /\ Release(got[c])
    /\ got' = [got EXCEPT ![c] = None]
    /\ \/ /\ MayTryAgain(c)
          /\ tries' = [tries EXCEPT ![c] = @ + 1]
          /\ Goto(c, "retry")
          /\ UNCHANGED <<consumed, owed>>
       \/ /\ ~MayTryAgain(c)
          /\ EndDispatch(c)
          /\ Goto(c, "idle")
    /\ UNCHANGED <<roster, created, stale, walk, filling, jobs>>

\* The turn is over; its sandbox is deleted.
TurnOver(c) ==
    /\ pc[c] = "run"
    /\ Release(got[c])
    /\ got' = [got EXCEPT ![c] = None]
    /\ Goto(c, "idle")
    /\ UNCHANGED <<roster, created, stale, walk, tries, consumed, engine>>

-----------------------------------------------------------------------------
(* fill_pool, in the background.                                           *)

Refill(c, s) ==
    /\ owed[c] > 0
    /\ Born(s)
    /\ owed' = [owed EXCEPT ![c] = @ - 1]
    /\ filling' = [filling EXCEPT ![c] = @ \cup {s}]
    /\ UNCHANGED <<roster, stale, pc, walk, held, jobs, mislaid>>

RefillFails(c) ==
    /\ owed[c] > 0
    /\ owed' = [owed EXCEPT ![c] = @ - 1]
    /\ UNCHANGED <<roster, created, stale, box, pc, walk, held, filling, jobs, mislaid>>

\* A sandbox that answers is recorded as idle.
Record(c, s) ==
    /\ s \in filling[c]
    /\ roster' = roster \cup {s}
    /\ filling' = [filling EXCEPT ![c] = @ \ {s}]
    /\ UNCHANGED <<created, stale, box, pc, walk, held, owed, jobs, mislaid>>

\* The write raised, with or without having written: the sandbox goes.
RecordFails(c, s) ==
    /\ s \in filling[c]
    /\ roster' \in {roster, roster \cup {s}}
    /\ filling' = [filling EXCEPT ![c] = @ \ {s}]
    /\ Release(s)
    /\ UNCHANGED <<created, stale, pc, walk, held, owed, jobs>>

\* Housekeeping that waits until its client has nothing else to do.
RunDeleteWhenIdle(c, s) ==
    /\ s \in jobs[c] /\ pc[c] = "idle"
    /\ jobs' = [jobs EXCEPT ![c] = @ \ {s}]
    /\ Release(s)
    /\ UNCHANGED <<roster, created, stale, pc, walk, held, owed, filling>>

\* A background thread deletes a pruned sandbox.
RunDelete(c, s) ==
    /\ s \in jobs[c]
    /\ jobs' = [jobs EXCEPT ![c] = @ \ {s}]
    /\ Release(s)
    /\ UNCHANGED <<roster, created, stale, pc, walk, held, owed, filling>>

-----------------------------------------------------------------------------
(* wait_until_warm and _prune_dead.                                        *)

\* The entries that have not expired.
Look(c) ==
    /\ pc[c] = "idle"
    /\ rows' = [rows EXCEPT ![c] = roster \ stale]
    /\ Goto(c, "look")
    /\ UNCHANGED <<roster, created, stale, box, dated, pruned, held, engine, mislaid>>

Answers(c) ==
    /\ pc[c] = "look" /\ rows[c] # {} /\ box[Row(c)] = "live"
    /\ NextRow(c)
    /\ UNCHANGED <<roster, created, stale, box, pc, dated, pruned, held, engine, mislaid>>

\* The sandbox is gone, or the proxy failed or was too slow for once.
DoesNotAnswer(c) ==
    /\ pc[c] = "look" /\ rows[c] # {}
    /\ Goto(c, "drop")
    /\ UNCHANGED <<roster, created, stale, box, walk, held, engine, mislaid>>

\* roster.remove() has no precondition, and what it finds is not looked at:
\* the sandbox is deleted even when its entry was gone by then.
DropRow(c) ==
    /\ pc[c] = "drop"
    /\ roster' \in {roster, roster \ {Row(c)}}
    /\ jobs' = [jobs EXCEPT ![c] = @ \cup {Row(c)}]
    /\ NextRow(c)
    /\ Goto(c, "look")
    /\ UNCHANGED <<created, stale, box, dated, pruned, held, owed, filling, mislaid>>

EndLook(c) ==
    /\ pc[c] = "look" /\ rows[c] = {}
    /\ Goto(c, "idle")
    /\ UNCHANGED <<roster, created, stale, box, walk, held, engine, mislaid>>

-----------------------------------------------------------------------------
(* Time, the platform, and the death of a client.                          *)

\* Entries expire in the order of their creation: all have the same idle life.
Expire(i) ==
    /\ i \in DOMAIN created /\ created[i] \notin stale
    /\ \A j \in 1..(i - 1) : created[j] \in stale
    /\ stale' = stale \cup {created[i]}
    /\ UNCHANGED <<roster, created, box, pc, walk, held, engine, mislaid>>

Vanish(s) ==
    /\ box[s] = "live"
    /\ box' = [box EXCEPT ![s] = "gone"]
    /\ UNCHANGED <<roster, created, stale, pc, walk, held, engine, mislaid>>

\* A client is killed: what it held is nobody's any more.
Crash(c) ==
    /\ pc[c] # "dead"
    /\ mislaid' = mislaid \cup pruned[c] \cup filling[c] \cup jobs[c] \cup ({got[c]} \ {None})
    /\ Goto(c, "dead")
    /\ rows' = [rows EXCEPT ![c] = {}]
    /\ dated' = [dated EXCEPT ![c] = {}]
    /\ pruned' = [pruned EXCEPT ![c] = {}]
    /\ got' = [got EXCEPT ![c] = None]
    /\ filling' = [filling EXCEPT ![c] = {}]
    /\ jobs' = [jobs EXCEPT ![c] = {}]
    /\ owed' = [owed EXCEPT ![c] = 0]
    /\ UNCHANGED <<roster, created, stale, box, tries, consumed>>

-----------------------------------------------------------------------------
Claiming(c) ==
    \/ List(c) \/ PruneRow(c) \/ TakeRow(c) \/ SkipRow(c) \/ RowFails(c)
    \/ ClaimWarm(c) \/ (\E s \in Sandboxes : ClaimCold(c, s)) \/ ClaimFails(c)

Running(c) == TurnStarts(c) \/ TurnRefused(c) \/ TurnOver(c)

Background(c) ==
    \/ RefillFails(c)
    \/ \E s \in Sandboxes : Refill(c, s) \/ Record(c, s) \/ RecordFails(c, s) \/ RunDelete(c, s)

Waiting(c) == Look(c) \/ Answers(c) \/ DoesNotAnswer(c) \/ DropRow(c) \/ EndLook(c)

Next ==
    \/ \E c \in Clients : Claiming(c) \/ Running(c) \/ Background(c) \/ Waiting(c) \/ Crash(c)
    \/ \E i \in DOMAIN created : Expire(i)
    \/ \E s \in Sandboxes : Vanish(s)

Spec == Init /\ [][Next]_vars

\* A client's threads run, and its calls time out; nobody has to submit a
\* turn or to wait for a warm pool, and nobody has to crash.
Steps(c) ==
    \/ PruneRow(c) \/ TakeRow(c) \/ SkipRow(c) \/ RowFails(c)
    \/ ClaimWarm(c) \/ (\E s \in Sandboxes : ClaimCold(c, s)) \/ ClaimFails(c)
    \/ pc[c] = "retry" /\ List(c)
    \/ Running(c)

Fairness ==
    \A c \in Clients :
        /\ WF_vars(Steps(c))
        /\ \A s \in Sandboxes : WF_vars(Record(c, s) \/ RecordFails(c, s)) /\ WF_vars(RunDelete(c, s))
        /\ WF_vars(RefillFails(c) \/ \E s \in Sandboxes : Refill(c, s))

FairSpec == Spec /\ Fairness

-----------------------------------------------------------------------------
(* Properties.                                                             *)

TypeOK ==
    /\ roster \subseteq Sandboxes /\ stale \subseteq Sandboxes /\ mislaid \subseteq Sandboxes
    /\ created \in Seq(Sandboxes)
    /\ box \in [Sandboxes -> {"absent", "live", "gone"}]
    /\ pc \in [Clients -> States]
    /\ rows \in [Clients -> SUBSET Sandboxes]
    /\ dated \in [Clients -> SUBSET Sandboxes]
    /\ got \in [Clients -> Sandboxes \cup {None}]
    /\ pruned \in [Clients -> SUBSET Sandboxes]
    /\ filling \in [Clients -> SUBSET Sandboxes]
    /\ jobs \in [Clients -> SUBSET Sandboxes]
    /\ tries \in [Clients -> 0..(Attempts - 1)]
    /\ consumed \in [Clients -> 0..Attempts]
    /\ owed \in [Clients -> Nat]

\* A sandbox is idle, being recorded by one client, or in the hands of one
\* client: of several claims, prunings and refills that meet in the roster,
\* one gets it.
InHand(c) == ({got[c]} \ {None}) \cup pruned[c] \cup filling[c]

OneHolder ==
    /\ \A c \in Clients : InHand(c) \cap roster = {}
    /\ \A c, d \in Clients : c # d => InHand(c) \cap InHand(d) = {}

\* Whatever the interleaving, a live sandbox is on the roster or some client
\* will delete it, except where a failing call or a crash made a client
\* forget it.
NoneForgotten ==
    \A s \in Sandboxes :
        box[s] = "live" =>
            \/ s \in roster \/ s \in mislaid
            \/ \E c \in Clients : s \in InHand(c) \cup jobs[c]

\* A sandbox serves one claim: however stale the listings are, it goes from
\* hand to hand only by way of the roster, is idle once at most and, once it
\* was claimed or removed as expired, never again: ReadyPool implements
\* ServedOnce.
Stage(s) ==
    IF s \in roster THEN "idle"
    ELSE IF \E c \in Clients : got[c] = s THEN "claimed"
    ELSE IF \E c \in Clients : s \in pruned[c] THEN "pruned"
    ELSE IF \E c \in Clients : s \in filling[c] THEN "filling"
    ELSE IF box[s] = "absent" THEN "absent" ELSE "over"

Service == INSTANCE ServedOnce WITH
    stage <- [s \in Sandboxes |-> Stage(s)],
    holders <- [s \in Sandboxes |-> {c \in Clients : s \in InHand(c)}]

ServedOnceSpec == Service!Spec

\* What a client takes off the pool or creates is deleted in the end, or put
\* on the roster, unless a failure made it forget the sandbox.
ReleasedInTheEnd ==
    \A s \in Sandboxes :
        box[s] = "live" /\ s \notin roster ~> box[s] # "live" \/ s \in roster \/ s \in mislaid

=============================================================================
