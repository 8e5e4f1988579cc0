---------------------------- MODULE SessionStore ----------------------------
(***************************************************************************)
(* The transcript of a session as Claude Code's session store keeps it     *)
(* (checkpoint/session_store.py): each append is an object of its own,     *)
(* named by the writer's clock and a counter, and a load reads the objects *)
(* in the order of their names and drops entries it has seen.  Every turn  *)
(* has a writer of its own, on a machine of its own.                       *)
(***************************************************************************)
EXTENDS Integers, FiniteSets, SequencesExt

CONSTANTS Entries,     \* entries the CLI may write, numbered in their order
          Unnamed,     \* the ones without a uuid
          Skews,       \* how far a machine's clock may be off
          MaxTime      \* bound: milliseconds

\* What the constants have to satisfy.
SessionStoreAssumption ==
  /\ Entries = 1 .. Cardinality(Entries) /\ Unnamed \subseteq Entries
  /\ Skews \subseteq Nat /\ MaxTime \in Nat

VARIABLES
  now,       \* the time
  skew,      \* of the writer's machine
  seq,       \* _seq of the writer
  objects,   \* [ms, seq] -> the entries of the object
  next,      \* the next entry the CLI writes
  unsure     \* an append whose answer was lost: the CLI may repeat it

vars == <<now, skew, seq, objects, next, unsure>>

Init ==
  /\ now = 1 /\ skew \in Skews /\ seq = 0 /\ objects = <<>> /\ next = 1 /\ unsure = <<>>

Name(s) == [ms |-> now + skew, seq |-> s]

Put(key, entries) ==
  objects' = [k \in DOMAIN objects \cup {key} |-> IF k = key THEN entries ELSE objects[k]]

Tick ==
  /\ now < MaxTime /\ now' = now + 1 /\ UNCHANGED <<skew, seq, objects, next, unsure>>

NewTurn ==   \* a new store object, at the earliest a millisecond after the last append
  /\ seq > 0 /\ now < MaxTime /\ now' = now + 1 /\ seq' = 0 /\ skew' \in Skews
  /\ unsure' = <<>> /\ UNCHANGED <<objects, next>>

AppendBatch ==
  /\ next \in Entries /\ seq < 3
  /\ \E last \in next .. Cardinality(Entries), lost \in BOOLEAN :
       LET batch == [i \in 1 .. last - next + 1 |-> next + i - 1]
       IN  /\ Put(Name(seq + 1), batch) /\ next' = last + 1
           /\ unsure' = IF lost THEN batch ELSE <<>>
  /\ seq' = seq + 1 /\ UNCHANGED <<now, skew>>

Repeat ==    \* the same entries again, in an object of their own
  /\ unsure # <<>> /\ seq < 3
  /\ seq' = seq + 1 /\ Put(Name(seq + 1), unsure) /\ unsure' = <<>>
  /\ UNCHANGED <<now, skew, next>>

Next == Tick \/ NewTurn \/ AppendBatch \/ Repeat

Spec == Init /\ [][Next]_vars

----------------------------------------------------------------------------
Before(j, k) == j.ms < k.ms \/ (j.ms = k.ms /\ j.seq < k.seq)

Names ==
  [i \in 1 .. Cardinality(DOMAIN objects) |->
     CHOOSE k \in DOMAIN objects : Cardinality({j \in DOMAIN objects : Before(j, k)}) = i - 1]

ReadAll == FlattenSeq([i \in DOMAIN Names |-> objects[Names[i]]])

LoadTwice == ReadAll   \* without the uuids

Load ==
  LET all == ReadAll
      Seen(i) == all[i] \notin Unnamed /\ \E j \in 1 .. i - 1 : all[j] = all[i]
      kept == SelectSeq([i \in DOMAIN all |-> i], LAMBDA i : ~Seen(i))
  IN  [k \in DOMAIN kept |-> all[kept[k]]]

Written == [i \in 1 .. next - 1 |-> i]

TypeOK ==
  /\ now \in 1 .. MaxTime /\ skew \in Skews /\ seq \in 0 .. 3
  /\ \A k \in DOMAIN objects : k.seq \in 1 .. 3 /\ k.ms \in Nat
  /\ next \in 1 .. Cardinality(Entries) + 1

Named(entries) == SelectSeq(entries, LAMBDA e : e \notin Unnamed)

(* A load gives what was written, every entry that has a uuid once and in  *)
(* its order, though appends are repeated and turns follow each other on   *)
(* other machines, when the machines' clocks agree (load).                 *)
LoadIsTheTranscript ==
  Named(Load) = Named(Written) /\ Range(Load) = Range(Written)
=============================================================================
