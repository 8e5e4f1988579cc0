-------------------------- MODULE TurnStreamProofs --------------------------
(* Proofs about TurnStream, for any number of events and of failed polls.  *)
EXTENDS TurnStream, SequenceTheorems, TLAPS

USE StreamAssumption
USE DEF vars, worker, bucket, client, tail

-----------------------------------------------------------------------------
(* Types.                                                                  *)

\* A client that polls has not failed too often.
PollsAreCounted == mode = "direct" => failures < MaxFailures

\* The events of a turn, and the one that ends it.
LEMMA EventsDiffer ==
    /\ Pressure \in Events /\ Result \in Events /\ Pressure # Result
    /\ \A n \in 0..MaxEvents : n < MaxEvents => n + 1 \in Events
    /\ \A n \in 0..MaxEvents : n \in Events /\ n # Result
  BY DEF Events, Pressure, Result

\* What the writer takes off its queue, and what it leaves.
LEMMA Batch ==
    ASSUME NEW S, NEW q \in Seq(S), NEW k \in 1..Len(q)
    PROVE  SubSeq(q, 1, k) \in Seq(S) /\ SubSeq(q, k + 1, Len(q)) \in Seq(S)
  BY SubSeqProperties

\* A sequence that is longer by one element, or by a batch.
LEMMA Longer ==
    ASSUME NEW S, NEW q \in Seq(S)
    PROVE  /\ Len(q) \in Nat
           /\ \A e \in S : Append(q, e) \in Seq(S) /\ Len(Append(q, e)) >= Len(q)
           /\ \A r \in Seq(S) : q \o r \in Seq(S) /\ Len(q \o r) >= Len(q)
<1>1. Len(q) \in Nat
  BY LenProperties
<1>2. \A e \in S : Append(q, e) \in Seq(S) /\ Len(Append(q, e)) = Len(q) + 1
  BY AppendProperties
<1>3. \A r \in Seq(S) : q \o r \in Seq(S) /\ Len(q \o r) = Len(q) + Len(r) /\ Len(r) \in Nat
  BY ConcatProperties, LenProperties
<1>4. QED
  BY <1>1, <1>2, <1>3

\* A page of the live record.
LEMMA Page ==
    ASSUME NEW S, NEW r \in Seq(S), NEW m \in 0..Len(r), NEW k \in m..Len(r)
    PROVE  /\ SubSeq(r, m + 1, k) \in Seq(S)
           /\ Len(SubSeq(r, m + 1, k)) = k - m
           /\ \A i \in 1..(k - m) : SubSeq(r, m + 1, k)[i] = r[m + i]
  BY SubSeqProperties

\* Every step keeps the types.
LEMMA TypeStep ==
    ASSUME TypeOK, PollsAreCounted, [Next]_vars
    PROVE  TypeOK' /\ PollsAreCounted'
<1> USE EventsDiffer DEF TypeOK, PollsAreCounted, End
<1>1. CASE Emit
  BY <1>1 DEF Emit
<1>2. CASE EmitToMirror
  BY <1>2 DEF EmitToMirror
<1>3. CASE EmitResult
  BY <1>3 DEF EmitResult
<1>4. CASE ShowResult
  BY <1>4 DEF ShowResult
<1>5. CASE FinishRecord
  BY <1>5 DEF FinishRecord
<1>6. CASE Warn
  BY <1>6 DEF Warn
<1>7. CASE WarnToMirror
  BY <1>7 DEF WarnToMirror
<1>8. ASSUME NEW k \in 1..Len(queue), Flush(k) PROVE TypeOK' /\ PollsAreCounted'
  <2>1. SubSeq(queue, 1, k) \in Seq(Events) /\ queue' \in Seq(Events)
    BY <1>8, Batch DEF Flush
  <2>2. mirror' \in Seq(Events) /\ Len(mirror') >= Len(mirror)
    <3>1. mirror' = mirror \/ mirror' = mirror \o SubSeq(queue, 1, k)
      BY <1>8 DEF Flush
    <3>2. CASE mirror' = mirror \o SubSeq(queue, 1, k)
      <4>1. mirror \o SubSeq(queue, 1, k) \in Seq(Events) /\ Len(mirror \o SubSeq(queue, 1, k)) >= Len(mirror)
        BY <2>1, Longer
      <4>2. QED
        BY <3>2, <4>1, Zenon
    <3>3. QED
      BY <3>1, <3>2
  <2>3. ack' \in {"none", "stored", "failed"} /\ lost' \subseteq {"worker", "client"}
    BY <1>8 DEF Flush
  <2>4. QED
    BY <1>8, <2>1, <2>2, <2>3 DEF Flush
<1>9. CASE Vanish
  <2>1. <<>> \in Seq(Events)
    BY EmptySeq
  <2>2. queue' \in Seq(Events) /\ alive' \in BOOLEAN
    BY <1>9, <2>1 DEF Vanish
  <2>3. QED
    BY <1>9, <2>2 DEF Vanish
<1>10. ASSUME NEW k \in 0..Len(record), Poll(k) PROVE TypeOK' /\ PollsAreCounted'
  <2>1. SubSeq(record, yielded + 1, k) \in Seq(Events)
    BY <1>10, Page DEF Poll, Answers
  <2>2. delivered' \in Seq(Events)
    BY <1>10, <2>1, ConcatProperties DEF Poll
  <2>3. mode' \in {"direct", "ended"} /\ verdict' \in {"none", "live", "resultless"} \cup {verdict}
    BY <1>10 DEF Poll
  <2>4. QED
    BY <1>10, <2>2, <2>3 DEF Poll, Answers
<1>11. CASE PollFails
  BY <1>11 DEF PollFails
<1>12. CASE PollFindsGone
  BY <1>12 DEF PollFindsGone
<1>13. CASE TailPoll
  BY <1>13 DEF TailPoll
<1>14. CASE TailBlip
  BY <1>14 DEF TailBlip
<1>15. CASE TailLine
  <2>1. mirror[tailed + 1] \in Events
    BY <1>15 DEF TailLine
  <2>2. delivered' \in Seq(Events)
    <3>1. delivered' = delivered \/ delivered' = Append(delivered, mirror[tailed + 1])
      BY <1>15 DEF TailLine
    <3>2. CASE delivered' = Append(delivered, mirror[tailed + 1])
      BY <2>1, <3>2
    <3>3. QED
      BY <3>1, <3>2
  <2>3. mode' \in {"tail", "ended"} /\ verdict' \in {verdict, "mirrored", "unreachable"}
    BY <1>15 DEF TailLine
  <2>4. QED
    BY <1>15, <2>2, <2>3, SMTT(30) DEF TailLine
<1>16. CASE TailGivesUp
  BY <1>16 DEF TailGivesUp
<1>17. CASE TailFails
  BY <1>17 DEF TailFails
<1>18. CASE Complete
  <2>1. (mirror' = mirror \/ mirror' = Append(mirror, Result)) /\ lost' \subseteq {"worker", "client"}
    BY <1>18 DEF Complete
  <2>2. mirror' \in Seq(Events) /\ Len(mirror') >= Len(mirror)
    <3>1. CASE mirror' = Append(mirror, Result)
      BY <3>1
    <3>2. QED
      BY <2>1, <3>1
  <2>3. <<>> \in Seq(Events)
    BY EmptySeq
  <2>4. queue' \in Seq(Events) /\ alive' \in BOOLEAN
    BY <1>18, <2>3 DEF Complete
  <2>5. QED
    BY <1>18, <2>1, <2>2, <2>4 DEF Complete
<1>19. CASE UNCHANGED vars
  BY <1>19
<1>20. QED
  BY <1>1, <1>2, <1>3, <1>4, <1>5, <1>6, <1>7, <1>8, <1>9, <1>10, <1>11, <1>12, <1>13, <1>14,
     <1>15, <1>16, <1>17, <1>18, <1>19 DEF Next, Working, Streaming

-----------------------------------------------------------------------------
(* Lines stay where they are.                                              *)

\* t begins with the lines of s.
Extends(s, t) == Len(s) <= Len(t) /\ \A i \in 1..Len(s) : t[i] = s[i]

\* Appending an element extends a sequence.
LEMMA AppendExtends ==
    ASSUME NEW S, NEW s \in Seq(S), NEW e \in S
    PROVE  Extends(s, Append(s, e))
<1>1. Len(s) \in Nat /\ Len(Append(s, e)) = Len(s) + 1
  BY AppendProperties, LenProperties
<1>2. \A i \in 1..Len(s) : Append(s, e)[i] = s[i]
  BY AppendProperties
<1>3. QED
  BY <1>1, <1>2 DEF Extends

\* So does appending a batch.
LEMMA ConcatExtends ==
    ASSUME NEW S, NEW s \in Seq(S), NEW t \in Seq(S)
    PROVE  Extends(s, s \o t)
<1>1. Len(s) \in Nat /\ Len(t) \in Nat /\ Len(s \o t) = Len(s) + Len(t)
  BY ConcatProperties, LenProperties
<1>2. \A i \in 1..Len(s) + Len(t) : (s \o t)[i] = IF i <= Len(s) THEN s[i] ELSE t[i - Len(s)]
  BY ConcatProperties
<1>3. \A i \in 1..Len(s) : (s \o t)[i] = s[i]
  BY <1>1, <1>2
<1>4. QED
  BY <1>1, <1>3 DEF Extends

\* A sequence extends itself.
LEMMA SameExtends ==
    ASSUME NEW S, NEW s \in Seq(S)
    PROVE  Extends(s, s)
  BY LenProperties DEF Extends

\* A prefix, line by line.
LEMMA PrefixIsExtends ==
    ASSUME NEW S, NEW s \in Seq(S), NEW t \in Seq(S)
    PROVE  IsPrefix(s, t) <=> Extends(s, t)
<1> DEFINE n == Len(s)
<1>1. n \in Nat /\ Len(t) \in Nat
  BY LenProperties
<1>2. SubSeq(s, 1, n) = s
  BY SubSeqFull
<1>3. ASSUME n <= Len(t) PROVE (SubSeq(t, 1, n) = s) <=> \A i \in 1..n : t[i] = s[i]
  <2>1. SubSeq(t, 1, n) \in Seq(S) /\ Len(SubSeq(t, 1, n)) = n
    BY <1>1, <1>3, SubSeqProperties
  <2>2. \A i \in 1..n : SubSeq(t, 1, n)[i] = t[i]
    BY <1>1, <1>3, SubSeqProperties
  <2>3. (\A i \in 1..n : SubSeq(t, 1, n)[i] = s[i]) => SubSeq(t, 1, n) = s
    BY <2>1, SeqEqual
  <2>4. QED
    BY <2>2, <2>3
<1>4. QED
  BY <1>2, <1>3 DEF IsPrefix, Extends

\* The live record and the mirror only grow.
LEMMA LinesStay ==
    ASSUME TypeOK, [Next]_vars
    PROVE  Extends(record, record') /\ Extends(mirror, mirror')
<1> USE DEF TypeOK
<1> DEFINE Grow == Extends(record, record') /\ Extends(mirror, mirror')
<1>1. Extends(record, record) /\ Extends(mirror, mirror)
  BY SameExtends
<1>2. \A e \in Events : Extends(record, Append(record, e)) /\ Extends(mirror, Append(mirror, e))
  BY AppendExtends
<1>3. CASE Emit
  BY <1>1, <1>2, <1>3, EventsDiffer DEF Emit
<1>4. CASE ShowResult
  BY <1>1, <1>2, <1>4, EventsDiffer DEF ShowResult
<1>5. CASE Warn
  BY <1>1, <1>2, <1>5, EventsDiffer DEF Warn
<1>6. ASSUME NEW k \in 1..Len(queue), Flush(k) PROVE Grow
  <2>1. Extends(mirror, mirror \o SubSeq(queue, 1, k))
    BY Batch, ConcatExtends
  <2>2. record' = record /\ (mirror' = mirror \/ mirror' = mirror \o SubSeq(queue, 1, k))
    BY <1>6 DEF Flush
  <2>3. QED
    BY <1>1, <2>1, <2>2, Zenon
<1>7. CASE Complete
  <2>1. record' = record /\ (mirror' = mirror \/ mirror' = Append(mirror, Result))
    BY <1>7 DEF Complete
  <2>2. QED
    BY <1>1, <1>2, <2>1, EventsDiffer, Zenon
<1>8. CASE record' = record /\ mirror' = mirror
  BY <1>1, <1>8, Zenon
<1>9. ASSUME NEW k \in 0..Len(record), Poll(k) PROVE record' = record /\ mirror' = mirror
  BY <1>9 DEF Poll
<1>10. QED
  BY <1>3, <1>4, <1>5, <1>6, <1>7, <1>8, <1>9
  DEF Next, Working, Streaming, EmitToMirror, EmitResult, FinishRecord, WarnToMirror, Vanish,
      PollFails, PollFindsGone, TailPoll, TailBlip, TailLine, TailGivesUp, TailFails

-----------------------------------------------------------------------------
(* What the run got.                                                       *)

\* The run has the lines it saw of the record, then those of the mirror that
\* came after as many lines; the tail has yet to skip what it has not passed.
DeliveredIsRead ==
    /\ Len(delivered) = IF tailed > yielded THEN tailed ELSE yielded
    /\ \A i \in 1..Len(delivered) : delivered[i] = IF i <= yielded THEN record[i] ELSE mirror[i]
    /\ mode = "direct" => tailed = 0
    /\ mode = "tail" => skip = IF tailed < yielded THEN yielded - tailed ELSE 0

\* What a stream that goes on has not seen, and one that ended has.
VerdictIsSeen ==
    /\ verdict = "none" <=> mode \in {"direct", "tail"}
    /\ verdict = "none" =>
         /\ \A i \in 1..yielded : record[i] # Result
         /\ \A i \in 1..tailed : mirror[i] # Result
    /\ verdict = "live" => Contains(record, Result)
    /\ verdict = "mirrored" => Contains(mirror, Result)

\* What was read, and the page that goes on from there.
WithPage(d, r, m, k) == d \o SubSeq(r, m + 1, k)

\* A page goes on where the lines before it ended.
LEMMA PageIsJoined ==
    ASSUME NEW S, NEW d \in Seq(S), NEW r \in Seq(S), NEW m \in 0..Len(r), NEW k \in m..Len(r),
           Len(d) = m, \A i \in 1..m : d[i] = r[i]
    PROVE  /\ Len(WithPage(d, r, m, k)) = k
           /\ \A i \in 1..k : WithPage(d, r, m, k)[i] = r[i]
<1> DEFINE page == SubSeq(r, m + 1, k)
<1>1. Len(r) \in Nat
  BY LenProperties
<1>2. page \in Seq(S) /\ Len(page) = k - m /\ \A i \in 1..(k - m) : page[i] = r[m + i]
  BY Page
<1> HIDE DEF page
<1>3. /\ Len(d \o page) = m + (k - m)
      /\ \A i \in 1..m + (k - m) : (d \o page)[i] = IF i <= m THEN d[i] ELSE page[i - m]
  BY <1>2, ConcatProperties
<1>4. ASSUME NEW i \in 1..k, i > m PROVE page[i - m] = r[i]
  <2>1. i - m \in 1..(k - m) /\ m + (i - m) = i
    BY <1>1, <1>4
  <2>2. QED
    BY <1>2, <2>1
<1>5. QED
  BY <1>1, <1>3, <1>4 DEF page, WithPage

\* Every step keeps what the run got equal to the lines that were read.
LEMMA DeliveredStep ==
    ASSUME TypeOK, DeliveredIsRead, [Next]_vars
    PROVE  DeliveredIsRead'
<1> USE DEF TypeOK, DeliveredIsRead, End
<1>0. Len(record) \in Nat /\ yielded \in 0..Len(record) /\ Len(mirror) \in Nat /\ tailed \in 0..Len(mirror)
  BY LenProperties
<1>1. Extends(record, record') /\ Extends(mirror, mirror')
  BY LinesStay
<1>2. \A i \in 1..yielded : record'[i] = record[i]
  BY ONLY <1>0, <1>1 DEF Extends
<1>3. \A i \in 1..tailed : mirror'[i] = mirror[i]
  BY ONLY <1>0, <1>1 DEF Extends
<1>4. CASE UNCHANGED <<mode, yielded, skip, tailed, delivered>>
  <2>1. DeliveredIsRead
    OBVIOUS
  <2>2. ASSUME NEW i \in 1..Len(delivered) PROVE delivered'[i] = IF i <= yielded' THEN record'[i] ELSE mirror'[i]
    <3>1. (i <= yielded => i \in 1..yielded) /\ (~(i <= yielded) => i \in 1..tailed)
      BY ONLY <1>0, <2>1, <2>2 DEF DeliveredIsRead
    <3>2. delivered[i] = IF i <= yielded THEN record[i] ELSE mirror[i]
      BY ONLY <2>1, <2>2 DEF DeliveredIsRead
    <3>3. QED
      BY ONLY <1>2, <1>3, <1>4, <3>1, <3>2
  <2>3. QED
    BY ONLY <1>4, <2>1, <2>2 DEF DeliveredIsRead
<1>5. ASSUME NEW k \in 0..Len(record), Poll(k) PROVE DeliveredIsRead'
  <2>1. mode = "direct" /\ tailed = 0 /\ k \in yielded..Len(record) /\ yielded' = k /\ tailed' = 0
    BY <1>5 DEF Poll, Answers
  <2>2. delivered' = delivered \o SubSeq(record, yielded + 1, k) /\ record' = record /\ mode' \in {mode, "ended"}
    BY <1>5 DEF Poll
  <2>3. Len(delivered) = yielded /\ \A i \in 1..yielded : delivered[i] = record[i]
    BY <2>1
  <2>4. Len(delivered') = k /\ \A i \in 1..k : delivered'[i] = record[i]
    <3>1. /\ delivered \in Seq(Events) /\ record \in Seq(Events)
          /\ yielded \in 0..Len(record) /\ k \in yielded..Len(record)
      BY <2>1
    <3>2. /\ Len(WithPage(delivered, record, yielded, k)) = k
          /\ \A i \in 1..k : WithPage(delivered, record, yielded, k)[i] = record[i]
      BY ONLY <3>1, <2>3, PageIsJoined
    <3>3. delivered' = WithPage(delivered, record, yielded, k)
      BY ONLY <2>2 DEF WithPage
    <3>4. QED
      BY ONLY <3>2, <3>3
  <2>5. skip' = skip
    BY <1>5 DEF Poll
  <2>6. k \in Nat /\ mode' # "tail" /\ tailed' = 0 /\ yielded' = k /\ record' = record
    BY <2>1, <2>2
  <2>7. QED
    BY ONLY <2>4, <2>6 DEF DeliveredIsRead
<1>6. CASE PollFails
  BY <1>2, <1>3, <1>6 DEF PollFails
<1>7. CASE PollFindsGone
  BY <1>2, <1>3, <1>7 DEF PollFindsGone
<1>8. CASE TailLine
  <2>1. mode = "tail" /\ tailed' = tailed + 1 /\ yielded' = yielded /\ record' = record /\ mirror' = mirror
        /\ mode' \in {"tail", "ended"}
    BY <1>8 DEF TailLine
  <2>2. CASE skip > 0
    BY <1>8, <2>1, <2>2 DEF TailLine
  <2>3. CASE ~(skip > 0)
    <3>1. delivered' = Append(delivered, mirror[tailed + 1]) /\ skip' = skip
      BY <1>8, <2>3 DEF TailLine
    <3>2. mirror[tailed + 1] \in Events /\ Len(delivered) = tailed /\ tailed >= yielded
      BY <1>8, <2>1, <2>3 DEF TailLine
    <3>3. Len(delivered') = tailed' /\ delivered'[tailed'] = mirror[tailed']
          /\ \A i \in 1..tailed : delivered'[i] = delivered[i]
      BY <2>1, <3>1, <3>2, AppendProperties
    <3>4. ASSUME NEW i \in 1..tailed' PROVE delivered'[i] = IF i <= yielded THEN record[i] ELSE mirror[i]
      <4>1. i \in 1..tailed \/ i = tailed'
        BY <2>1
      <4>2. QED
        BY <2>1, <3>2, <3>3, <4>1
    <3>5. tailed' > yielded' /\ skip' = 0
      BY <2>1, <2>3, <3>1, <3>2
    <3>6. QED
      BY <2>1, <3>3, <3>4, <3>5
  <2>4. QED
    BY <2>2, <2>3
<1>9. CASE TailGivesUp \/ TailFails \/ Complete
  <2>1. UNCHANGED <<yielded, tailed, delivered>> /\ mode' \in {"ended", "released"}
    BY <1>9 DEF TailGivesUp, TailFails, Complete
  <2>2. QED
    BY <1>2, <1>3, <2>1
<1>10. ASSUME NEW k \in 1..Len(queue), Flush(k) PROVE UNCHANGED <<mode, yielded, skip, tailed, delivered>>
  BY <1>10 DEF Flush
<1>11. QED
  BY <1>4, <1>5, <1>6, <1>7, <1>8, <1>9, <1>10
  DEF Next, Working, Streaming, Emit, EmitToMirror, EmitResult, ShowResult, FinishRecord, Warn,
      WarnToMirror, Vanish, TailPoll, TailBlip

\* What a sequence contains it goes on to contain.
LEMMA ContainsStays ==
    ASSUME NEW S, NEW s \in Seq(S), NEW t \in Seq(S), NEW e, Extends(s, t), Contains(s, e)
    PROVE  Contains(t, e)
<1>1. PICK i \in 1..Len(s) : s[i] = e
  BY DEF Contains
<1>2. Len(s) \in Nat /\ Len(t) \in Nat /\ Len(s) <= Len(t) /\ t[i] = s[i]
  BY LenProperties DEF Extends
<1>3. i \in 1..Len(t)
  BY <1>2
<1>4. QED
  BY <1>1, <1>2, <1>3 DEF Contains

\* A page contains what the record has at its places.
LEMMA PageContains ==
    ASSUME NEW S, NEW r \in Seq(S), NEW m \in 0..Len(r), NEW k \in m..Len(r), NEW e
    PROVE  Contains(SubSeq(r, m + 1, k), e) <=> \E i \in (m + 1)..k : r[i] = e
<1> DEFINE page == SubSeq(r, m + 1, k)
<1>1. Len(r) \in Nat
  BY LenProperties
<1>2. Len(page) = k - m /\ \A i \in 1..(k - m) : page[i] = r[m + i]
  BY Page
<1> HIDE DEF page
<1>3. ASSUME NEW i \in (m + 1)..k, r[i] = e PROVE Contains(page, e)
  <2>1. i - m \in 1..Len(page) /\ m + (i - m) = i
    BY <1>1, <1>2, <1>3
  <2>2. QED
    BY <1>2, <1>3, <2>1 DEF Contains
<1>4. ASSUME Contains(page, e) PROVE \E i \in (m + 1)..k : r[i] = e
  <2>1. PICK i \in 1..(k - m) : page[i] = e
    BY <1>2, <1>4 DEF Contains
  <2>2. m + i \in (m + 1)..k /\ r[m + i] = e
    BY <1>1, <1>2, <2>1
  <2>3. QED
    BY <2>2
<1>5. QED
  BY <1>3, <1>4 DEF page

\* Every step keeps the verdict true of the lines that were seen.
LEMMA VerdictStep ==
    ASSUME TypeOK, PollsAreCounted, DeliveredIsRead, VerdictIsSeen, [Next]_vars
    PROVE  VerdictIsSeen'
<1> USE DEF TypeOK
<1>1. Extends(record, record') /\ Extends(mirror, mirror')
  BY LinesStay
<1>2. \A i \in 1..yielded : record'[i] = record[i]
  BY <1>1 DEF Extends
<1>3. \A i \in 1..tailed : mirror'[i] = mirror[i]
  BY <1>1 DEF Extends
<1>4. record' \in Seq(Events) /\ mirror' \in Seq(Events)
  BY TypeStep
<1>5. (Contains(record, Result) => Contains(record', Result)) /\ (Contains(mirror, Result) => Contains(mirror', Result))
  BY <1>1, <1>4, ContainsStays
<1>6. CASE UNCHANGED <<mode, yielded, tailed, verdict>>
  BY <1>2, <1>3, <1>5, <1>6 DEF VerdictIsSeen
<1>7. ASSUME NEW k \in 0..Len(record), Poll(k) PROVE VerdictIsSeen'
  <2>1. /\ mode = "direct" /\ verdict = "none" /\ tailed = 0 /\ k \in yielded..Len(record)
        /\ yielded' = k /\ tailed' = 0 /\ record' = record /\ mirror' = mirror
    BY <1>7 DEF Poll, Answers, VerdictIsSeen, DeliveredIsRead
  <2>2. \A i \in 1..yielded : record[i] # Result
    BY <2>1 DEF VerdictIsSeen
  <2>3. Contains(SubSeq(record, yielded + 1, k), Result) <=> \E i \in (yielded + 1)..k : record[i] = Result
    BY <2>1, PageContains
  <2>4. CASE Contains(SubSeq(record, yielded + 1, k), Result)
    <3>1. PICK i \in (yielded + 1)..k : record[i] = Result
      BY <2>3, <2>4
    <3>2. Contains(record, Result)
      <4>1. i \in 1..Len(record)
        BY <2>1
      <4>2. QED
        BY <3>1, <4>1 DEF Contains
    <3>3. mode' = "ended" /\ verdict' = "live"
      BY <1>7, <2>4 DEF Poll, End
    <3>4. QED
      BY ONLY <2>1, <3>2, <3>3 DEF VerdictIsSeen
  <2>5. CASE ~Contains(SubSeq(record, yielded + 1, k), Result)
    <3>1. \A i \in 1..k : record[i] # Result
      BY <2>1, <2>2, <2>3, <2>5
    <3>2. \/ mode' = "ended" /\ verdict' = "resultless"
          \/ mode' = mode /\ verdict' = verdict
      BY <1>7, <2>5 DEF Poll, End
    <3>3. QED
      BY ONLY <2>1, <3>1, <3>2 DEF VerdictIsSeen
  <2>6. QED
    BY <2>4, <2>5
<1>8. CASE PollFails \/ PollFindsGone
  <2>1. UNCHANGED <<yielded, tailed, verdict>> /\ mode = "direct" /\ mode' \in {"direct", "tail"}
    BY <1>8 DEF PollFails, PollFindsGone
  <2>2. QED
    BY <1>2, <1>3, <1>5, <2>1 DEF VerdictIsSeen
<1>9. CASE TailLine
  <2>1. /\ mode = "tail" /\ tailed' = tailed + 1 /\ tailed + 1 \in 1..Len(mirror)
        /\ yielded' = yielded /\ record' = record /\ mirror' = mirror
    BY <1>9 DEF TailLine
  <2>2. CASE mirror[tailed + 1] = Result
    <3>1. mode' = "ended" /\ verdict' \in {"unreachable", "mirrored"}
      BY <1>9, <2>2 DEF TailLine, End
    <3>2. Contains(mirror, Result)
      BY <2>1, <2>2 DEF Contains
    <3>3. QED
      BY ONLY <2>1, <3>1, <3>2 DEF VerdictIsSeen
  <2>3. CASE mirror[tailed + 1] # Result
    <3>1. mode' = mode /\ verdict' = verdict
      BY <1>9, <2>3 DEF TailLine
    <3>2. QED
      BY <2>1, <2>3, <3>1 DEF VerdictIsSeen
  <2>4. QED
    BY <2>2, <2>3
<1>10. CASE TailGivesUp \/ TailFails
  <2>1. mode' = "ended" /\ verdict' \in {"unreachable", "failed"}
    BY <1>10 DEF TailGivesUp, TailFails, End
  <2>2. QED
    BY <2>1 DEF VerdictIsSeen
<1>11. CASE Complete
  <2>1. mode = "ended" /\ mode' = "released" /\ UNCHANGED verdict
    BY <1>11 DEF Complete
  <2>2. QED
    BY <1>5, <2>1 DEF VerdictIsSeen
<1>12. ASSUME NEW k \in 1..Len(queue), Flush(k) PROVE UNCHANGED <<mode, yielded, tailed, verdict>>
  BY <1>12 DEF Flush
<1>13. QED
  BY <1>6, <1>7, <1>8, <1>9, <1>10, <1>11, <1>12
  DEF Next, Working, Streaming, Emit, EmitToMirror, EmitResult, ShowResult, FinishRecord, Warn,
      WarnToMirror, Vanish, TailPoll, TailBlip

-----------------------------------------------------------------------------
(* The result on record.                                                   *)

\* The live copy of the result comes after the writer's answer, and "stored"
\* is true; a run that saw the result leaves it on the mirror.
AnswerIsTrue ==
    /\ Contains(record, Result) => surfacer \in {"over", "finished"} /\ ack # "none"
    /\ ack = "stored" => Contains(mirror, Result)
    /\ ResultIsRecorded

\* Appending another event does not bring the result.
LEMMA OtherEvent ==
    ASSUME NEW S, NEW s \in Seq(S), NEW e \in S, NEW r, e # r, Contains(Append(s, e), r)
    PROVE  Contains(s, r)
<1>1. /\ Len(s) \in Nat /\ Len(Append(s, e)) = Len(s) + 1 /\ Append(s, e)[Len(s) + 1] = e
      /\ \A i \in 1..Len(s) : Append(s, e)[i] = s[i]
  BY AppendProperties, LenProperties
<1>2. PICK i \in 1..Len(s) + 1 : Append(s, e)[i] = r
  BY <1>1 DEF Contains
<1>3. i \in 1..Len(s)
  BY <1>1, <1>2
<1>4. QED
  BY <1>1, <1>2, <1>3 DEF Contains

\* What is appended is there, also at the end of a batch.
LEMMA Arrives ==
    ASSUME NEW S, NEW s \in Seq(S)
    PROVE  /\ \A e \in S : Contains(Append(s, e), e)
           /\ \A t \in Seq(S) : \A e : Contains(t, e) => Contains(s \o t, e)
<1>1. Len(s) \in Nat
  BY LenProperties
<1>2. ASSUME NEW e \in S PROVE Contains(Append(s, e), e)
  <2>1. Len(Append(s, e)) = Len(s) + 1 /\ Append(s, e)[Len(s) + 1] = e
    BY AppendProperties
  <2>2. QED
    BY <1>1, <2>1 DEF Contains
<1>3. ASSUME NEW t \in Seq(S), NEW e, Contains(t, e) PROVE Contains(s \o t, e)
  <2>1. Len(t) \in Nat
    BY LenProperties
  <2>2. PICK i \in 1..Len(t) : t[i] = e
    BY <1>3 DEF Contains
  <2>3. Len(s) + i \in 1..Len(s) + Len(t) /\ ~(Len(s) + i <= Len(s)) /\ Len(s) + i - Len(s) = i
    BY <1>1, <2>1, <2>2
  <2>4. Len(s \o t) = Len(s) + Len(t) /\ (s \o t)[Len(s) + i] = t[Len(s) + i - Len(s)]
    BY <2>3, ConcatProperties
  <2>5. QED
    BY <2>2, <2>3, <2>4 DEF Contains
<1>4. QED
  BY <1>2, <1>3

\* Every step keeps the writer's answer true, and the result recorded.
LEMMA AnswerStep ==
    ASSUME TypeOK, PollsAreCounted, VerdictIsSeen, AnswerIsTrue, [Next]_vars
    PROVE  AnswerIsTrue'
<1> USE DEF TypeOK
<1>1. Extends(mirror, mirror') /\ mirror' \in Seq(Events)
  BY LinesStay, TypeStep
<1>2. Contains(mirror, Result) => Contains(mirror', Result)
  BY <1>1, ContainsStays
<1>3. \A e \in Events : e # Result /\ Contains(Append(record, e), Result) => Contains(record, Result)
  BY OtherEvent
<1>4. CASE UNCHANGED <<record, surfacer, ack, mode, verdict, lost>>
  BY <1>2, <1>4 DEF AnswerIsTrue, ResultIsRecorded
<1>5. CASE Emit
  <2>1. ~Contains(record', Result)
    BY <1>3, <1>5, EventsDiffer DEF Emit, AnswerIsTrue
  <2>2. UNCHANGED <<ack, mode, verdict, lost, mirror>>
    BY <1>5 DEF Emit
  <2>3. QED
    BY <2>1, <2>2 DEF AnswerIsTrue, ResultIsRecorded
<1>6. CASE EmitToMirror \/ EmitResult
  <2>1. surfacer \in {"running", "recorded"} /\ UNCHANGED <<record, ack, mode, verdict, lost, mirror>>
    BY <1>6 DEF EmitToMirror, EmitResult
  <2>2. QED
    BY <2>1 DEF AnswerIsTrue, ResultIsRecorded
<1>7. CASE ShowResult
  <2>1. /\ surfacer' = "over" /\ ack' # "none" /\ (ack' = "stored" => ack = "stored")
        /\ UNCHANGED <<mode, verdict, lost, mirror>>
    BY <1>7 DEF ShowResult
  <2>2. QED
    BY <2>1 DEF AnswerIsTrue, ResultIsRecorded
<1>8. CASE FinishRecord
  <2>1. surfacer' = "finished" /\ UNCHANGED <<record, ack, mode, verdict, lost, mirror>>
    BY <1>8 DEF FinishRecord
  <2>2. QED
    BY <2>1 DEF AnswerIsTrue, ResultIsRecorded
<1>9. CASE Warn
  <2>1. Contains(record', Result) => Contains(record, Result)
    BY <1>3, <1>9, EventsDiffer DEF Warn
  <2>2. UNCHANGED <<surfacer, ack, mode, verdict, lost, mirror>>
    BY <1>9 DEF Warn
  <2>3. QED
    BY <2>1, <2>2 DEF AnswerIsTrue, ResultIsRecorded
<1>10. ASSUME NEW k \in 1..Len(queue), Flush(k) PROVE AnswerIsTrue'
  <2> DEFINE batch == SubSeq(queue, 1, k)
  <2>1. batch \in Seq(Events)
    BY Batch
  <2>2. UNCHANGED <<record, surfacer, mode, verdict>> /\ ("client" \in lost => "client" \in lost')
    BY <1>10 DEF Flush
  <2>3. CASE ack' = ack
    <3>1. "client" \in lost' => "client" \in lost
      BY <1>10 DEF Flush
    <3>2. QED
      BY <1>2, <2>2, <2>3, <3>1 DEF AnswerIsTrue, ResultIsRecorded
  <2>4. CASE ack' # ack
    <3>1. surfacer = "storing" /\ Contains(batch, Result)
      BY <1>10, <2>4 DEF Flush
    <3>2. (ack' = "stored" /\ mirror' = mirror \o batch) \/ ack' = "failed"
      BY <1>10, <2>4 DEF Flush
    <3>3. Contains(mirror \o batch, Result)
      BY <2>1, <3>1, Arrives
    <3>4. ack' # "none" /\ (ack' = "stored" => Contains(mirror', Result))
      BY <3>2, <3>3
    <3>5. QED
      BY <1>2, <2>2, <3>1, <3>4 DEF AnswerIsTrue, ResultIsRecorded
  <2>5. QED
    BY <2>3, <2>4
<1>11. ASSUME NEW k \in 0..Len(record), Poll(k) PROVE AnswerIsTrue'
  <2>1. mode' \in {"direct", "ended"} /\ UNCHANGED <<record, surfacer, ack, lost, mirror>>
    BY <1>11 DEF Poll, End
  <2>2. QED
    BY <2>1 DEF AnswerIsTrue, ResultIsRecorded
<1>12. CASE PollFails \/ PollFindsGone \/ TailLine \/ TailGivesUp \/ TailFails
  <2>1. mode' \in {"direct", "tail", "ended"} /\ UNCHANGED <<record, surfacer, ack, lost, mirror>>
    BY <1>12 DEF PollFails, PollFindsGone, TailLine, TailGivesUp, TailFails, End
  <2>2. QED
    BY <2>1 DEF AnswerIsTrue, ResultIsRecorded
<1>13. CASE Complete
  <2>1. mode = "ended" /\ UNCHANGED <<record, surfacer, ack, verdict>>
    BY <1>13 DEF Complete
  <2>2. Contains(Append(mirror, Result), Result)
    BY Arrives, EventsDiffer
  <2>3. verdict = "mirrored" => Contains(mirror', Result)
    BY <1>2 DEF VerdictIsSeen
  <2>4. CASE verdict = "live"
    <3>1. ack \in {"stored", "failed"}
      BY <2>4 DEF VerdictIsSeen, AnswerIsTrue
    <3>2. ack = "stored" => Contains(mirror', Result)
      BY <1>2 DEF AnswerIsTrue
    <3>3. ack = "failed" => Contains(mirror', Result) \/ "client" \in lost'
      BY <1>13, <2>2, <2>4 DEF Complete
    <3>4. QED
      BY <1>2, <2>1, <3>1, <3>2, <3>3 DEF AnswerIsTrue, ResultIsRecorded
  <2>5. CASE verdict # "live"
    BY <1>2, <2>1, <2>3, <2>5 DEF AnswerIsTrue, ResultIsRecorded
  <2>6. QED
    BY <2>4, <2>5
<1>14. QED
  BY <1>4, <1>5, <1>6, <1>7, <1>8, <1>9, <1>10, <1>11, <1>12, <1>13
  DEF Next, Working, Streaming, WarnToMirror, Vanish, TailPoll, TailBlip

-----------------------------------------------------------------------------
(* The theorems.                                                           *)

StreamInv ==
    TypeOK /\ PollsAreCounted /\ DeliveredIsRead /\ VerdictIsSeen /\ AnswerIsTrue

\* The initial state satisfies the invariant.
LEMMA StreamInvInit == Init => StreamInv
<1> SUFFICES ASSUME Init PROVE StreamInv
  OBVIOUS
<1> USE DEF Init
<1>1. <<>> \in Seq(Events) /\ Len(<<>>) = 0
  BY EmptySeq
<1>2. 0 \in 0..MaxEvents /\ 0 \in 0..0 /\ 0 \in 0..MaxFailures /\ 0 \in Nat
  BY StreamAssumption
<1>3. TypeOK
  BY <1>1, <1>2 DEF TypeOK
<1>4. PollsAreCounted
  BY <1>1, StreamAssumption DEF PollsAreCounted
<1>5. DeliveredIsRead
  BY <1>1 DEF DeliveredIsRead
<1>6. VerdictIsSeen
  BY <1>1 DEF VerdictIsSeen
<1>7. ~Contains(mirror, Result)
  BY <1>1 DEF Contains
<1>8. AnswerIsTrue
  BY <1>1, <1>7 DEF AnswerIsTrue, ResultIsRecorded
<1>9. QED
  BY <1>3, <1>4, <1>5, <1>6, <1>8 DEF StreamInv

\* Every step keeps the invariant.
LEMMA StreamInvStep == StreamInv /\ [Next]_vars => StreamInv'
  BY TypeStep, DeliveredStep, VerdictStep, AnswerStep DEF StreamInv

\* So it holds in every state of every behaviour.
LEMMA StreamInvariant == Spec => []StreamInv
  BY StreamInvInit, StreamInvStep, PTL DEF Spec

\* Every variable keeps its type, for any number of events and failures.
THEOREM StreamTypes == Spec => []TypeOK
<1>1. StreamInv => TypeOK
  BY DEF StreamInv
<1>2. QED
  BY <1>1, StreamInvariant, PTL

\* A run that saw the result leaves it on the mirror before its sandbox goes,
\* unless the client's own write failed: surface waits for the writer before
\* it shows the result, and _mirror_result makes up for the writer.
THEOREM ResultRecorded == Spec => []ResultIsRecorded
<1>1. StreamInv => ResultIsRecorded
  BY DEF StreamInv, AnswerIsTrue
<1>2. QED
  BY <1>1, StreamInvariant, PTL

\* While the mirror agrees with the live record the switch between them is
\* seamless, wherever it falls (_stream_turn's skip).
THEOREM SeamlessSwitch == Spec => []SwitchIsSeamless
<1>1. ASSUME TypeOK, DeliveredIsRead, Agree
      PROVE  IsPrefix(delivered, record) \/ IsPrefix(delivered, mirror)
  <2> USE DEF TypeOK
  <2>1. /\ Len(record) \in Nat /\ Len(mirror) \in Nat /\ Len(delivered) \in Nat
        /\ yielded \in 0..Len(record) /\ tailed \in 0..Len(mirror)
    BY <1>1, LenProperties
  <2>2. /\ Len(delivered) = IF tailed > yielded THEN tailed ELSE yielded
        /\ \A i \in 1..Len(delivered) : delivered[i] = IF i <= yielded THEN record[i] ELSE mirror[i]
    BY <1>1 DEF DeliveredIsRead
  <2>3. Extends(mirror, record) \/ Extends(record, mirror)
    BY <1>1, PrefixIsExtends DEF Agree
  <2>4. CASE Len(delivered) = yielded
    <3>1. Extends(delivered, record)
      BY ONLY <2>1, <2>2, <2>4 DEF Extends
    <3>2. QED
      BY <1>1, <3>1, PrefixIsExtends
  <2>5. CASE Len(delivered) = tailed /\ Extends(mirror, record)
    <3>1. Extends(delivered, record)
      BY ONLY <2>1, <2>2, <2>5 DEF Extends
    <3>2. QED
      BY <1>1, <3>1, PrefixIsExtends
  <2>6. CASE Len(delivered) = tailed /\ Extends(record, mirror)
    <3>1. Extends(delivered, mirror)
      BY ONLY <2>1, <2>2, <2>6 DEF Extends
    <3>2. QED
      BY <1>1, <3>1, PrefixIsExtends
  <2>7. QED
    BY <2>2, <2>3, <2>4, <2>5, <2>6
<1>2. StreamInv => SwitchIsSeamless
  BY <1>1 DEF StreamInv, SwitchIsSeamless
<1>3. QED
  BY <1>2, StreamInvariant, PTL

\* While they agree no run is told that there is no result when the last look
\* at the mirror showed one: a line that is skipped was seen before, and a
\* result that was seen has ended the stream.
THEOREM TruthfulEnd == Spec => EndsTruthfully
<1> DEFINE Truthful == Agree /\ verdict = "none" /\ verdict' = "unreachable"
                         => ~Contains(SubSeq(mirror, 1, listed), Result)
<1>1. ASSUME StreamInv, Next, Agree, verdict = "none", verdict' = "unreachable"
      PROVE  ~Contains(SubSeq(mirror, 1, listed), Result)
  <2> USE DEF StreamInv, TypeOK
  <2>1. /\ \A i \in 1..yielded : record[i] # Result
        /\ \A i \in 1..tailed : mirror[i] # Result
    BY <1>1 DEF VerdictIsSeen
  <2>2. CASE TailGivesUp
    <3>1. tailed = listed
      BY <2>2 DEF TailGivesUp
    <3>2. /\ mirror \in Seq(Events) /\ 0 \in 0..Len(mirror) /\ listed \in 0..Len(mirror)
      BY <1>1, LenProperties
    <3>3. Contains(SubSeq(mirror, 0 + 1, listed), Result) <=> \E i \in (0 + 1)..listed : mirror[i] = Result
      BY ONLY <3>2, PageContains
    <3>4. QED
      BY <2>1, <3>1, <3>3
  <2>3. CASE TailLine
    <3>1. /\ mode = "tail" /\ skip > 0 /\ tailed < listed /\ mirror[tailed + 1] = Result
      BY <1>1, <2>3 DEF TailLine, End
    <3>2. tailed + 1 \in 1..yielded
      BY <1>1, <3>1 DEF DeliveredIsRead
    <3>3. Extends(mirror, record) \/ Extends(record, mirror)
      BY <1>1, PrefixIsExtends DEF Agree
    <3>4. tailed + 1 \in 1..Len(mirror) /\ tailed + 1 \in 1..Len(record)
      BY <1>1, <3>1, <3>2, LenProperties
    <3>5. record[tailed + 1] = mirror[tailed + 1]
      BY ONLY <3>3, <3>4 DEF Extends
    <3>6. QED
      BY <2>1, <3>1, <3>2, <3>5
  <2>4. TailGivesUp \/ TailLine
    BY <1>1 DEF Next, Working, Streaming, Emit, EmitToMirror, EmitResult, ShowResult, FinishRecord, Warn,
       WarnToMirror, Vanish, Flush, Poll, PollFails, PollFindsGone, TailPoll, TailBlip, TailFails, Complete, End
  <2>5. QED
    BY <2>2, <2>3, <2>4
<1>2. StreamInv /\ [Next]_vars => [Truthful]_vars
  BY <1>1
<1>3. QED
  BY <1>2, StreamInvariant, PTL DEF Spec, EndsTruthfully

=============================================================================
