---------------------------- MODULE HarnessProofs ----------------------------
(***************************************************************************)
(* Proofs about the harnesses' components as MCHarness puts them together, *)
(* for every value of the constants. A part that rests keeps its           *)
(* invariant, so each component's is proved from its own Next alone.       *)
(***************************************************************************)
EXTENDS MCHarness, FiniteSetTheorems, SequenceTheorems, TLAPS

-----------------------------------------------------------------------------
(* The OpenRouter proxy.                                                   *)

\* A step of the whole is a step of the proxy, or leaves it alone.
LEMMA ProxyMoves == [Next]_vars => [Proxy!Next /\ UNCHANGED <<budget, binding>>]_proxy
<1>1. part = "proxy" /\ Next => Proxy!Next /\ UNCHANGED <<budget, binding>>
  BY DEF Next
<1>2. part # "proxy" /\ Next => UNCHANGED proxy
  BY DEF Next
<1>3. UNCHANGED vars => UNCHANGED proxy
  BY DEF vars
<1>4. QED
  BY <1>1, <1>2, <1>3

\* The one answer to a request, once there is one.
AnswerTo(r) == CHOOSE a \in answer[r] : TRUE

CliStates == {"unsent", "open", "seen", "failed", "refused", "left"}
Answers   == [ok : BOOLEAN, charge : Costs \cup {0}, cost : Costs \cup {NoCost}]
Records   == [of : Requests, cost : Costs \cup {NoCost}]
Limits    == {"none", "max_turns", "budget"}
Phases    == {"running", "waiting", "draining", "telling", "quoting", "ended"}

CallTypes ==
    /\ cli \in [Requests -> CliStates]
    /\ handler \in [Requests -> Proxy!Stages]
    /\ up \in [Requests -> {"none", "head", "tail"}]
    /\ got \in [Requests -> {"none", "head", "tail"}]
    /\ link \in [Requests -> {"open", "eof", "cut"}]
    /\ answer \in [Requests -> SUBSET Answers]

RecordTypes ==
    /\ budget \in Budgets /\ binding \in {"claude", "codex"}
    /\ records \in Seq(Records) /\ told \in Seq(Records)
    /\ drained \in Nat /\ drained <= Len(records)
    /\ blocked \in BOOLEAN /\ p_limit \in Limits /\ complete \in BOOLEAN /\ unknown \in BOOLEAN
    /\ p_phase \in Phases

ProxyTypes == CallTypes /\ RecordTypes

\* _active_requests counts the handlers between the first check and their end.
Busy == {r \in Requests : handler[r] \in {"calling", "reading", "captured", "recorded"}}

HandlersAreCounted == active = Cardinality(Busy)

\* Where a handler stands says what the CLI and OpenRouter have.
HandlersAreConsistent ==
    \A r \in Requests :
        /\ cli[r] = "unsent" => handler[r] = "none"
        /\ handler[r] \in {"reading", "captured", "recorded"} => answer[r] # {}
        /\ answer[r] # {} => handler[r] \in {"reading", "captured", "recorded", "done"}
        /\ cli[r] = "seen" => /\ handler[r] \in {"captured", "recorded", "done"}
                              /\ got[r] = "tail" /\ answer[r] # {}
        /\ cli[r] = "refused" => blocked
        /\ budget = 0 => handler[r] \in {"none", "check", "done"} /\ answer[r] = {}

\* The record of what a request that the CLI has whole was charged.
RecordedIn(r, n) == \E i \in 1..n : records[i] = [of |-> r, cost |-> AnswerTo(r).cost]
Chargeable(r) == cli[r] = "seen" /\ AnswerTo(r).cost # NoCost

RecordsAreConsistent ==
    /\ \A i \in 1..Len(records) : handler[records[i].of] \in {"recorded", "done"}
    /\ \A i, j \in 1..Len(records) : records[i].of = records[j].of => i = j
    /\ Len(told) = drained /\ \A i \in 1..drained : told[i] = records[i]
    /\ \A r \in Requests :
          handler[r] \in {"recorded", "done"} /\ Chargeable(r) => RecordedIn(r, Len(records))

\* A spent cap, or a refusal, is the verdict.
VerdictHolds(cost, verdict) ==
    /\ Proxy!Reaches(cost) => verdict = "budget" \/ (binding = "codex" /\ verdict = "max_turns")
    /\ (\E r \in due : cli[r] = "refused") => verdict = "budget"

\* What the end of the turn has established.
EndIsConsistent ==
    /\ p_phase = "running" => due = {}
    /\ due \subseteq {r \in Requests : cli[r] \in {"seen", "refused"}}
    /\ complete => /\ p_phase \notin {"running", "waiting"}
                   /\ \A r \in due : cli[r] = "seen" => handler[r] = "done"
    /\ complete /\ p_phase \in {"telling", "quoting", "ended"} =>
          \A r \in due : Chargeable(r) => RecordedIn(r, drained)
    /\ p_phase = "quoting" /\ binding = "codex" =>
          /\ Proxy!Reaches(exact) => p_limit # "none"
          /\ (\E r \in due : cli[r] = "refused") => p_limit = "budget"
    /\ p_result # {} => p_phase = "ended"
    /\ \A q \in p_result : ~q.settled => VerdictHolds(q.cost, q.verdict)

ProxyInv ==
    /\ ProxyTypes
    /\ HandlersAreCounted
    /\ HandlersAreConsistent
    /\ RecordsAreConsistent
    /\ EndIsConsistent

USE DEF Proxy!vars, Proxy!calls, Proxy!ledger, Proxy!turn, Proxy!Go, Proxy!Hears

ProxyStep == Proxy!Next /\ UNCHANGED <<budget, binding>>

LEMMA AnswerIsTyped ==
    ASSUME ProxyTypes, NEW r \in Requests, answer[r] # {}
    PROVE  AnswerTo(r) \in answer[r] /\ AnswerTo(r) \in Answers
BY DEF ProxyTypes, CallTypes, AnswerTo

\* _capture_request records a response once or not at all, and its charge
\* when it has the tail that reports one.
LEMMA FoundIsOne ==
    ASSUME ProxyTypes, NEW r \in Requests, answer[r] # {}, NEW found \in Proxy!Found(r)
    PROVE  /\ \/ found = <<>>
              \/ \E x \in Records : x.of = r /\ found = <<x>>
           /\ got[r] = "tail" /\ AnswerTo(r).cost # NoCost =>
                found = <<[of |-> r, cost |-> AnswerTo(r).cost]>>
<1> DEFINE a == AnswerTo(r)
           whole == [of |-> r, cost |-> a.cost]
           partial == [of |-> r, cost |-> NoCost]
<1>1. a \in Answers
  BY AnswerIsTyped
<1>2. whole \in Records /\ partial \in Records /\ whole.of = r /\ partial.of = r
  BY <1>1 DEF Answers, Records
<1>3. /\ got[r] = "tail" /\ a.cost # NoCost => found = <<whole>>
      /\ found \in {<<>>, <<whole>>, <<partial>>}
  BY DEF Proxy!Found, AnswerTo
<1> HIDE DEF whole, partial
<1>4. QED
  BY <1>2, <1>3 DEF whole

\* The step of one handler.
HandlerStep(r) ==
    \/ Proxy!Refuse(r) \/ Proxy!Admit(r) \/ Proxy!Reject(r) \/ Proxy!Begin(r) \/ Proxy!ConnectFails(r)
    \/ Proxy!ReadRest(r) \/ Proxy!ReadIncomplete(r) \/ Proxy!End(r)
    \/ Proxy!Respond(r) \/ Proxy!ReadHead(r) \/ Proxy!ReadTimesOut(r)

LEMMA CallTypesStep ==
    ASSUME CallTypes, ProxyStep
    PROVE  CallTypes'
<1> USE DEF CallTypes, CliStates, Proxy!Stages
<1>1. ASSUME NEW r \in Requests, Proxy!Send(r) \/ Proxy!Leave(r) \/ Proxy!UpEnds(r) PROVE CallTypes'
  BY <1>1 DEF Proxy!Send, Proxy!Leave, Proxy!UpEnds
<1>2. ASSUME NEW r \in Requests,
             Proxy!Refuse(r) \/ Proxy!Admit(r) \/ Proxy!Reject(r) \/ Proxy!Begin(r) \/ Proxy!ConnectFails(r)
      PROVE  CallTypes'
  BY <1>2 DEF Proxy!Refuse, Proxy!Admit, Proxy!Reject, Proxy!Begin, Proxy!ConnectFails
<1>3. ASSUME NEW r \in Requests,
             Proxy!ReadRest(r) \/ Proxy!ReadIncomplete(r) \/ Proxy!End(r) \/ Proxy!ReadHead(r) \/ Proxy!ReadTimesOut(r)
             \/ Proxy!Record(r)
      PROVE  CallTypes'
  BY <1>3 DEF Proxy!ReadRest, Proxy!ReadIncomplete, Proxy!End, Proxy!ReadHead, Proxy!ReadTimesOut, Proxy!Record
<1>4. ASSUME NEW r \in Requests, Proxy!Respond(r) PROVE CallTypes'
  <2>1. PICK a \in Answers : answer' = [answer EXCEPT ![r] = {a}]
    BY <1>4 DEF Proxy!Respond, Answers
  <2>2. answer' \in [Requests -> SUBSET Answers]
    BY <2>1
  <2>3. QED
    BY <1>4, <2>2 DEF Proxy!Respond
<1>5. ASSUME UNCHANGED Proxy!calls PROVE CallTypes'
  BY <1>5
<1>6. ASSUME Proxy!CliEnds \/ Proxy!Drain \/ Proxy!CapStop \/ Proxy!StopSettles \/ Proxy!Harness
      PROVE  UNCHANGED Proxy!calls
  BY <1>6
     DEF Proxy!CliEnds, Proxy!Drain, Proxy!CapStop, Proxy!Harness, Proxy!WaitIdle, Proxy!DrainLast,
         Proxy!Tell, Proxy!QuoteCodex, Proxy!QuoteClaude, Proxy!StopSettles,
         Proxy!Ends
<1>7. QED
  BY <1>1, <1>2, <1>3, <1>4, <1>5, <1>6 DEF ProxyStep, Proxy!Next, Proxy!Handle

\* What a handler's step other than Record leaves of the records.
LEMMA LedgerFrame ==
    ASSUME NEW r \in Requests, HandlerStep(r) \/ Proxy!Send(r) \/ Proxy!Leave(r) \/ Proxy!UpEnds(r)
    PROVE  /\ UNCHANGED <<records, drained, told, Proxy!turn>>
           /\ blocked \in BOOLEAN => blocked' \in BOOLEAN
BY DEF HandlerStep, Proxy!Send, Proxy!Leave, Proxy!UpEnds, Proxy!Refuse, Proxy!Admit, Proxy!Reject, Proxy!Begin,
       Proxy!ConnectFails, Proxy!ReadRest, Proxy!ReadIncomplete, Proxy!End, Proxy!Respond, Proxy!ReadHead,
       Proxy!ReadTimesOut

LEMMA ProxyTypesStep ==
    ASSUME ProxyInv, ProxyStep
    PROVE  ProxyTypes'
<1>1. CallTypes'
  BY CallTypesStep DEF ProxyInv, ProxyTypes
<1> USE DEF ProxyInv, ProxyTypes, RecordTypes, Phases, Limits, Proxy!Verdict
<1>2. ASSUME NEW r \in Requests, HandlerStep(r) \/ Proxy!Send(r) \/ Proxy!Leave(r) \/ Proxy!UpEnds(r)
      PROVE RecordTypes'
  BY <1>2, LedgerFrame DEF ProxyStep
<1>3. ASSUME NEW r \in Requests, Proxy!Record(r) PROVE RecordTypes'
  <2>1. answer[r] # {}
    BY <1>3 DEF Proxy!Record, HandlersAreConsistent
  <2>2. PICK found \in Proxy!Found(r) : records' = records \o found
    BY <1>3 DEF Proxy!Record
  <2>3. found \in Seq(Records)
    <3>1. <<>> \in Seq(Records) /\ \A x \in Records : <<x>> \in Seq(Records)
      OBVIOUS
    <3>2. found = <<>> \/ \E x \in Records : found = <<x>>
      BY <2>1, FoundIsOne
    <3>3. QED
      BY <3>1, <3>2
  <2>4. records' \in Seq(Records) /\ Len(records') = Len(records) + Len(found) /\ Len(found) \in Nat
    BY <2>2, <2>3
  <2>5. UNCHANGED <<drained, blocked, told, p_limit, complete, unknown, p_phase, budget, binding>>
    BY <1>3 DEF Proxy!Record, ProxyStep
  <2>6. QED
    BY <2>4, <2>5
<1>4. ASSUME Proxy!Drained PROVE told' \in Seq(Records) /\ drained' \in Nat /\ drained' = Len(records)
  <2>1. SubSeq(records, drained + 1, Len(records)) \in Seq(Records)
    BY SubSeqProperties
  <2>2. QED
    BY <1>4, <2>1 DEF Proxy!Drained
<1>5. ASSUME Proxy!Drain \/ Proxy!DrainLast PROVE RecordTypes'
  BY <1>4, <1>5 DEF Proxy!Drain, Proxy!DrainLast, ProxyStep
<1>6. ASSUME Proxy!CliEnds \/ Proxy!CapStop \/ Proxy!WaitIdle \/ Proxy!Tell \/ Proxy!QuoteCodex \/ Proxy!QuoteClaude
             \/ Proxy!StopSettles
      PROVE  RecordTypes'
  BY <1>6 DEF Proxy!CliEnds, Proxy!CapStop, Proxy!WaitIdle, Proxy!Tell, Proxy!QuoteCodex, Proxy!QuoteClaude, Proxy!StopSettles,
         Proxy!Ends, ProxyStep
<1>7. QED
  BY <1>1, <1>2, <1>3, <1>5, <1>6 DEF ProxyStep, Proxy!Next, Proxy!Handle, Proxy!Harness, HandlerStep

\* A handler is counted from Begin to its end, whichever way it ends.
LEMMA CountedStep ==
    ASSUME IsFiniteSet(Requests), ProxyInv, ProxyStep
    PROVE  HandlersAreCounted'
<1> USE DEF ProxyInv, ProxyTypes, CallTypes, HandlersAreCounted
<1>1. IsFiniteSet(Busy) /\ Cardinality(Busy) \in Nat
  BY FS_Subset, FS_CardinalityType DEF Busy
<1>2. ASSUME UNCHANGED active, Busy' = Busy PROVE HandlersAreCounted'
  BY <1>2
<1>3. ASSUME NEW r \in Requests, NEW w, handler' = [handler EXCEPT ![r] = w]
      PROVE  Busy' = IF w \in {"calling", "reading", "captured", "recorded"} THEN Busy \cup {r} ELSE Busy \ {r}
  BY <1>3 DEF Busy
<1>4. ASSUME NEW r \in Requests, Proxy!Begin(r) PROVE HandlersAreCounted'
  <2>1. r \notin Busy /\ Busy' = Busy \cup {r}
    BY <1>3, <1>4 DEF Proxy!Begin, Busy
  <2>2. QED
    BY <1>1, <1>4, <2>1, FS_AddElement DEF Proxy!Begin
<1>5. ASSUME NEW r \in Requests, Proxy!ConnectFails(r) \/ Proxy!ReadIncomplete(r) \/ Proxy!End(r)
      PROVE HandlersAreCounted'
  <2>1. r \in Busy /\ Busy' = Busy \ {r} /\ active' = active - 1
    BY <1>3, <1>5 DEF Proxy!ConnectFails, Proxy!ReadIncomplete, Proxy!End, Busy
  <2>2. QED
    BY <1>1, <2>1, FS_RemoveElement
<1>6. ASSUME NEW r \in Requests, Proxy!Send(r) \/ Proxy!Refuse(r) \/ Proxy!Admit(r) \/ Proxy!Reject(r)
      PROVE HandlersAreCounted'
  <2>1. r \notin Busy /\ Busy' = Busy \ {r}
    BY <1>3, <1>6 DEF Proxy!Send, Proxy!Refuse, Proxy!Admit, Proxy!Reject, Busy, HandlersAreConsistent
  <2>2. QED
    BY <1>2, <1>6, <2>1 DEF Proxy!Send, Proxy!Refuse, Proxy!Admit, Proxy!Reject
<1>7. ASSUME NEW r \in Requests,
             Proxy!ReadRest(r) \/ Proxy!Respond(r) \/ Proxy!ReadHead(r) \/ Proxy!ReadTimesOut(r) \/ Proxy!Record(r)
      PROVE HandlersAreCounted'
  <2>1. r \in Busy /\ Busy' = Busy \cup {r}
    BY <1>3, <1>7 DEF Proxy!ReadRest, Proxy!Respond, Proxy!ReadHead, Proxy!ReadTimesOut, Proxy!Record, Busy
  <2>2. QED
    BY <1>2, <1>7, <2>1 DEF Proxy!ReadRest, Proxy!Respond, Proxy!ReadHead, Proxy!ReadTimesOut, Proxy!Record
<1>8. ASSUME UNCHANGED <<active, handler>> PROVE HandlersAreCounted'
  BY <1>2, <1>8 DEF Busy
<1>9. ASSUME NEW r \in Requests, Proxy!Leave(r) \/ Proxy!UpEnds(r) PROVE HandlersAreCounted'
  BY <1>8, <1>9 DEF Proxy!Leave, Proxy!UpEnds
<1>10. ASSUME Proxy!CliEnds \/ Proxy!Drain \/ Proxy!CapStop \/ Proxy!StopSettles \/ Proxy!Harness
      PROVE  HandlersAreCounted'
  BY <1>8, <1>10
     DEF Proxy!CliEnds, Proxy!Drain, Proxy!CapStop, Proxy!Harness, Proxy!WaitIdle, Proxy!DrainLast,
         Proxy!Tell, Proxy!QuoteCodex, Proxy!QuoteClaude, Proxy!StopSettles,
         Proxy!Ends
<1>11. QED
  BY <1>4, <1>5, <1>6, <1>7, <1>9, <1>10 DEF ProxyStep, Proxy!Next, Proxy!Handle

\* A request is seen whole, refused or left alone as its handler says.
LEMMA HandlersStep ==
    ASSUME ProxyInv, ProxyStep
    PROVE  HandlersAreConsistent'
<1> USE DEF ProxyInv, ProxyTypes, CallTypes, RecordTypes, HandlersAreConsistent, CliStates
<1>1. ASSUME NEW r \in Requests, Proxy!Send(r) \/ Proxy!Leave(r) \/ Proxy!UpEnds(r) PROVE HandlersAreConsistent'
  BY <1>1 DEF Proxy!Send, Proxy!Leave, Proxy!UpEnds, ProxyStep
<1>2. ASSUME NEW r \in Requests,
             Proxy!Refuse(r) \/ Proxy!Admit(r) \/ Proxy!Reject(r) \/ Proxy!Begin(r) \/ Proxy!ConnectFails(r)
      PROVE  HandlersAreConsistent'
  BY <1>2, SMTT(30) DEF Proxy!Refuse, Proxy!Admit, Proxy!Reject, Proxy!Begin, Proxy!ConnectFails, Proxy!OverBudget, ProxyStep
<1>3. ASSUME NEW r \in Requests,
             Proxy!ReadRest(r) \/ Proxy!ReadIncomplete(r) \/ Proxy!End(r) \/ Proxy!ReadHead(r) \/ Proxy!ReadTimesOut(r)
             \/ Proxy!Record(r)
      PROVE  HandlersAreConsistent'
  BY <1>3 DEF Proxy!ReadRest, Proxy!ReadIncomplete, Proxy!End, Proxy!ReadHead, Proxy!ReadTimesOut, Proxy!Record, ProxyStep
<1>4. ASSUME NEW r \in Requests, Proxy!Respond(r) PROVE HandlersAreConsistent'
  <2>1. PICK a : answer' = [answer EXCEPT ![r] = {a}]
    BY <1>4 DEF Proxy!Respond
  <2>2. QED
    BY <1>4, <2>1 DEF Proxy!Respond, ProxyStep
<1>5. ASSUME Proxy!CliEnds \/ Proxy!Drain \/ Proxy!CapStop \/ Proxy!StopSettles \/ Proxy!Harness
      PROVE  HandlersAreConsistent'
  BY <1>5
     DEF Proxy!CliEnds, Proxy!Drain, Proxy!CapStop, Proxy!Harness, Proxy!WaitIdle, Proxy!DrainLast,
         Proxy!Tell, Proxy!QuoteCodex, Proxy!QuoteClaude, Proxy!StopSettles,
         Proxy!Ends, ProxyStep, Proxy!Drained
<1>6. QED
  BY <1>1, <1>2, <1>3, <1>4, <1>5 DEF ProxyStep, Proxy!Next, Proxy!Handle

\* A handler's step other than Record changes no request's answer once the
\* CLI has it whole, and takes no handler out of "recorded" but to its end.
LEMMA SeenStays ==
    ASSUME ProxyInv, NEW r \in Requests, HandlerStep(r) \/ Proxy!Send(r) \/ Proxy!Leave(r) \/ Proxy!UpEnds(r)
    PROVE  \A q \in Requests :
             /\ handler[q] \in {"recorded", "done"} => handler'[q] \in {"recorded", "done"}
             /\ handler[q] = "done" => handler'[q] = "done"
             /\ handler'[q] \in {"recorded", "done"} /\ cli'[q] = "seen" =>
                  handler[q] \in {"recorded", "done"} /\ cli[q] = "seen"
             /\ cli[q] \in {"seen", "refused"} => cli'[q] = cli[q] /\ AnswerTo(q)' = AnswerTo(q)
             /\ handler[q] \in {"recorded", "done"} => AnswerTo(q)' = AnswerTo(q)
<1> USE DEF ProxyInv, ProxyTypes, CallTypes, HandlersAreConsistent, AnswerTo
<1>1. CASE Proxy!Send(r) \/ Proxy!Leave(r) \/ Proxy!UpEnds(r)
  BY <1>1 DEF Proxy!Send, Proxy!Leave, Proxy!UpEnds
<1>2. CASE Proxy!Refuse(r) \/ Proxy!Admit(r) \/ Proxy!Reject(r) \/ Proxy!Begin(r) \/ Proxy!ConnectFails(r)
  BY <1>2 DEF Proxy!Refuse, Proxy!Admit, Proxy!Reject, Proxy!Begin, Proxy!ConnectFails
<1>3. CASE Proxy!ReadRest(r) \/ Proxy!ReadIncomplete(r) \/ Proxy!End(r) \/ Proxy!ReadHead(r) \/ Proxy!ReadTimesOut(r)
  BY <1>3 DEF Proxy!ReadRest, Proxy!ReadIncomplete, Proxy!End, Proxy!ReadHead, Proxy!ReadTimesOut
<1>4. CASE Proxy!Respond(r)
  <2>1. PICK a : answer' = [answer EXCEPT ![r] = {a}]
    BY <1>4 DEF Proxy!Respond
  <2>2. QED
    BY <1>4, <2>1 DEF Proxy!Respond
<1>5. QED
  BY <1>1, <1>2, <1>3, <1>4, Zenon DEF HandlerStep

\* Each response is recorded once, and told in the order of the records.
LEMMA RecordsStep ==
    ASSUME ProxyInv, ProxyStep
    PROVE  RecordsAreConsistent'
<1> USE DEF RecordsAreConsistent, Chargeable, RecordedIn
<1>0. /\ records \in Seq(Records) /\ \A i \in 1..Len(records) : records[i].of \in Requests
      /\ drained \in Nat /\ drained <= Len(records) /\ Len(records) \in Nat
      /\ told \in Seq(Records) /\ RecordsAreConsistent
      /\ handler \in [Requests -> Proxy!Stages]
  <2>1. /\ records \in Seq(Records) /\ told \in Seq(Records) /\ drained \in Nat /\ drained <= Len(records)
        /\ handler \in [Requests -> Proxy!Stages] /\ RecordsAreConsistent
    BY DEF ProxyInv, ProxyTypes, RecordTypes, CallTypes
  <2>2. Len(records) \in Nat /\ \A i \in 1..Len(records) : records[i] \in Records
    BY <2>1
  <2>3. \A x \in Records : x.of \in Requests
    BY DEF Records
  <2>4. QED
    BY <2>1, <2>2, <2>3
<1>1. ASSUME NEW r \in Requests, HandlerStep(r) \/ Proxy!Send(r) \/ Proxy!Leave(r) \/ Proxy!UpEnds(r)
      PROVE  RecordsAreConsistent'
  <2>1. UNCHANGED <<records, drained, told>>
    BY <1>1, LedgerFrame
  <2>2. QED
    BY <1>0, <1>1, <2>1, SeenStays
<1>2. ASSUME NEW r \in Requests, Proxy!Record(r) PROVE RecordsAreConsistent'
  <2>1. answer[r] # {} /\ handler[r] = "captured" /\ ProxyTypes
        /\ (cli[r] = "seen" => got[r] = "tail")
    BY <1>2 DEF Proxy!Record, ProxyInv, HandlersAreConsistent
  <2>2. PICK found \in Proxy!Found(r) : records' = records \o found
    BY <1>2 DEF Proxy!Record
  <2>3. /\ UNCHANGED <<cli, answer, drained, told>>
        /\ handler' = [handler EXCEPT ![r] = "recorded"]
    BY <1>2 DEF Proxy!Record
  <2>4. \A q \in Requests : AnswerTo(q)' = AnswerTo(q)
    BY <2>3 DEF AnswerTo
  <2>5. /\ found = <<>> \/ \E x \in Records : x.of = r /\ found = <<x>>
        /\ got[r] = "tail" /\ AnswerTo(r).cost # NoCost =>
             found = <<[of |-> r, cost |-> AnswerTo(r).cost]>>
    BY <2>1, <2>2, FoundIsOne
  <2>6. CASE found = <<>>
    <3>1. records' = records /\ ~Chargeable(r)
      BY <1>0, <2>1, <2>2, <2>5, <2>6
    <3>2. QED
      BY <1>0, <2>3, <2>4, <3>1
  <2>7. ASSUME NEW x \in Records, x.of = r, found = <<x>> PROVE RecordsAreConsistent'
    <3>1. records' = Append(records, x)
      BY <1>0, <2>2, <2>7
    <3>2. /\ Len(records') = Len(records) + 1
          /\ records'[Len(records) + 1] = x
          /\ \A i \in 1..Len(records) : records'[i] = records[i]
      BY <1>0, <3>1
    <3>3. \A i \in 1..Len(records) : records[i].of # r
      BY <1>0, <2>1
    <3>4. Chargeable(r) => x = [of |-> r, cost |-> AnswerTo(r).cost]
      BY <2>1, <2>5, <2>7
    <3>5. \A q \in Requests : Chargeable(q)' = Chargeable(q)
      BY <2>3, <2>4
    <3>6. ASSUME NEW q \in Requests, handler'[q] \in {"recorded", "done"}, Chargeable(q)'
          PROVE  RecordedIn(q, Len(records))'
      <4>1. CASE q = r
        BY <1>0, <2>4, <3>2, <3>4, <3>5, <3>6, <4>1
      <4>2. CASE q # r
        <5>1. PICK i \in 1..Len(records) : records[i] = [of |-> q, cost |-> AnswerTo(q).cost]
          BY <1>0, <2>3, <3>5, <3>6, <4>2
        <5>2. QED
          BY <1>0, <2>4, <3>2, <5>1
      <4>3. QED
        BY <4>1, <4>2
    <3>7. \A i \in 1..Len(records') : handler'[records'[i].of] \in {"recorded", "done"}
      BY <1>0, <2>3, <2>7, <3>2
    <3>8. \A i, j \in 1..Len(records') : records'[i].of = records'[j].of => i = j
      BY <1>0, <2>7, <3>2, <3>3
    <3>9. Len(told') = drained' /\ \A i \in 1..drained' : told'[i] = records'[i]
      BY <1>0, <2>3, <3>2
    <3>10. QED
      BY <3>6, <3>7, <3>8, <3>9
  <2>8. QED
    BY <2>5, <2>6, <2>7
<1>3. ASSUME Proxy!Drained
      PROVE  drained' = Len(records) /\ Len(told') = Len(records) /\ \A i \in 1..Len(records) : told'[i] = records[i]
  <2> DEFINE new == SubSeq(records, drained + 1, Len(records))
  <2>1. /\ new \in Seq(Records) /\ Len(new) = Len(records) - drained
        /\ \A i \in 1..(Len(records) - drained) : new[i] = records[drained + i]
    BY <1>0, SubSeqProperties
  <2>2. told' = told \o new /\ drained' = Len(records)
    BY <1>3 DEF Proxy!Drained
  <2> HIDE DEF new
  <2>3. Len(told') = Len(records)
    BY <1>0, <2>1, <2>2
  <2>4. ASSUME NEW i \in 1..Len(records) PROVE told'[i] = records[i]
    <3>1. CASE i <= drained
      BY <1>0, <2>1, <2>2, <3>1
    <3>2. CASE i > drained
      <4>1. told'[i] = new[i - drained] /\ i - drained \in 1..(Len(records) - drained)
        BY <1>0, <2>1, <2>2, <3>2
      <4>2. QED
        BY <1>0, <2>1, <4>1
    <3>3. QED
      BY <1>0, <3>1, <3>2
  <2>5. QED
    BY <2>2, <2>3, <2>4
<1>4. ASSUME Proxy!Drain \/ Proxy!DrainLast PROVE RecordsAreConsistent'
  <2>1. UNCHANGED <<records, cli, handler, answer>>
    BY <1>4 DEF Proxy!Drain, Proxy!DrainLast
  <2>2. Proxy!Drained
    BY <1>4 DEF Proxy!Drain, Proxy!DrainLast
  <2>3. QED
    <3>1. \A r \in Requests : AnswerTo(r)' = AnswerTo(r)
      BY <2>1 DEF AnswerTo
    <3>2. QED
      BY <1>0, <1>3, <2>1, <2>2, <3>1
<1>5. ASSUME Proxy!CliEnds \/ Proxy!CapStop \/ Proxy!StopSettles \/ Proxy!WaitIdle \/ Proxy!Tell \/ Proxy!QuoteCodex \/ Proxy!QuoteClaude
      PROVE  RecordsAreConsistent'
  <2>1. UNCHANGED <<records, cli, handler, answer, drained, told>>
    BY <1>5 DEF Proxy!CliEnds, Proxy!CapStop, Proxy!WaitIdle, Proxy!Tell, Proxy!QuoteCodex, Proxy!QuoteClaude, Proxy!StopSettles,
         Proxy!Ends
  <2>8. \A q : AnswerTo(q)' = AnswerTo(q)
    BY <2>1 DEF AnswerTo
  <2>9. QED
    BY <1>0, <2>1, <2>8
<1>6. QED
  BY <1>1, <1>2, <1>4, <1>5 DEF ProxyStep, Proxy!Next, Proxy!Handle, Proxy!Harness, HandlerStep

\* The end of the turn keeps what its wait, its last drain and its look at
\* the cost established.
LEMMA EndStep ==
    ASSUME IsFiniteSet(Requests), ProxyInv, ProxyStep
    PROVE  EndIsConsistent'
<1> USE DEF EndIsConsistent, Chargeable, RecordedIn, Proxy!Reaches
<1>0. /\ EndIsConsistent /\ RecordsAreConsistent /\ UNCHANGED <<budget, binding>>
      /\ \A r \in due : r \in Requests /\ cli[r] \in {"seen", "refused"}
      /\ drained \in Nat /\ drained <= Len(records) /\ Len(records) \in Nat
      /\ p_phase \in Phases
  BY DEF ProxyInv, ProxyTypes, RecordTypes, ProxyStep
<1>1. ASSUME NEW r \in Requests, HandlerStep(r) \/ Proxy!Send(r) \/ Proxy!Leave(r) \/ Proxy!UpEnds(r)
      PROVE  EndIsConsistent'
  <2>1. UNCHANGED <<records, drained, Proxy!turn>>
    BY <1>1, LedgerFrame
  <2>2. \A q \in due : /\ cli'[q] = cli[q] /\ AnswerTo(q)' = AnswerTo(q)
                       /\ handler[q] = "done" => handler'[q] = "done"
    BY <1>0, <1>1, SeenStays
  <2>3. due' \subseteq {q \in Requests : cli'[q] \in {"seen", "refused"}}
    BY <1>0, <2>1, <2>2
  <2>4. QED
    BY <1>0, <2>1, <2>2, <2>3 DEF VerdictHolds
<1>2. ASSUME NEW r \in Requests, Proxy!Record(r) PROVE EndIsConsistent'
  <2>1. /\ UNCHANGED <<cli, answer, drained, Proxy!turn>> /\ handler' = [handler EXCEPT ![r] = "recorded"]
        /\ handler[r] = "captured"
    BY <1>2 DEF Proxy!Record
  <2>2. \A q \in due : handler[q] = "done" => handler'[q] = "done"
    BY <1>0, <2>1 DEF ProxyInv, ProxyTypes, CallTypes
  <2>3. \A q \in Requests : AnswerTo(q)' = AnswerTo(q)
    BY <2>1 DEF AnswerTo
  <2>4. \A i \in 1..drained : records'[i] = records[i]
    <3>1. told' = told /\ \A i \in 1..drained : told[i] = records[i]
      BY <1>0, <1>2 DEF RecordsAreConsistent, Proxy!Record
    <3>2. \A i \in 1..drained' : told'[i] = records'[i]
      BY RecordsStep DEF RecordsAreConsistent
    <3>3. QED
      BY <2>1, <3>1, <3>2
  <2>5. QED
    BY <1>0, <2>1, <2>2, <2>3, <2>4 DEF VerdictHolds
<1>3. ASSUME Proxy!CliEnds PROVE EndIsConsistent'
  <2>1. /\ p_phase = "running" /\ p_phase' = "waiting" /\ UNCHANGED <<Proxy!calls, Proxy!ledger>>
        /\ due' = {q \in Requests : cli[q] \in {"seen", "refused"}}
        /\ UNCHANGED <<p_limit, complete, unknown, exact, p_result>>
    BY <1>3 DEF Proxy!CliEnds
  <2>2. ~complete /\ p_result = {}
    BY <1>0, <2>1
  <2>3. QED
    BY <1>0, <2>1, <2>2
<1>4. ASSUME Proxy!Drain PROVE EndIsConsistent'
  <2>1. /\ p_phase = "running" /\ UNCHANGED <<Proxy!calls, records, Proxy!turn>>
    BY <1>4 DEF Proxy!Drain
  <2>2. due = {} /\ ~complete /\ p_result = {}
    BY <1>0, <2>1
  <2>3. QED
    BY <1>0, <2>1, <2>2
<1>5. ASSUME Proxy!CapStop PROVE EndIsConsistent'
  <2>1. p_phase = "running" /\ UNCHANGED <<Proxy!calls, Proxy!ledger, p_phase, complete, exact, p_result, due>>
    BY <1>5 DEF Proxy!CapStop
  <2>8. \A q : AnswerTo(q)' = AnswerTo(q)
    BY <2>1 DEF AnswerTo
  <2>9. QED
    BY <1>0, <2>1, <2>8
<1>6. ASSUME Proxy!WaitIdle PROVE EndIsConsistent'
  <2>1. /\ p_phase = "waiting" /\ p_phase' = "draining" /\ complete' = (active = 0)
        /\ UNCHANGED <<Proxy!calls, Proxy!ledger, p_limit, exact, p_result, due>>
    BY <1>6 DEF Proxy!WaitIdle
  <2>2. ASSUME active = 0, NEW q \in due, cli[q] = "seen" PROVE handler[q] = "done"
    <3>1. IsFiniteSet(Busy) /\ Cardinality(Busy) = 0
      BY <2>2, FS_Subset DEF ProxyInv, HandlersAreCounted, Busy
    <3>2. Busy = {}
      BY <3>1, FS_EmptySet
    <3>3. QED
      BY <1>0, <2>2, <3>2 DEF ProxyInv, HandlersAreConsistent, Busy
  <2>3. QED
    BY <1>0, <2>1, <2>2
<1>7. ASSUME Proxy!DrainLast PROVE EndIsConsistent'
  <2>1. /\ p_phase = "draining" /\ p_phase' = "telling" /\ drained' = Len(records)
        /\ UNCHANGED <<Proxy!calls, records, blocked, p_limit, complete, exact, p_result, due>>
    BY <1>7 DEF Proxy!DrainLast, Proxy!Drained
  <2>2. complete => \A q \in due : Chargeable(q) => RecordedIn(q, Len(records))
    BY <1>0 DEF RecordsAreConsistent
  <2>8. \A q : AnswerTo(q)' = AnswerTo(q)
    BY <2>1 DEF AnswerTo
  <2>9. QED
    BY <1>0, <2>1, <2>2, <2>8
<1>8. ASSUME Proxy!Tell PROVE EndIsConsistent'
  <2>1. /\ p_phase = "telling" /\ p_phase' = "quoting" /\ exact' = Proxy!ExactCost
        /\ p_limit' = IF binding = "codex" THEN Proxy!Verdict ELSE p_limit
        /\ UNCHANGED <<Proxy!calls, Proxy!ledger, complete, p_result, due>>
    BY <1>8 DEF Proxy!Tell
  <2>2. binding = "codex" => /\ Proxy!Reaches(exact') => p_limit' # "none"
                             /\ blocked => p_limit' = "budget"
    BY <2>1 DEF Proxy!Verdict
  <2>3. (\E q \in due : cli[q] = "refused") => blocked
    BY <1>0 DEF ProxyInv, HandlersAreConsistent
  <2>8. \A q : AnswerTo(q)' = AnswerTo(q)
    BY <2>1 DEF AnswerTo
  <2>9. QED
    BY <1>0, <2>1, <2>2, <2>3, <2>8
<1>9. ASSUME Proxy!QuoteCodex \/ Proxy!QuoteClaude PROVE EndIsConsistent'
  <2>1. /\ p_phase = "quoting" /\ p_phase' = "ended"
        /\ UNCHANGED <<Proxy!calls, Proxy!ledger, p_limit, complete, exact, due>>
    BY <1>9 DEF Proxy!QuoteCodex, Proxy!QuoteClaude, Proxy!Ends
  <2>2. (\E q \in due : cli[q] = "refused") => blocked
    BY <1>0 DEF ProxyInv, HandlersAreConsistent
  <2>3. \A c, v : VerdictHolds(c, v)' = VerdictHolds(c, v)
    BY <1>0, <2>1 DEF VerdictHolds
  <2>4. CASE Proxy!QuoteCodex
    <3>1. p_result' = {[cost |-> exact, verdict |-> p_limit, settled |-> FALSE]} /\ binding = "codex"
      BY <2>4 DEF Proxy!QuoteCodex, Proxy!Ends
    <3>2. VerdictHolds(exact, p_limit)
      BY <1>0, <2>1, <3>1 DEF VerdictHolds, ProxyInv, ProxyTypes, RecordTypes, Limits
    <3>3. \A q \in p_result' : VerdictHolds(q.cost, q.verdict)
      BY <3>1, <3>2
    <3>8. \A q : AnswerTo(q)' = AnswerTo(q)
      BY <2>1 DEF AnswerTo
    <3>9. QED
      BY <1>0, <2>1, <2>3, <3>3, <3>8
  <2>5. CASE Proxy!QuoteClaude
    <3> DEFINE verdict == IF blocked \/ Proxy!Reaches(Proxy!ExactCost) THEN "budget" ELSE "none"
    <3>1. p_result' = {[cost |-> Proxy!ExactCost, verdict |-> verdict, settled |-> FALSE]}
      BY <2>5 DEF Proxy!QuoteClaude, Proxy!Ends
    <3>2. VerdictHolds(Proxy!ExactCost, verdict)
      BY <2>2 DEF VerdictHolds
    <3> HIDE DEF verdict
    <3>3. \A q \in p_result' : VerdictHolds(q.cost, q.verdict)
      BY <3>1, <3>2
    <3>8. \A q : AnswerTo(q)' = AnswerTo(q)
      BY <2>1 DEF AnswerTo
    <3>9. QED
      BY <1>0, <2>1, <2>3, <3>3, <3>8
  <2>6. QED
    BY <1>9, <2>4, <2>5
<1>10. ASSUME Proxy!StopSettles PROVE EndIsConsistent'
  <2>1. /\ p_phase = "running" /\ p_phase' = "ended" /\ UNCHANGED <<Proxy!calls, Proxy!ledger, complete>>
        /\ due' = {q \in Requests : cli[q] \in {"seen", "refused"}}
        /\ \A q \in p_result' : q.settled
    BY <1>10 DEF Proxy!StopSettles, Proxy!Ends
  <2>2. QED
    BY <1>0, <2>1
<1>11. QED
  BY <1>1, <1>2, <1>3, <1>4, <1>5, <1>6, <1>7, <1>8, <1>9, <1>10
     DEF ProxyStep, Proxy!Next, Proxy!Handle, Proxy!Harness, HandlerStep

LEMMA ProxyRests == ProxyInv /\ UNCHANGED proxy => ProxyInv'
<1> SUFFICES ASSUME ProxyInv, UNCHANGED proxy PROVE ProxyInv'
  OBVIOUS
<1> USE DEF proxy
<1>1. ProxyTypes'
  BY DEF ProxyInv, ProxyTypes, CallTypes, RecordTypes
<1>2. HandlersAreCounted' /\ HandlersAreConsistent'
  BY DEF ProxyInv, HandlersAreCounted, HandlersAreConsistent, Busy
<1>3. (\A r : AnswerTo(r)' = AnswerTo(r)) /\ (\A c : Proxy!Reaches(c)' = Proxy!Reaches(c))
  BY DEF AnswerTo, Proxy!Reaches
<1>4. RecordsAreConsistent'
  BY <1>3 DEF ProxyInv, RecordsAreConsistent, Chargeable, RecordedIn
<1>5. EndIsConsistent'
  BY <1>3 DEF ProxyInv, EndIsConsistent, Chargeable, RecordedIn, VerdictHolds
<1>6. QED
  BY <1>1, <1>2, <1>4, <1>5 DEF ProxyInv

LEMMA ProxyInvInit == Proxy!Init => ProxyInv
<1> SUFFICES ASSUME Proxy!Init PROVE ProxyInv
  OBVIOUS
<1> USE DEF Proxy!Init
<1>1. CallTypes
  BY DEF CallTypes, CliStates, Proxy!Stages
<1>2. RecordTypes
  <2>1. <<>> \in Seq(Records) /\ Len(<<>>) = 0
    OBVIOUS
  <2>2. records = <<>> /\ told = <<>> /\ drained = 0
    OBVIOUS
  <2>3. records \in Seq(Records) /\ told \in Seq(Records) /\ drained \in Nat /\ drained <= Len(records)
    BY <2>1, <2>2
  <2>4. QED
    BY <2>3 DEF RecordTypes, Phases, Limits
<1>3. HandlersAreCounted
  <2>1. Busy = {}
    BY DEF Busy
  <2>2. QED
    BY <2>1, FS_EmptySet DEF HandlersAreCounted
<1>4. HandlersAreConsistent /\ RecordsAreConsistent /\ EndIsConsistent
  BY DEF HandlersAreConsistent, RecordsAreConsistent, EndIsConsistent
<1>5. QED
  BY <1>1, <1>2, <1>3, <1>4 DEF ProxyInv, ProxyTypes

LEMMA ProxyInvariant == Spec => []ProxyInv
<1>1. IsFiniteSet(Requests)
  <2>1. Proxy!ProxyAssumption
    BY HarnessAssumption
  <2>2. QED
    BY <2>1 DEF Proxy!ProxyAssumption, Proxy!IsFiniteSet, IsFiniteSet
<1>2. Init => ProxyInv
  BY ProxyInvInit DEF Init
<1>3. ProxyInv /\ [Next]_vars => ProxyInv'
  <2>1. ASSUME ProxyInv, ProxyStep PROVE ProxyInv'
    BY <1>1, <2>1, ProxyTypesStep, CountedStep, HandlersStep, RecordsStep, EndStep DEF ProxyInv
  <2>2. QED
    BY <2>1, ProxyMoves, ProxyRests DEF ProxyStep
<1>4. QED
  BY <1>2, <1>3, PTL DEF Spec

\* What OpenRouter charged for answers the CLI has is in the result once, a
\* spent cap is its verdict unless codex did not confirm a stop, a zero budget
\* spends nothing and no handler that left is waited for, however many requests are open and whatever they cost.
THEOREM ProxyQuotes == Spec => []ProxyQuotesRight
<1>1. ASSUME ProxyInv PROVE ProxyQuotesRight
  <2> USE <1>1 DEF ProxyInv
  <2>1. Proxy!EachToldOnce
    <3>1. told \in Seq(Records) /\ Len(told) = drained /\ drained \in Nat /\ drained <= Len(records)
          /\ Len(records) \in Nat
      BY DEF ProxyTypes, RecordTypes, RecordsAreConsistent
    <3>2. DOMAIN told = 1..drained
      BY <3>1
    <3>3. QED
      BY <3>1, <3>2 DEF Proxy!EachToldOnce, RecordsAreConsistent
  <2>2. Proxy!IdleWhenDone
    <3>1. (\A r \in Requests : handler[r] \in {"none", "done"}) => Busy = {}
      BY DEF Busy
    <3>2. QED
      BY <3>1, FS_EmptySet DEF Proxy!IdleWhenDone, HandlersAreCounted
  <2>3. Proxy!ReceivedIsQuoted
    <3> SUFFICES ASSUME p_result # {}, complete, NEW r \in due, cli[r] = "seen", AnswerTo(r).cost # NoCost
                 PROVE  \E i \in 1..drained : told[i] = [of |-> r, cost |-> AnswerTo(r).cost]
      BY DEF Proxy!ReceivedIsQuoted, AnswerTo
    <3>1. RecordedIn(r, drained)
      BY DEF EndIsConsistent, Chargeable
    <3>2. QED
      BY <3>1 DEF RecordedIn, RecordsAreConsistent
  <2>4. Proxy!CapIsTheVerdict
    BY DEF Proxy!CapIsTheVerdict, EndIsConsistent, VerdictHolds
  <2>5. Proxy!ZeroSpendsNothing
    BY DEF Proxy!ZeroSpendsNothing, HandlersAreConsistent
  <2>6. QED
    BY <2>1, <2>2, <2>3, <2>4, <2>5 DEF ProxyQuotesRight
<1>2. QED
  BY <1>1, ProxyInvariant, PTL

-----------------------------------------------------------------------------
(* An operator's messages, in the channel and after it: what Codex and     *)
(* Claude Code do with one is the same.                                    *)

ControlOps == {"steer", "interrupt", "stop"}
ControlMsgs == [id : Nat \ {0}, op : ControlOps]

\* The messages the loop has taken, when s were sent, in are in the channel
\* and c is the one its read returned.
TakenOf(in, s, c) == s - Len(in) - (IF c = {} THEN 0 ELSE 1)

\* Each message is in one place - the channel, the read, waiting to settle, a
\* `user` event or a refusal - and the channel keeps their order.
Placed(in, s, c, w, u, f) ==
    /\ s \in Nat /\ in \in Seq(ControlMsgs) /\ u \in Seq(Nat)
    /\ c \subseteq ControlMsgs /\ \A m, n \in c : m = n
    /\ w \subseteq ControlMsgs /\ \A m, n \in w : m = n
    /\ Len(in) <= s /\ (c # {} => Len(in) < s)
    /\ \A i \in 1..Len(in) : in[i].id = s - Len(in) + i
    /\ \A m \in c : m.id = s - Len(in)
    /\ \A m \in w : m.id <= TakenOf(in, s, c) /\ m.id \notin f /\ \A i \in 1..Len(u) : u[i] # m.id
    /\ \A i \in 1..Len(u) : u[i] \in 1..TakenOf(in, s, c) /\ u[i] \notin f
    /\ \A i, j \in 1..Len(u) : u[i] = u[j] => i = j
    /\ f \subseteq 1..TakenOf(in, s, c)

LEMMA PlacedTypes ==
    ASSUME NEW in, NEW s, NEW c, NEW w, NEW u, NEW f, Placed(in, s, c, w, u, f)
    PROVE  /\ Len(in) \in Nat /\ Len(u) \in Nat /\ TakenOf(in, s, c) \in Nat
           /\ \A m \in ControlMsgs : m.id \in Nat /\ m.id > 0
           /\ \A m \in c : c = {m} /\ m \in ControlMsgs /\ m.id = TakenOf(in, s, c) + 1
           /\ \A m \in w : w = {m} /\ m \in ControlMsgs /\ m.id \in 1..TakenOf(in, s, c)
<1>1. /\ in \in Seq(ControlMsgs) /\ u \in Seq(Nat) /\ s \in Nat
      /\ c \subseteq ControlMsgs /\ \A m, n \in c : m = n
      /\ w \subseteq ControlMsgs /\ \A m, n \in w : m = n
      /\ Len(in) <= s /\ (c # {} => Len(in) < s)
      /\ \A m \in c : m.id = s - Len(in)
      /\ \A m \in w : m.id <= TakenOf(in, s, c)
  BY DEF Placed
<1>2. Len(in) \in Nat /\ Len(u) \in Nat
  BY <1>1
<1>3. TakenOf(in, s, c) \in Nat
  BY <1>1, <1>2 DEF TakenOf
<1>4. \A m \in ControlMsgs : m.id \in Nat /\ m.id > 0
  BY DEF ControlMsgs
<1>5. \A m \in c : c = {m} /\ m \in ControlMsgs /\ m.id = TakenOf(in, s, c) + 1
  BY <1>1, <1>2 DEF TakenOf
<1>6. \A m \in w : w = {m} /\ m \in ControlMsgs /\ m.id \in 1..TakenOf(in, s, c)
  BY <1>1, <1>3, <1>4
<1>7. QED
  BY <1>2, <1>3, <1>4, <1>5, <1>6

LEMMA PlacedForgets ==
    ASSUME NEW in, NEW s, NEW c, NEW w, NEW u, NEW f, Placed(in, s, c, w, u, f), NEW v \in SUBSET w
    PROVE  Placed(in, s, c, v, u, f)
  BY DEF Placed

LEMMA PlacedSends ==
    ASSUME NEW in, NEW s, NEW c, NEW w, NEW u, NEW f, Placed(in, s, c, w, u, f), NEW op \in ControlOps
    PROVE  LET next == Append(in, [id |-> s + 1, op |-> op])
           IN  Placed(next, s + 1, c, w, u, f) /\ TakenOf(next, s + 1, c) = TakenOf(in, s, c)
<1> DEFINE msg  == [id |-> s + 1, op |-> op]
           next == Append(in, msg)
<1>1. in \in Seq(ControlMsgs) /\ Len(in) \in Nat /\ s \in Nat
  BY PlacedTypes DEF Placed
<1>2. msg \in ControlMsgs
  BY <1>1 DEF ControlMsgs
<1> HIDE DEF msg
<1>3. /\ next \in Seq(ControlMsgs) /\ Len(next) = Len(in) + 1 /\ next[Len(in) + 1] = msg
      /\ \A i \in 1..Len(in) : next[i] = in[i]
  BY <1>1, <1>2, AppendProperties
<1> HIDE DEF next
<1>4. TakenOf(next, s + 1, c) = TakenOf(in, s, c)
  BY <1>1, <1>3 DEF TakenOf
<1>5. \A i \in 1..Len(next) : next[i].id = (s + 1) - Len(next) + i
  <2>1. ASSUME NEW i \in 1..Len(in) PROVE next[i].id = (s + 1) - Len(next) + i
    <3>1. in[i].id = s - Len(in) + i /\ i \in Int
      BY DEF Placed
    <3>2. QED
      BY <1>1, <1>3, <3>1
  <2>2. next[Len(in) + 1].id = (s + 1) - Len(next) + (Len(in) + 1)
    BY <1>1, <1>3 DEF msg
  <2>3. \A i \in 1..Len(next) : i \in 1..Len(in) \/ i = Len(in) + 1
    BY <1>1, <1>3
  <2>4. QED
    BY <2>1, <2>2, <2>3
<1>6. /\ Len(next) <= s + 1 /\ (c # {} => Len(next) < s + 1) /\ s + 1 \in Nat
      /\ \A m \in c : m.id = (s + 1) - Len(next)
  BY <1>1, <1>3 DEF Placed
<1>7. Placed(next, s + 1, c, w, u, f)
  BY <1>3, <1>4, <1>5, <1>6 DEF Placed
<1>8. QED
  BY <1>4, <1>7 DEF next, msg

LEMMA PlacedReads ==
    ASSUME NEW in, NEW s, NEW c, NEW w, NEW u, NEW f, Placed(in, s, c, w, u, f), c = {}, in # <<>>
    PROVE  LET rest == Tail(in)
           IN  Placed(rest, s, {Head(in)}, w, u, f) /\ TakenOf(rest, s, {Head(in)}) = TakenOf(in, s, c)
<1> DEFINE rest == Tail(in)
           msg  == Head(in)
<1>1. in \in Seq(ControlMsgs) /\ Len(in) \in Nat /\ s \in Nat
  BY PlacedTypes DEF Placed
<1>2. /\ rest \in Seq(ControlMsgs) /\ Len(rest) = Len(in) - 1 /\ Len(in) > 0 /\ msg = in[1] /\ msg \in ControlMsgs
      /\ \A i \in 1..Len(rest) : rest[i] = in[i + 1]
  BY <1>1
<1> HIDE DEF rest, msg
<1>3. TakenOf(rest, s, {msg}) = TakenOf(in, s, c)
  BY <1>1, <1>2, SMTT(30) DEF TakenOf
<1>4. \A i \in 1..Len(rest) : rest[i].id = s - Len(rest) + i
  <2>1. ASSUME NEW i \in 1..Len(rest) PROVE rest[i].id = s - Len(rest) + i
    <3>1. i + 1 \in 1..Len(in) /\ i \in Int
      BY <1>1, <1>2
    <3>2. in[i + 1].id = s - Len(in) + (i + 1)
      BY <3>1 DEF Placed
    <3>3. QED
      BY <1>1, <1>2, <3>1, <3>2
  <2>2. QED
    BY <2>1
<1>5. msg.id = s - Len(rest) /\ Len(rest) < s /\ Len(rest) <= s
  <2>1. in[1].id = s - Len(in) + 1 /\ Len(in) <= s
    BY <1>1, <1>2 DEF Placed
  <2>2. QED
    BY <1>1, <1>2, <2>1
<1>6. Placed(rest, s, {msg}, w, u, f)
  BY <1>2, <1>3, <1>4, <1>5 DEF Placed
<1>7. QED
  BY <1>3, <1>6 DEF rest, msg

\* What becomes of a message that the loop takes: dropped, surfaced, refused
\* or waiting to settle in place of the one before.
LEMMA PlacedTakes ==
    ASSUME NEW in, NEW s, NEW c, NEW w, NEW u, NEW f, Placed(in, s, c, w, u, f), NEW m \in c
    PROVE  /\ TakenOf(in, s, {}) = TakenOf(in, s, c) + 1
           /\ Placed(in, s, {}, w, u, f)
           /\ Placed(in, s, {}, w, Append(u, m.id), f)
           /\ Placed(in, s, {}, w, u, f \cup {m.id})
           /\ Placed(in, s, {}, {m}, u, f)
<1> DEFINE r == TakenOf(in, s, c)
<1>1. /\ in \in Seq(ControlMsgs) /\ Len(in) \in Nat /\ s \in Nat /\ r \in Nat
      /\ u \in Seq(Nat) /\ Len(u) \in Nat /\ m \in ControlMsgs /\ m.id = r + 1 /\ m.id \in Nat
  <2>1. in \in Seq(ControlMsgs) /\ s \in Nat /\ u \in Seq(Nat)
    BY DEF Placed
  <2>2. QED
    BY <2>1, PlacedTypes
<1>2. TakenOf(in, s, {}) = r + 1
  BY <1>1 DEF TakenOf
<1> HIDE DEF r
<1>3. /\ Len(in) <= s /\ \A i \in 1..Len(in) : in[i].id = s - Len(in) + i
      /\ w \subseteq ControlMsgs /\ \A n, o \in w : n = o
      /\ \A n \in w : n.id <= r /\ n.id \in Nat /\ n.id \notin f /\ \A i \in 1..Len(u) : u[i] # n.id
      /\ \A i \in 1..Len(u) : u[i] \in 1..r /\ u[i] \notin f
      /\ \A i, j \in 1..Len(u) : u[i] = u[j] => i = j
      /\ f \subseteq 1..r
  <2>1. \A n \in w : n.id \in Nat
    BY PlacedTypes
  <2>2. QED
    BY <2>1 DEF Placed, r
<1>4. /\ \A n \in w : n.id <= r + 1 /\ n.id # r + 1
      /\ \A i \in 1..Len(u) : u[i] \in 1..(r + 1) /\ u[i] # r + 1
      /\ f \subseteq 1..(r + 1) /\ r + 1 \notin f /\ r + 1 \in 1..(r + 1)
  BY <1>1, <1>3
<1>5. Placed(in, s, {}, w, u, f)
  BY <1>1, <1>2, <1>3, <1>4 DEF Placed
<1>6. Placed(in, s, {}, w, Append(u, m.id), f)
  <2> DEFINE v == Append(u, m.id)
  <2>1. /\ v \in Seq(Nat) /\ Len(v) = Len(u) + 1 /\ v[Len(u) + 1] = r + 1
        /\ \A i \in 1..Len(u) : v[i] = u[i]
    BY <1>1, AppendProperties
  <2> HIDE DEF v
  <2>2. \A i \in 1..Len(v) : i \in 1..Len(u) \/ i = Len(u) + 1
    BY <1>1, <2>1
  <2>3. \A i \in 1..Len(v) : v[i] \in 1..(r + 1) /\ v[i] \notin f
    BY <1>3, <1>4, <2>1, <2>2, SMTT(30)
  <2>4. \A i, j \in 1..Len(v) : v[i] = v[j] => i = j
    BY <1>3, <1>4, <2>1, <2>2
  <2>5. \A n \in w : \A i \in 1..Len(v) : v[i] # n.id
    BY <1>3, <1>4, <2>1, <2>2
  <2>6. Placed(in, s, {}, w, v, f)
    BY <1>1, <1>2, <1>3, <1>4, <2>1, <2>3, <2>4, <2>5 DEF Placed
  <2>7. QED
    BY <2>6 DEF v
<1>7. Placed(in, s, {}, w, u, f \cup {m.id})
  <2>1. /\ \A n \in w : n.id \notin f \cup {r + 1}
        /\ \A i \in 1..Len(u) : u[i] \notin f \cup {r + 1}
        /\ f \cup {r + 1} \subseteq 1..(r + 1)
    BY <1>3, <1>4
  <2>2. QED
    BY <1>1, <1>2, <1>3, <1>4, <2>1 DEF Placed
<1>8. Placed(in, s, {}, {m}, u, f)
  BY <1>1, <1>2, <1>3, <1>4 DEF Placed
<1>9. QED
  BY <1>2, <1>5, <1>6, <1>7, <1>8 DEF r

\* A message that waited goes to the model.
LEMMA PlacedContinues ==
    ASSUME NEW in, NEW s, NEW c, NEW w, NEW u, NEW f, Placed(in, s, c, w, u, f), NEW m \in w
    PROVE  Placed(in, s, c, {}, Append(u, m.id), f)
<1> DEFINE v == Append(u, m.id)
           r == TakenOf(in, s, c)
<1>1. u \in Seq(Nat) /\ Len(u) \in Nat /\ m.id \in Nat /\ r \in Nat /\ m.id \in 1..r
  <2>1. u \in Seq(Nat)
    BY DEF Placed
  <2>2. QED
    BY <2>1, PlacedTypes
<1>2. /\ v \in Seq(Nat) /\ Len(v) = Len(u) + 1 /\ v[Len(u) + 1] = m.id
      /\ \A i \in 1..Len(u) : v[i] = u[i]
  BY <1>1, AppendProperties
<1> HIDE DEF v, r
<1>3. /\ m.id \notin f /\ \A i \in 1..Len(u) : u[i] # m.id
      /\ \A i \in 1..Len(u) : u[i] \in 1..r /\ u[i] \notin f
      /\ \A i, j \in 1..Len(u) : u[i] = u[j] => i = j
  BY DEF Placed, r
<1>4. \A i \in 1..Len(v) : i \in 1..Len(u) \/ i = Len(u) + 1
  BY <1>1, <1>2
<1>5. /\ \A i \in 1..Len(v) : v[i] \in 1..r /\ v[i] \notin f
      /\ \A i, j \in 1..Len(v) : v[i] = v[j] => i = j
  BY <1>1, <1>2, <1>3, <1>4
<1>6. Placed(in, s, c, {}, v, f)
  BY <1>2, <1>5 DEF Placed, r
<1>7. QED
  BY <1>6 DEF v

-----------------------------------------------------------------------------
(* A turn of Codex.                                                        *)

USE DEF Codex!vars, Codex!server, Codex!select, Codex!output, Codex!history, Codex!Pending

\* A step of the whole is a step of the Codex turn, or leaves it alone.
LEMMA CodexMoves == [Next]_vars => [Codex!Next]_codex
<1>1. part = "codex" /\ Next => Codex!Next
  BY DEF Next
<1>2. part # "codex" /\ Next => UNCHANGED codex
  BY DEF Next
<1>3. UNCHANGED vars => UNCHANGED codex
  BY DEF vars
<1>4. QED
  BY <1>1, <1>2, <1>3

Texts == {"plain", "answer"}
Lasts == {"completed", "failed", "interrupted", "end"}
Notes == {"usage"} \cup Texts \cup Lasts

\* Notifications of some kinds that the loop has not taken yet.
OnWire(w, kinds) == Cardinality({i \in DOMAIN w : w[i] \in kinds})
Read(kinds)      == IF stask \in kinds THEN 1 ELSE 0
Unread(kinds)    == OnWire(wire, kinds) + Read(kinds)

CodexTypes ==
    /\ pc \in {"start", "loop", "done", "raised"} /\ priced \in BOOLEAN
    /\ handle \in Nat /\ serving \in {"idle", "running", "asked", "over"}
    /\ wire \in Seq(Notes) /\ stask \in Notes \cup {"pending"}
    /\ ctask \subseteq Codex!Msgs /\ \A m, n \in ctask : m = n
    /\ inbox \in Seq(Codex!Msgs) /\ sent \in 0..CodexMsgs
    /\ waiting \subseteq Codex!Msgs /\ \A m, n \in waiting : m = n
    /\ limit \in {"none", "max_turns", "budget"}
    /\ calls \in Nat /\ made \in 0..CodexCalls
    /\ final \in [n : Nat, isFinal : BOOLEAN]
    /\ texts \in Seq(Texts) /\ taken \in Seq(Codex!Msgs) /\ surfaced \in Seq(Nat)
    /\ expired \in BOOLEAN
    /\ pc = "done" <=> result # {}
    /\ \A q, r \in result : q = r

\* A model call is counted, or its notification is still to be read, unless a
\* settle window ran out and dropped it with its turn.
CallsAreKept ==
    /\ calls + Unread({"usage"}) <= made
    /\ ~expired => calls + Unread({"usage"}) = made
    /\ Len(texts) + Unread(Texts) <= CodexTexts

\* Nothing follows the last notification of a Codex turn.
LastIsLast ==
    /\ \A i \in 1..Len(wire) : wire[i] \in Lasts => i = Len(wire) /\ serving = "over"
    /\ stask \in Lasts => wire = <<>> /\ serving = "over"
    /\ pc = "start" => wire = <<>> /\ stask = "pending" /\ serving = "idle" /\ handle = 0
    /\ pc = "done" /\ ~expired => wire = <<>> /\ stask = "pending" /\ serving = "over"

CapIsKept ==
    /\ Codex!OverTurns(calls) \/ Codex!OverBudget(calls) => limit # "none"
    /\ limit # "none" => result \subseteq {"error_max_turns", "error_budget_exceeded"}

FinalIsLatest ==
    LET answers == {i \in 1..Len(texts) : texts[i] = "answer"}
        best    == IF answers = {} THEN 1..Len(texts) ELSE answers
    IN  /\ final.isFinal <=> answers # {}
        /\ best = {} => final.n = 0
        /\ best # {} => final.n \in best
        /\ \A j \in best : j <= final.n

MessagesAreDistinct == Placed(inbox, sent, ctask, waiting, surfaced, refused)

\* What waits to settle is the latest interrupt the loop took; every further
\* Codex turn used up one.
WaitingIsLatest ==
    /\ \A m \in waiting :
         \E i \in DOMAIN taken : /\ taken[i] = m /\ m.op # "steer"
                                 /\ \A j \in DOMAIN taken : j > i => taken[j].op = "steer"
    /\ handle + (IF waiting = {} THEN 0 ELSE 1) <= TakenOf(inbox, sent, ctask) + 1

CodexInv ==
    /\ CodexTypes
    /\ CallsAreKept
    /\ LastIsLast
    /\ CapIsKept
    /\ FinalIsLatest
    /\ MessagesAreDistinct
    /\ WaitingIsLatest

-----------------------------------------------------------------------------
(* Counting on the wire.                                                   *)

LEMMA OnWireIsNat ==
    ASSUME NEW w \in Seq(Notes), NEW kinds
    PROVE  IsFiniteSet({i \in DOMAIN w : w[i] \in kinds}) /\ OnWire(w, kinds) \in Nat
<1>1. DOMAIN w = 1..Len(w) /\ Len(w) \in Nat
  OBVIOUS
<1>2. IsFiniteSet(DOMAIN w)
  BY <1>1, FS_Interval
<1>3. QED
  BY <1>2, FS_Subset, FS_CardinalityType DEF OnWire

LEMMA OnEmptyWire == \A kinds : OnWire(<<>>, kinds) = 0
<1>1. \A kinds : {i \in DOMAIN <<>> : <<>>[i] \in kinds} = {}
  OBVIOUS
<1>2. QED
  BY <1>1, FS_EmptySet DEF OnWire

LEMMA OnWireAppend ==
    ASSUME NEW w \in Seq(Notes), NEW x \in Notes, NEW kinds
    PROVE  OnWire(Append(w, x), kinds) = OnWire(w, kinds) + IF x \in kinds THEN 1 ELSE 0
<1> DEFINE v == Append(w, x)
           At(u) == {i \in DOMAIN u : u[i] \in kinds}
<1>1. /\ Len(w) \in Nat /\ DOMAIN w = 1..Len(w) /\ DOMAIN v = 1..(Len(w) + 1)
      /\ v[Len(w) + 1] = x /\ \A i \in 1..Len(w) : v[i] = w[i]
  OBVIOUS
<1> HIDE DEF v
<1>2. IsFiniteSet(At(w))
  BY OnWireIsNat
<1>3. CASE x \in kinds
  <2>1. At(v) = At(w) \cup {Len(w) + 1} /\ Len(w) + 1 \notin At(w)
    BY <1>1, <1>3
  <2>2. QED
    BY <1>2, <1>3, <2>1, FS_AddElement DEF OnWire, v
<1>4. CASE x \notin kinds
  <2>1. At(v) = At(w)
    BY <1>1, <1>4
  <2>2. OnWire(v, kinds) = OnWire(w, kinds) /\ OnWire(w, kinds) \in Nat
    BY <2>1, OnWireIsNat DEF OnWire
  <2>3. QED
    BY <1>4, <2>2 DEF v
<1>5. QED
  BY <1>3, <1>4

LEMMA OnWireTail ==
    ASSUME NEW w \in Seq(Notes), w # <<>>, NEW kinds
    PROVE  OnWire(w, kinds) = OnWire(Tail(w), kinds) + IF Head(w) \in kinds THEN 1 ELSE 0
<1> DEFINE v == Tail(w)
           At(u) == {i \in DOMAIN u : u[i] \in kinds}
           Later == At(w) \ {1}
<1>1. /\ Len(w) \in Nat /\ Len(w) > 0 /\ DOMAIN w = 1..Len(w) /\ DOMAIN v = 1..(Len(w) - 1)
      /\ Head(w) = w[1] /\ \A i \in 1..(Len(w) - 1) : v[i] = w[i + 1]
      /\ v \in Seq(Notes)
  OBVIOUS
<1> HIDE DEF v
<1>2. IsFiniteSet(At(w)) /\ IsFiniteSet(At(v))
  BY <1>1, OnWireIsNat
<1> DEFINE f == [i \in At(v) |-> i + 1]
<1>3. f \in Bijection(At(v), Later)
  <2>1. \A i \in At(v) : i + 1 \in Later
    BY <1>1
  <2>2. \A j \in Later : j - 1 \in At(v) /\ (j - 1) + 1 = j
    BY <1>1
  <2>3. \A i, j \in At(v) : i + 1 = j + 1 => i = j
    BY <1>1
  <2>4. f \in [At(v) -> Later]
    BY <2>1
  <2> DEFINE A == At(v)
  <2>5. f \in [A -> Later] /\ \A i \in A : f[i] = i + 1
    BY <2>4
  <2> HIDE DEF f, A, Later, At
  <2>6. f \in Injection(A, Later)
    <3>1. \A i, j \in A : f[i] = f[j] => i = j
      BY <2>3, <2>5 DEF A
    <3>2. QED
      BY <2>5, <3>1 DEF Injection, IsInjective
  <2>8. f \in Surjection(A, Later)
    <3>1. \A j \in Later : \E i \in A : f[i] = j
      BY <2>2, <2>5 DEF A
    <3>2. QED
      BY <2>5, <3>1 DEF Surjection
  <2>9. QED
    BY <2>6, <2>8 DEF Bijection, A
<1>4. Cardinality(Later) = Cardinality(At(v))
  BY <1>2, <1>3, FS_Bijection DEF ExistsBijection
<1>5. Cardinality(Later) = IF 1 \in At(w) THEN Cardinality(At(w)) - 1 ELSE Cardinality(At(w))
  BY <1>2, FS_RemoveElement
<1>6. 1 \in At(w) <=> Head(w) \in kinds
  BY <1>1
<1>7. Cardinality(At(w)) \in Nat
  BY <1>2, FS_CardinalityType
<1>8. OnWire(w, kinds) = Cardinality(At(w)) /\ OnWire(Tail(w), kinds) = Cardinality(At(v))
  BY DEF OnWire, v
<1> HIDE DEF At, Later
<1>9. QED
  BY <1>4, <1>5, <1>6, <1>7, <1>8

-----------------------------------------------------------------------------
(* The steps of the Codex turn.                                            *)

LEMMA CodexConstants ==
    /\ CallCap \in Nat \ {0} /\ CostCap \in Nat \ {0}
    /\ CodexMsgs \in Nat /\ CodexCalls \in Nat /\ CodexTexts \in Nat
<1>1. Codex!CodexTurnAssumption
  BY HarnessAssumption
<1>2. QED
  BY <1>1 DEF Codex!CodexTurnAssumption

LEMMA CodexTypesStep ==
    ASSUME CodexInv, Codex!Next
    PROVE  CodexTypes'
<1> USE DEF CodexInv, CodexTypes, Notes, Texts, Lasts, Codex!TakeNote, Codex!TakeControl, Codex!NextIs,
            Codex!NextIsControl, Codex!Interrupt
<1>1. ASSUME Codex!Calls \/ Codex!Speaks \/ Codex!Completes \/ Codex!Dies PROVE CodexTypes'
  <2>1. wire' \in Seq(Notes)
    <3>1. \A x \in Notes : Append(wire, x) \in Seq(Notes)
      OBVIOUS
    <3>2. \E x \in Notes : wire' = Append(wire, x)
      <4>1. CASE Codex!Calls
        BY <4>1 DEF Codex!Calls
      <4>2. CASE Codex!Speaks
        BY <4>2 DEF Codex!Speaks
      <4>3. CASE Codex!Completes \/ Codex!Dies
        BY <4>3 DEF Codex!Completes, Codex!Dies
      <4>4. QED
        BY <1>1, <4>1, <4>2, <4>3
    <3>3. QED
      BY <3>1, <3>2
  <2>2. made' \in 0..CodexCalls /\ serving' \in {"idle", "running", "asked", "over"}
    <3>0. made \in 0..CodexCalls /\ serving \in {"idle", "running", "asked", "over"}
      OBVIOUS
    <3>1. CASE Codex!Calls
      <4>1. made < CodexCalls /\ made' = made + 1 /\ UNCHANGED serving
        BY <3>1 DEF Codex!Calls
      <4>2. QED
        BY ONLY <3>0, <4>1, CodexConstants
    <3>2. CASE Codex!Speaks \/ Codex!Completes \/ Codex!Dies
      <4>1. UNCHANGED made /\ (UNCHANGED serving \/ serving' = "over")
        BY <3>2 DEF Codex!Speaks, Codex!Completes, Codex!Dies
      <4>2. QED
        BY ONLY <3>0, <4>1
    <3>3. QED
      BY <1>1, <3>1, <3>2
  <2>3. UNCHANGED <<pc, priced, handle, stask, ctask, inbox, sent, waiting, limit, calls, final, texts, taken,
                    surfaced, expired, result>>
    BY <1>1 DEF Codex!Calls, Codex!Speaks, Codex!Completes, Codex!Dies
  <2>4. QED
    BY <2>1, <2>2, <2>3
<1>2. ASSUME Codex!OperatorSends PROVE CodexTypes'
  <2>1. PICK op \in Codex!Ops : inbox' = Append(inbox, [id |-> sent + 1, op |-> op])
    BY <1>2 DEF Codex!OperatorSends
  <2>2. [id |-> sent + 1, op |-> op] \in Codex!Msgs
    <3>1. sent + 1 \in 1..CodexMsgs
      BY <1>2, CodexConstants DEF Codex!OperatorSends
    <3>2. QED
      BY <3>1 DEF Codex!Msgs
  <2>3. inbox' \in Seq(Codex!Msgs) /\ sent' \in 0..CodexMsgs
    BY <1>2, <2>1, <2>2, CodexConstants DEF Codex!OperatorSends
  <2>4. QED
    BY <1>2, <2>3 DEF Codex!OperatorSends
<1>3. ASSUME Codex!StreamRead PROVE CodexTypes'
  <2>1. Head(wire) \in Notes /\ Tail(wire) \in Seq(Notes)
    BY <1>3 DEF Codex!StreamRead
  <2>2. QED
    BY <1>3, <2>1 DEF Codex!StreamRead
<1>4. ASSUME Codex!ControlRead PROVE CodexTypes'
  <2>1. Head(inbox) \in Codex!Msgs /\ Tail(inbox) \in Seq(Codex!Msgs)
    BY <1>4 DEF Codex!ControlRead
  <2>2. QED
    BY <1>4, <2>1 DEF Codex!ControlRead
<1>5. ASSUME Codex!Start PROVE CodexTypes'
  BY <1>5 DEF Codex!Start
<1>6. ASSUME NEW msg \in ctask, Codex!TakeSteer(msg) \/ Codex!TakeInterrupt(msg) PROVE CodexTypes'
  <2>1. msg \in Codex!Msgs /\ msg.id \in Nat
    BY DEF Codex!Msgs
  <2>2. taken' \in Seq(Codex!Msgs)
    <3>1. Append(taken, msg) \in Seq(Codex!Msgs)
      BY <2>1
    <3>2. QED
      BY <1>6, <3>1 DEF Codex!TakeSteer, Codex!TakeInterrupt
  <2>3. surfaced' \in Seq(Nat)
    <3>1. Append(surfaced, msg.id) \in Seq(Nat)
      BY <2>1
    <3>2. QED
      BY <1>6, <3>1 DEF Codex!TakeSteer, Codex!TakeInterrupt
  <2>4. CASE Codex!TakeSteer(msg)
    BY <2>2, <2>3, <2>4 DEF Codex!TakeSteer
  <2>5. CASE Codex!TakeInterrupt(msg)
    BY <2>1, <2>2, <2>3, <2>5 DEF Codex!TakeInterrupt
  <2>6. QED
    BY <1>6, <2>4, <2>5
<1>7. ASSUME Codex!TakeUsage PROVE CodexTypes'
  BY <1>7 DEF Codex!TakeUsage
<1>8. ASSUME Codex!TakeText PROVE CodexTypes'
  <2>1. stask \in Texts /\ texts' = Append(texts, stask)
    BY <1>8 DEF Codex!TakeText
  <2>2. texts' \in Seq(Texts) /\ Len(texts) + 1 \in Nat
    BY <2>1
  <2>3. final' \in [n : Nat, isFinal : BOOLEAN]
    BY <1>8, <2>2 DEF Codex!TakeText
  <2>4. UNCHANGED <<pc, priced, handle, serving, wire, ctask, inbox, sent, waiting, limit, calls, made, taken,
                    surfaced, expired, result>> /\ stask' = "pending"
    BY <1>8 DEF Codex!TakeText
  <2>5. QED
    BY <2>2, <2>3, <2>4
<1>9. ASSUME NEW msg \in waiting, Codex!ContinueWith(msg)
      PROVE  /\ surfaced' \in Seq(Nat) /\ wire' \in Seq(Notes) /\ handle' \in Nat /\ stask' = "pending"
             /\ serving' = "running"
  <2>1. msg.id \in Nat
    BY DEF Codex!Msgs
  <2>2. Append(surfaced, msg.id) \in Seq(Nat) /\ <<>> \in Seq(Notes)
    BY <2>1
  <2>3. QED
    BY <1>9, <2>2 DEF Codex!ContinueWith
<1>10. ASSUME Codex!TakeCompleted PROVE CodexTypes'
  <2>1. CASE \E msg \in waiting : msg.op = "interrupt"
    BY <1>9, <1>10, <2>1 DEF Codex!TakeCompleted
  <2>2. CASE ~\E msg \in waiting : msg.op = "interrupt"
    BY <1>10, <2>2, ZenonT(30) DEF Codex!TakeCompleted, Codex!Finish
  <2>3. QED
    BY <2>1, <2>2
<1>11. ASSUME Codex!SettleTimeout PROVE CodexTypes'
  <2>1. PICK msg \in waiting :
          IF msg.op = "interrupt"
          THEN Codex!ContinueWith(msg) /\ UNCHANGED <<pc, ctask, refused, result>>
          ELSE Codex!Finish("interrupted") /\ UNCHANGED <<Codex!server, Codex!select>>
    BY <1>11 DEF Codex!SettleTimeout
  <2>2. CASE msg.op = "interrupt"
    BY <1>9, <1>11, <2>1, <2>2 DEF Codex!SettleTimeout
  <2>3. CASE msg.op # "interrupt"
    <3>1. Codex!Finish("interrupted") /\ UNCHANGED <<Codex!server, Codex!select>>
      BY ONLY <2>1, <2>3
    <3>2. /\ pc' = "done" /\ result' = {Codex!Subtype("interrupted")} /\ waiting' = {} /\ expired' = TRUE
          /\ UNCHANGED <<surfaced, priced, inbox, sent, limit, calls, final, made, texts, taken>>
      BY <1>11, <3>1 DEF Codex!SettleTimeout, Codex!Finish
    <3>3. QED
      BY <3>1, <3>2
  <2>4. QED
    BY <2>2, <2>3
<1>12. ASSUME Codex!TakeEnd PROVE CodexTypes'
  BY <1>12 DEF Codex!TakeEnd
<1>13. QED
  BY <1>1, <1>2, <1>3, <1>4, <1>5, <1>6, <1>7, <1>8, <1>10, <1>11, <1>12 DEF Codex!Next, Codex!Harness

LEMMA CallsAreKeptStep ==
    ASSUME CodexInv, Codex!Next
    PROVE  CallsAreKept'
<1> USE DEF CallsAreKept, Unread, Read
<1>0. /\ CodexTypes /\ CallsAreKept /\ LastIsLast
      /\ calls \in Nat /\ made \in Nat /\ Len(texts) \in Nat /\ CodexTexts \in Nat
      /\ \A kinds : OnWire(wire, kinds) \in Nat
      /\ wire \in Seq(Notes) /\ stask \in Notes \cup {"pending"}
  <2>1. wire \in Seq(Notes) /\ texts \in Seq(Texts)
    BY DEF CodexInv, CodexTypes
  <2>2. \A kinds : OnWire(wire, kinds) \in Nat
    BY <2>1, OnWireIsNat
  <2>3. Len(texts) \in Nat
    BY <2>1
  <2>4. CodexTypes /\ CallsAreKept /\ LastIsLast /\ CodexTexts \in Nat
    BY CodexConstants DEF CodexInv
  <2>5. calls \in Nat /\ made \in 0..CodexCalls /\ stask \in Notes \cup {"pending"}
    BY ONLY <2>4 DEF CodexTypes
  <2>6. made \in Nat
    BY ONLY <2>5
  <2>7. QED
    BY ONLY <2>1, <2>2, <2>3, <2>4, <2>5, <2>6
<1>1. \A x \in Notes, kinds \in {{"usage"}, Texts} :
        OnWire(Append(wire, x), kinds) = OnWire(wire, kinds) + IF x \in kinds THEN 1 ELSE 0
  BY <1>0, OnWireAppend
<1>a. {"usage", "plain", "answer", "completed", "failed", "interrupted", "end"} = Notes
  BY DEF Notes, Texts, Lasts
<1>2. CASE Codex!Calls
  <2>1. /\ wire' = Append(wire, "usage") /\ made' = made + 1
        /\ UNCHANGED <<stask, calls, texts, expired>>
    BY <1>2 DEF Codex!Calls
  <2>2. /\ OnWire(wire', {"usage"}) = OnWire(wire, {"usage"}) + 1
        /\ OnWire(wire', Texts) = OnWire(wire, Texts)
    <3>1. "usage" \in Notes /\ "usage" \notin Texts
      BY <1>a DEF Texts
    <3>2. /\ OnWire(wire', {"usage"}) = OnWire(wire, {"usage"}) + 1
          /\ OnWire(wire', Texts) = OnWire(wire, Texts) + 0
      BY ONLY <1>1, <2>1, <3>1
    <3>3. OnWire(wire, Texts) \in Nat
      BY <1>0
    <3>4. QED
      BY ONLY <3>2, <3>3
  <2> DEFINE u    == OnWire(wire, {"usage"})
             t    == OnWire(wire, Texts)
             read == IF stask \in {"usage"} THEN 1 ELSE 0
             said == IF stask \in Texts THEN 1 ELSE 0
  <2>3. /\ u \in Nat /\ t \in Nat /\ read \in Nat /\ said \in Nat
        /\ calls + (u + read) <= made /\ (~expired => calls + (u + read) = made)
        /\ Len(texts) + (t + said) <= CodexTexts
    BY <1>0
  <2> HIDE DEF u, t, read, said
  <2>4. /\ calls + ((u + 1) + read) <= made + 1 /\ (~expired => calls + ((u + 1) + read) = made + 1)
        /\ Len(texts) + (t + said) <= CodexTexts
    BY <1>0, <2>3
  <2>5. QED
    BY <2>1, <2>2, <2>4 DEF u, t, read, said
<1>3. CASE Codex!Speaks
  <2>0. Len(texts) + OnWire(wire, Texts) < CodexTexts /\ stask \notin Texts
    BY <1>3 DEF Codex!Speaks, OnWire, Codex!Cardinality, Cardinality, Texts
  <2>1. PICK ph \in Texts : wire' = Append(wire, ph)
    BY <1>3 DEF Codex!Speaks, Texts
  <2>2. /\ OnWire(wire', {"usage"}) = OnWire(wire, {"usage"})
        /\ OnWire(wire', Texts) = OnWire(wire, Texts) + 1
    <3>1. ph \in Notes /\ ph \notin {"usage"}
      BY DEF Notes, Texts
    <3>2. /\ OnWire(wire', {"usage"}) = OnWire(wire, {"usage"}) + 0
          /\ OnWire(wire', Texts) = OnWire(wire, Texts) + 1
      BY <1>1, <2>1, <3>1
    <3>3. QED
      BY <1>0, <3>2
  <2>3. UNCHANGED <<stask, calls, texts, expired, made>>
    BY <1>3 DEF Codex!Speaks
  <2>4. QED
    BY <1>0, <2>0, <2>2, <2>3
<1>4. CASE Codex!Completes \/ Codex!Dies
  <2>1. PICK x \in Lasts : wire' = Append(wire, x)
    BY <1>4 DEF Codex!Completes, Codex!Dies, Lasts
  <2>2. /\ OnWire(wire', {"usage"}) = OnWire(wire, {"usage"})
        /\ OnWire(wire', Texts) = OnWire(wire, Texts)
    <3>1. x \in Notes /\ x \notin {"usage"} /\ x \notin Texts
      BY <1>a DEF Texts, Lasts
    <3>2. /\ OnWire(wire', {"usage"}) = OnWire(wire, {"usage"}) + 0
          /\ OnWire(wire', Texts) = OnWire(wire, Texts) + 0
      BY <1>1, <2>1, <3>1
    <3>3. QED
      BY <1>0, <3>2
  <2>3. UNCHANGED <<stask, calls, texts, expired, made>>
    BY <1>4 DEF Codex!Completes, Codex!Dies
  <2>4. QED
    BY <1>0, <2>2, <2>3
<1>5. CASE Codex!StreamRead
  <2>1. /\ stask = "pending" /\ wire # <<>> /\ stask' = Head(wire) /\ wire' = Tail(wire)
        /\ UNCHANGED <<calls, texts, expired, made>>
    BY <1>5 DEF Codex!StreamRead
  <2>2. \A kinds : OnWire(wire, kinds) = OnWire(wire', kinds) + IF stask' \in kinds THEN 1 ELSE 0
    BY <1>0, <2>1, OnWireTail
  <2>3. wire' \in Seq(Notes)
    BY <1>0, <2>1
  <2>4. OnWire(wire', {"usage"}) \in Nat /\ OnWire(wire', Texts) \in Nat
    BY <2>3, OnWireIsNat
  <2>5. "pending" \notin {"usage"} \cup Texts
    BY DEF Texts
  <2>6. Unread({"usage"})' = Unread({"usage"}) /\ Unread(Texts)' = Unread(Texts)
    BY <1>0, <2>1, <2>2, <2>4, <2>5, SMTT(30)
  <2>7. QED
    BY <1>0, <2>1, <2>6
<1>6. CASE Codex!TakeUsage
  <2>1. /\ stask = "usage" /\ stask' = "pending" /\ calls' = calls + 1
        /\ UNCHANGED <<wire, texts, expired, made>>
    BY <1>6 DEF Codex!TakeUsage, Codex!NextIs, Codex!TakeNote, Codex!Interrupt
  <2>2. "pending" \notin {"usage"} \cup Texts /\ "usage" \notin Texts
    BY DEF Texts
  <2>3. QED
    BY <1>0, <2>1, <2>2
<1>7. CASE Codex!TakeText
  <2>1. /\ stask \in Texts /\ stask' = "pending" /\ Len(texts') = Len(texts) + 1
        /\ UNCHANGED <<wire, calls, expired, made>>
    <3>1. \A x \in Texts : Len(Append(texts, x)) = Len(texts) + 1
      BY <1>0 DEF CodexTypes
    <3>2. stask \in Texts /\ texts' = Append(texts, stask)
      BY <1>7 DEF Codex!TakeText, Codex!NextIs, Texts
    <3>3. QED
      BY <1>7, <3>1, <3>2 DEF Codex!TakeText, Codex!TakeNote
  <2>2. "pending" \notin {"usage"} \cup Texts /\ "usage" \notin Texts
    BY DEF Texts
  <2>3. QED
    BY <1>0, <2>1, <2>2
<1>8. CASE Codex!TakeCompleted
  <2>1. stask \in Lasts /\ wire = <<>> /\ wire' = <<>> /\ stask' = "pending"
        /\ UNCHANGED <<texts, calls, expired, made>>
    <3>1. stask \in Lasts /\ wire = <<>>
      BY <1>0, <1>8 DEF Codex!TakeCompleted, Codex!NextIs, LastIsLast, Lasts
    <3>2. QED
      BY <1>8, <3>1 DEF Codex!TakeCompleted, Codex!ContinueWith, Codex!TakeNote
  <2>2. "pending" \notin {"usage"} \cup Texts /\ stask \notin {"usage"} \cup Texts
    BY <2>1 DEF Texts, Lasts
  <2>3. QED
    BY <1>0, <2>1, <2>2
<1>9. CASE Codex!SettleTimeout
  <2>0. stask = "pending"
    BY <1>9 DEF Codex!SettleTimeout, Codex!NextIsTimeout
  <2>1. (UNCHANGED <<wire, stask>> \/ (wire' = <<>> /\ stask' = "pending"))
    BY <1>9 DEF Codex!SettleTimeout, Codex!ContinueWith
  <2>2. expired' = TRUE /\ UNCHANGED <<texts, calls, made>>
    BY <1>9 DEF Codex!SettleTimeout
  <2>3. "pending" \notin {"usage"} \cup Texts
    BY DEF Texts
  <2>4. CASE UNCHANGED <<wire, stask>>
    BY <1>0, <2>2, <2>4
  <2>5. CASE wire' = <<>> /\ stask' = "pending"
    BY <1>0, <2>0, <2>2, <2>3, <2>5, OnEmptyWire
  <2>6. QED
    BY <2>1, <2>4, <2>5
<1>10. CASE Codex!TakeEnd
  <2>1. /\ stask = "end" /\ stask' = "pending" /\ UNCHANGED <<wire, texts, calls, expired, made>>
    BY <1>10 DEF Codex!TakeEnd, Codex!NextIs, Codex!TakeNote
  <2>2. "pending" \notin {"usage"} \cup Texts /\ "end" \notin {"usage"} \cup Texts
    BY DEF Texts
  <2>3. QED
    BY <1>0, <2>1, <2>2
<1>11. CASE Codex!OperatorSends \/ Codex!ControlRead \/ Codex!Start
            \/ \E msg \in ctask : Codex!TakeSteer(msg) \/ Codex!TakeInterrupt(msg)
  <2>1. UNCHANGED <<wire, stask, texts, calls, expired, made>>
    BY <1>11 DEF Codex!OperatorSends, Codex!ControlRead, Codex!Start, Codex!TakeSteer, Codex!TakeInterrupt,
                 Codex!TakeControl, Codex!Interrupt
  <2>2. QED
    BY <1>0, <2>1
<1>12. QED
  BY <1>2, <1>3, <1>4, <1>5, <1>6, <1>7, <1>8, <1>9, <1>10, <1>11 DEF Codex!Next, Codex!Harness

LEMMA LastIsLastStep ==
    ASSUME CodexInv, Codex!Next
    PROVE  LastIsLast'
<1> USE DEF LastIsLast
<1>0. /\ CodexTypes /\ LastIsLast /\ wire \in Seq(Notes) /\ Len(wire) \in Nat
  <2>1. wire \in Seq(Notes)
    BY DEF CodexInv, CodexTypes
  <2>2. QED
    BY <2>1 DEF CodexInv
<1>1. ASSUME NEW x \in Notes, wire' = Append(wire, x), serving \in {"running", "asked"},
             UNCHANGED <<pc, stask, handle, expired>>, x \in Lasts => serving' = "over"
      PROVE  LastIsLast'
  <2>1. Len(wire') = Len(wire) + 1 /\ wire'[Len(wire) + 1] = x /\ \A i \in 1..Len(wire) : wire'[i] = wire[i]
    BY <1>0, <1>1
  <2>2. \A i \in 1..Len(wire) : wire[i] \notin Lasts
    BY <1>0, <1>1
  <2>3. \A i \in 1..Len(wire') : wire'[i] \in Lasts => i = Len(wire') /\ serving' = "over"
    BY <1>0, <1>1, <2>1, <2>2
  <2>4. stask \notin Lasts /\ pc # "start" /\ ~(pc = "done" /\ ~expired)
    BY <1>0, <1>1
  <2>5. QED
    BY <1>1, <2>3, <2>4
<1>2. CASE Codex!Calls
  <2>1. "usage" \in Notes /\ "usage" \notin Lasts
    BY DEF Notes, Texts, Lasts
  <2>2. QED
    BY <1>1, <1>2, <2>1 DEF Codex!Calls
<1>3. CASE Codex!Speaks
  <2>1. PICK ph \in Texts : wire' = Append(wire, ph)
    BY <1>3 DEF Codex!Speaks, Texts
  <2>2. ph \in Notes /\ ph \notin Lasts
    BY DEF Notes, Texts, Lasts
  <2>3. QED
    BY <1>1, <1>3, <2>1, <2>2 DEF Codex!Speaks
<1>4. CASE Codex!Completes \/ Codex!Dies
  <2>1. PICK x \in Lasts : wire' = Append(wire, x)
    BY <1>4 DEF Codex!Completes, Codex!Dies, Lasts
  <2>2. x \in Notes
    BY DEF Notes
  <2>3. /\ serving \in {"running", "asked"} /\ serving' = "over"
        /\ UNCHANGED <<pc, stask, handle, expired>>
    BY <1>4 DEF Codex!Completes, Codex!Dies
  <2>4. QED
    BY <1>1, <2>1, <2>2, <2>3
<1>5. CASE Codex!StreamRead
  <2>1. /\ pc = "loop" /\ stask = "pending" /\ wire # <<>> /\ stask' = Head(wire) /\ wire' = Tail(wire)
        /\ UNCHANGED <<pc, serving, handle, expired>>
    BY <1>5 DEF Codex!StreamRead
  <2>2. /\ Len(wire) > 0 /\ Len(wire') = Len(wire) - 1 /\ stask' = wire[1]
        /\ \A i \in 1..Len(wire') : wire'[i] = wire[i + 1]
    BY <1>0, <2>1
  <2>3. ASSUME NEW i \in 1..Len(wire'), wire'[i] \in Lasts PROVE i = Len(wire') /\ serving' = "over"
    <3>1. i + 1 \in 1..Len(wire) /\ wire'[i] = wire[i + 1]
      BY <1>0, <2>2
    <3>2. i + 1 = Len(wire) /\ serving = "over"
      BY <1>0, <2>3, <3>1
    <3>3. serving' = "over" /\ Len(wire') = Len(wire) - 1 /\ i \in Int
      BY <2>1, <2>2, <3>2
    <3>4. QED
      BY <1>0, <3>2, <3>3
  <2>4. stask' \in Lasts => wire' = <<>> /\ serving' = "over"
    <3>1. stask' \in Lasts => Len(wire) = 1 /\ serving = "over"
      BY <1>0, <2>2
    <3>2. Len(wire) = 1 => Tail(wire) = <<>>
      BY <1>0
    <3>3. QED
      BY <2>1, <3>1, <3>2
  <2>5. QED
    BY <2>1, <2>3, <2>4
<1>6. CASE Codex!TakeUsage \/ Codex!TakeText \/ Codex!TakeEnd
  <2>1. /\ pc = "loop" /\ pc' \in {"loop", "raised"} /\ stask' = "pending" /\ UNCHANGED <<wire, handle, expired>>
        /\ serving = "over" => serving' = "over"
    BY <1>6 DEF Codex!TakeUsage, Codex!TakeText, Codex!TakeEnd, Codex!NextIs, Codex!TakeNote, Codex!Interrupt
  <2>2. "pending" \notin Lasts
    BY DEF Lasts
  <2>3. QED
    BY <1>0, <2>1, <2>2
<1>7. CASE Codex!TakeCompleted
  <2>1. stask \in Lasts /\ wire = <<>> /\ serving = "over"
    BY <1>0, <1>7 DEF Codex!TakeCompleted, Codex!NextIs, Lasts
  <2>2. /\ wire' = <<>> /\ stask' = "pending" /\ pc' \in {"loop", "done"}
        /\ pc' = "done" => serving' = "over"
    BY <1>7, <2>1 DEF Codex!TakeCompleted, Codex!ContinueWith, Codex!TakeNote, Codex!Finish, Codex!NextIs
  <2>3. "pending" \notin Lasts /\ \A i \in 1..Len(<<>>) : FALSE
    BY DEF Lasts
  <2>4. QED
    BY <2>2, <2>3
<1>8. CASE Codex!SettleTimeout
  <2>1. expired' /\ pc' \in {"loop", "done"}
    BY <1>8 DEF Codex!SettleTimeout, Codex!NextIsTimeout, Codex!Finish
  <2>2. \/ wire' = <<>> /\ stask' = "pending"
        \/ UNCHANGED <<wire, stask, serving>>
    BY <1>8 DEF Codex!SettleTimeout, Codex!ContinueWith
  <2>3. "pending" \notin Lasts /\ \A i \in 1..Len(<<>>) : FALSE
    BY DEF Lasts
  <2>4. QED
    BY <1>0, <2>1, <2>2, <2>3
<1>9. CASE Codex!OperatorSends \/ Codex!ControlRead
  <2>1. UNCHANGED <<wire, stask, serving, pc, handle, expired>>
    BY <1>9 DEF Codex!OperatorSends, Codex!ControlRead
  <2>2. QED
    BY <1>0, <2>1
<1>10. CASE Codex!Start
  <2>1. /\ pc = "start" /\ pc' \in {"loop", "raised"} /\ UNCHANGED <<wire, stask>>
    BY <1>10 DEF Codex!Start
  <2>2. "pending" \notin Lasts /\ \A i \in 1..Len(<<>>) : FALSE
    BY DEF Lasts
  <2>3. QED
    BY <1>0, <2>1, <2>2
<1>11. CASE \E msg \in ctask : Codex!TakeSteer(msg) \/ Codex!TakeInterrupt(msg)
  <2>1. /\ pc = "loop" /\ UNCHANGED <<wire, stask, pc, handle, expired>>
        /\ serving = "over" => serving' = "over"
    BY <1>11 DEF Codex!TakeSteer, Codex!TakeInterrupt, Codex!TakeControl, Codex!Interrupt, Codex!NextIsControl
  <2>2. QED
    BY <1>0, <2>1
<1>12. QED
  BY <1>2, <1>3, <1>4, <1>5, <1>6, <1>7, <1>8, <1>9, <1>10, <1>11 DEF Codex!Next, Codex!Harness

LEMMA CapIsKeptStep ==
    ASSUME CodexInv, Codex!Next
    PROVE  CapIsKept'
<1> USE DEF CapIsKept, Codex!OverTurns, Codex!OverBudget
<1>0. CodexTypes /\ CapIsKept /\ (pc = "done" <=> result # {})
  BY DEF CodexInv, CodexTypes
<1>1. CASE Codex!TakeUsage
  <2>1. pc = "loop" /\ UNCHANGED <<priced, result>> /\ calls' = calls + 1
    BY <1>1 DEF Codex!TakeUsage, Codex!NextIs
  <2>2. result = {}
    BY <1>0, <2>1
  <2>3. limit' # "none" \/ (limit = "none" /\ limit' = limit /\ ~Codex!OverTurns(calls + 1) /\ ~Codex!OverBudget(calls + 1))
    BY <1>0, <1>1 DEF Codex!TakeUsage
  <2>4. QED
    BY <2>1, <2>2, <2>3
<1>2. CASE Codex!TakeCompleted \/ Codex!SettleTimeout
  <2>1. UNCHANGED <<priced, limit, calls>>
    BY <1>2 DEF Codex!TakeCompleted, Codex!SettleTimeout
  <2>2. UNCHANGED result \/ \E st : result' = {Codex!Subtype(st)}
    BY <1>2 DEF Codex!TakeCompleted, Codex!SettleTimeout, Codex!Finish
  <2>3. limit # "none" => \A st : Codex!Subtype(st) \in {"error_max_turns", "error_budget_exceeded"}
    BY <1>0 DEF Codex!Subtype, CodexTypes
  <2>4. QED
    BY <1>0, <2>1, <2>2, <2>3
<1>3. CASE ~(Codex!TakeUsage \/ Codex!TakeCompleted \/ Codex!SettleTimeout)
  <2>1. UNCHANGED <<priced, limit, calls, result>>
    BY <1>3 DEF Codex!Next, Codex!Harness, Codex!Calls, Codex!Speaks, Codex!Completes, Codex!Dies,
                Codex!OperatorSends, Codex!StreamRead, Codex!ControlRead, Codex!Start, Codex!TakeSteer,
                Codex!TakeInterrupt, Codex!TakeText, Codex!TakeEnd
  <2>2. QED
    BY <1>0, <2>1
<1>4. QED
  BY <1>1, <1>2, <1>3

LEMMA FinalIsLatestStep ==
    ASSUME CodexInv, Codex!Next
    PROVE  FinalIsLatest'
<1>0. FinalIsLatest /\ texts \in Seq(Texts) /\ Len(texts) \in Nat
  <2>1. texts \in Seq(Texts)
    BY DEF CodexInv, CodexTypes
  <2>2. QED
    BY <2>1 DEF CodexInv
<1>1. CASE Codex!TakeText
  <2> DEFINE answers == {i \in 1..Len(texts) : texts[i] = "answer"}
             best    == IF answers = {} THEN 1..Len(texts) ELSE answers
             after   == {i \in 1..Len(texts') : texts'[i] = "answer"}
             later   == IF after = {} THEN 1..Len(texts') ELSE after
             n       == Len(texts) + 1
  <2>1. stask \in Texts /\ texts' = Append(texts, stask)
    BY <1>1 DEF Codex!TakeText, Codex!NextIs, Texts
  <2>2. Len(texts') = n /\ texts'[n] = stask /\ \A i \in 1..Len(texts) : texts'[i] = texts[i]
    BY <1>0, <2>1
  <2>3. final' = IF stask = "answer" \/ ~final.isFinal
                 THEN [n |-> n, isFinal |-> stask = "answer"]
                 ELSE final
    BY <1>1 DEF Codex!TakeText
  <2>4. after = IF stask = "answer" THEN answers \cup {n} ELSE answers
    BY <1>0, <2>2
  <2>5. final.isFinal <=> answers # {}
    BY <1>0 DEF FinalIsLatest
  <2>6. final.isFinal => final.n \in answers /\ \A j \in answers : j <= final.n
    BY <1>0, <2>5 DEF FinalIsLatest
  <2>7. answers \subseteq 1..Len(texts)
    OBVIOUS
  <2> HIDE DEF answers, after
  <2>8. final'.isFinal <=> after # {}
    BY <2>3, <2>4, <2>5
  <2>9. later # {} /\ final'.n \in later /\ \A j \in later : j <= final'.n
    <3>1. CASE stask = "answer"
      BY <1>0, <2>3, <2>4, <2>7, <3>1
    <3>2. CASE stask # "answer" /\ final.isFinal
      BY <1>0, <2>3, <2>4, <2>5, <2>6, <3>2
    <3>3. CASE stask # "answer" /\ ~final.isFinal
      BY <1>0, <2>2, <2>3, <2>4, <2>5, <3>3
    <3>4. QED
      BY <3>1, <3>2, <3>3
  <2>10. QED
    BY <2>8, <2>9 DEF FinalIsLatest, after
<1>2. CASE ~Codex!TakeText
  <2>1. UNCHANGED <<texts, final>>
    BY <1>2 DEF Codex!Next, Codex!Harness, Codex!Calls, Codex!Speaks, Codex!Completes, Codex!Dies,
                Codex!OperatorSends, Codex!StreamRead, Codex!ControlRead, Codex!Start, Codex!TakeSteer,
                Codex!TakeInterrupt, Codex!TakeUsage, Codex!TakeEnd, Codex!TakeCompleted, Codex!SettleTimeout
  <2>2. QED
    BY <1>0, <2>1 DEF FinalIsLatest
<1>3. QED
  BY <1>1, <1>2

LEMMA MessagesStep ==
    ASSUME CodexInv, Codex!Next
    PROVE  MessagesAreDistinct'
<1> USE DEF MessagesAreDistinct
<1>0. Placed(inbox, sent, ctask, waiting, surfaced, refused)
  BY DEF CodexInv
<1>1. CASE UNCHANGED <<inbox, sent, ctask, waiting, surfaced, refused>>
  BY <1>0, <1>1
<1>2. CASE Codex!OperatorSends
  <2>1. PICK op \in ControlOps : inbox' = Append(inbox, [id |-> sent + 1, op |-> op])
    BY <1>2 DEF Codex!OperatorSends, Codex!Ops, ControlOps
  <2>2. QED
    BY <1>0, <1>2, <2>1, PlacedSends DEF Codex!OperatorSends
<1>3. CASE Codex!ControlRead
  BY <1>0, <1>3, PlacedReads DEF Codex!ControlRead
<1>4. ASSUME NEW msg \in ctask, Codex!TakeSteer(msg) \/ Codex!TakeInterrupt(msg)
      PROVE  MessagesAreDistinct'
  <2>1. /\ ctask' = {} /\ UNCHANGED <<inbox, sent>>
        /\ \/ UNCHANGED waiting /\ surfaced' = Append(surfaced, msg.id) /\ UNCHANGED refused
           \/ UNCHANGED waiting /\ refused' = refused \cup {msg.id} /\ UNCHANGED surfaced
           \/ waiting' = {msg} /\ UNCHANGED <<surfaced, refused>>
    BY <1>4 DEF Codex!TakeSteer, Codex!TakeInterrupt, Codex!TakeControl
  <2>2. /\ Placed(inbox, sent, {}, waiting, Append(surfaced, msg.id), refused)
        /\ Placed(inbox, sent, {}, waiting, surfaced, refused \cup {msg.id})
        /\ Placed(inbox, sent, {}, {msg}, surfaced, refused)
    BY <1>0, PlacedTakes
  <2>3. CASE UNCHANGED waiting /\ surfaced' = Append(surfaced, msg.id) /\ UNCHANGED refused
    BY <2>1, <2>2, <2>3
  <2>4. CASE UNCHANGED waiting /\ refused' = refused \cup {msg.id} /\ UNCHANGED surfaced
    BY <2>1, <2>2, <2>4
  <2>5. CASE waiting' = {msg} /\ UNCHANGED <<surfaced, refused>>
    BY <2>1, <2>2, <2>5
  <2>6. QED
    BY <2>1, <2>3, <2>4, <2>5
<1>5. ASSUME NEW msg \in waiting, Codex!ContinueWith(msg), waiting' = {}, UNCHANGED <<inbox, sent, ctask, refused>>
      PROVE  MessagesAreDistinct'
  BY <1>0, <1>5, PlacedContinues DEF Codex!ContinueWith
<1>6. ASSUME waiting' = {}, UNCHANGED <<inbox, sent, ctask, surfaced, refused>>
      PROVE  MessagesAreDistinct'
  BY <1>0, <1>6, PlacedForgets
<1>7. CASE Codex!TakeCompleted
  <2>1. CASE \E msg \in waiting : msg.op = "interrupt"
    BY <1>5, <1>7, <2>1 DEF Codex!TakeCompleted
  <2>2. CASE ~\E msg \in waiting : msg.op = "interrupt"
    BY <1>6, <1>7, <2>2 DEF Codex!TakeCompleted, Codex!Finish, Codex!TakeNote
  <2>3. QED
    BY <2>1, <2>2
<1>8. CASE Codex!SettleTimeout
  <2>1. PICK msg \in waiting :
          IF msg.op = "interrupt"
          THEN Codex!ContinueWith(msg) /\ UNCHANGED <<pc, ctask, refused, result>>
          ELSE Codex!Finish("interrupted") /\ UNCHANGED <<Codex!server, Codex!select>>
    BY <1>8 DEF Codex!SettleTimeout
  <2>2. waiting' = {} /\ UNCHANGED <<inbox, sent>>
    BY <1>8 DEF Codex!SettleTimeout
  <2>3. QED
    BY <1>5, <1>6, <2>1, <2>2 DEF Codex!Finish
<1>9. CASE Codex!Calls \/ Codex!Speaks \/ Codex!Completes \/ Codex!Dies \/ Codex!StreamRead \/ Codex!Start
           \/ Codex!TakeUsage \/ Codex!TakeText \/ Codex!TakeEnd
  <2>1. UNCHANGED <<inbox, sent, ctask, waiting, surfaced, refused>>
    BY <1>9 DEF Codex!Calls, Codex!Speaks, Codex!Completes, Codex!Dies, Codex!StreamRead, Codex!Start,
                Codex!TakeUsage, Codex!TakeText, Codex!TakeEnd, Codex!TakeNote, Codex!Interrupt
  <2>2. QED
    BY <1>1, <2>1
<1>10. QED
  BY <1>2, <1>3, <1>4, <1>7, <1>8, <1>9 DEF Codex!Next, Codex!Harness

LEMMA WaitingStep ==
    ASSUME CodexInv, Codex!Next
    PROVE  WaitingIsLatest'
<1> DEFINE seen == TakenOf(inbox, sent, ctask)
<1>0. /\ WaitingIsLatest /\ LastIsLast /\ handle \in Nat /\ seen \in Nat /\ taken \in Seq(Codex!Msgs)
      /\ Placed(inbox, sent, ctask, waiting, surfaced, refused)
  <2>1. Placed(inbox, sent, ctask, waiting, surfaced, refused)
    BY DEF CodexInv, MessagesAreDistinct
  <2>2. QED
    BY <2>1, PlacedTypes DEF CodexInv, CodexTypes
<1>1. ASSUME TakenOf(inbox', sent', ctask') = seen, UNCHANGED taken,
             \/ UNCHANGED <<waiting, handle>>
             \/ UNCHANGED waiting /\ pc = "start" /\ handle' = 1
             \/ waiting' = {} /\ handle' <= handle + 1 /\ waiting # {}
             \/ waiting' = {} /\ UNCHANGED handle
      PROVE  WaitingIsLatest'
  <2>1. CASE UNCHANGED <<waiting, handle>>
    BY <1>0, <1>1, <2>1 DEF WaitingIsLatest
  <2>2. CASE UNCHANGED waiting /\ pc = "start" /\ handle' = 1
    <3>1. waiting # {} => seen >= 1
      BY <1>0, PlacedTypes
    <3>2. handle' + (IF waiting' = {} THEN 0 ELSE 1) <= seen + 1
      BY <1>0, <2>2, <3>1
    <3>3. QED
      BY <1>0, <1>1, <2>2, <3>2 DEF WaitingIsLatest
  <2>3. CASE waiting' = {} /\ (UNCHANGED handle \/ (handle' <= handle + 1 /\ waiting # {}))
    <3>1. handle' \in Nat
      BY CodexTypesStep DEF CodexTypes
    <3>2. QED
      BY <1>0, <1>1, <2>3, <3>1 DEF WaitingIsLatest
  <2>4. QED
    BY <1>1, <2>1, <2>2, <2>3
<1>2. CASE Codex!OperatorSends
  <2>1. PICK op \in ControlOps : inbox' = Append(inbox, [id |-> sent + 1, op |-> op])
    BY <1>2 DEF Codex!OperatorSends, Codex!Ops, ControlOps
  <2>2. sent' = sent + 1 /\ UNCHANGED <<ctask, taken, waiting, handle>>
    BY <1>2 DEF Codex!OperatorSends
  <2>3. TakenOf(inbox', sent', ctask') = seen
    BY <1>0, <2>1, <2>2, PlacedSends
  <2>4. QED
    BY <1>1, <2>2, <2>3
<1>3. CASE Codex!ControlRead
  <2>1. /\ ctask = {} /\ inbox # <<>> /\ inbox' = Tail(inbox) /\ ctask' = {Head(inbox)}
        /\ UNCHANGED <<sent, taken, waiting, handle>>
    BY <1>3 DEF Codex!ControlRead
  <2>2. TakenOf(inbox', sent', ctask') = seen
    BY <1>0, <2>1, PlacedReads
  <2>3. QED
    BY <1>1, <2>1, <2>2
<1>4. ASSUME NEW msg \in ctask, Codex!TakeSteer(msg) \/ Codex!TakeInterrupt(msg)
      PROVE  WaitingIsLatest'
  <2>1. /\ ctask' = {} /\ taken' = Append(taken, msg) /\ UNCHANGED <<inbox, sent, handle>>
    BY <1>4 DEF Codex!TakeSteer, Codex!TakeInterrupt, Codex!TakeControl, Codex!Interrupt
  <2>2. TakenOf(inbox', sent', ctask') = seen + 1
    BY <1>0, <2>1, PlacedTakes
  <2>3. msg \in Codex!Msgs
    BY DEF CodexInv, CodexTypes
  <2>4. /\ Len(taken') = Len(taken) + 1 /\ taken'[Len(taken) + 1] = msg /\ Len(taken) \in Nat
        /\ \A i \in 1..Len(taken) : taken'[i] = taken[i]
        /\ DOMAIN taken = 1..Len(taken) /\ DOMAIN taken' = 1..Len(taken')
    BY <1>0, <2>1, <2>3
  <2> HIDE DEF seen
  <2>5. CASE Codex!TakeSteer(msg)
    <3>1. msg.op = "steer" /\ UNCHANGED waiting
      BY <2>5 DEF Codex!TakeSteer
    <3>2. ASSUME NEW m \in waiting
          PROVE  \E i \in DOMAIN taken' : /\ taken'[i] = m /\ m.op # "steer"
                                          /\ \A j \in DOMAIN taken' : j > i => taken'[j].op = "steer"
      <4>1. PICK i \in DOMAIN taken : /\ taken[i] = m /\ m.op # "steer"
                                      /\ \A j \in DOMAIN taken : j > i => taken[j].op = "steer"
        BY <1>0 DEF WaitingIsLatest
      <4>2. i \in DOMAIN taken' /\ taken'[i] = m
        BY <2>4, <4>1
      <4>3. \A j \in DOMAIN taken' : j > i => taken'[j].op = "steer"
        BY <2>4, <3>1, <4>1
      <4>4. QED
        BY <4>1, <4>2, <4>3
    <3>3. handle + (IF waiting = {} THEN 0 ELSE 1) <= (seen + 1) + 1
      BY <1>0 DEF WaitingIsLatest, seen
    <3>4. QED
      BY <2>1, <2>2, <3>1, <3>2, <3>3 DEF WaitingIsLatest
  <2>6. CASE Codex!TakeInterrupt(msg)
    <3>1. msg.op # "steer" /\ waiting' = {msg}
      BY <2>6 DEF Codex!TakeInterrupt
    <3>2. \E i \in DOMAIN taken' : /\ taken'[i] = msg /\ msg.op # "steer"
                                   /\ \A j \in DOMAIN taken' : j > i => taken'[j].op = "steer"
      BY <2>4, <3>1
    <3>3. handle + 1 <= (seen + 1) + 1
      BY <1>0 DEF WaitingIsLatest, seen
    <3>4. QED
      BY <2>1, <2>2, <3>1, <3>2, <3>3 DEF WaitingIsLatest
  <2>7. QED
    BY <1>4, <2>5, <2>6
<1>5. CASE Codex!TakeCompleted \/ Codex!SettleTimeout
  <2>1. /\ waiting' = {} /\ UNCHANGED <<inbox, sent, ctask, taken>>
        /\ UNCHANGED handle \/ (handle' = handle + 1 /\ waiting # {})
    BY <1>5 DEF Codex!TakeCompleted, Codex!SettleTimeout, Codex!ContinueWith, Codex!TakeNote
  <2>2. QED
    BY <1>0, <1>1, <2>1
<1>6. CASE Codex!Calls \/ Codex!Speaks \/ Codex!Completes \/ Codex!Dies \/ Codex!StreamRead \/ Codex!Start
           \/ Codex!TakeUsage \/ Codex!TakeText \/ Codex!TakeEnd
  <2>1. /\ UNCHANGED <<inbox, sent, ctask, waiting, taken>>
        /\ UNCHANGED handle \/ (pc = "start" /\ handle' = 1)
    BY <1>6 DEF Codex!Calls, Codex!Speaks, Codex!Completes, Codex!Dies, Codex!StreamRead, Codex!Start,
                Codex!TakeUsage, Codex!TakeText, Codex!TakeEnd, Codex!TakeNote, Codex!Interrupt
  <2>2. QED
    BY <1>1, <2>1
<1>7. QED
  BY <1>2, <1>3, <1>4, <1>5, <1>6 DEF Codex!Next, Codex!Harness

LEMMA CodexRests == CodexInv /\ UNCHANGED codex => CodexInv'
<1> SUFFICES ASSUME CodexInv, UNCHANGED codex PROVE CodexInv'
  OBVIOUS
<1> USE DEF codex, CodexInv
<1>1. CodexTypes'
  BY DEF CodexTypes
<1>2. CallsAreKept'
  BY DEF CallsAreKept, Unread, Read
<1>3. LastIsLast' /\ CapIsKept'
  BY DEF LastIsLast, CapIsKept, Codex!OverTurns, Codex!OverBudget
<1>4. FinalIsLatest'
  BY DEF FinalIsLatest
<1>5. MessagesAreDistinct' /\ WaitingIsLatest'
  BY DEF MessagesAreDistinct, WaitingIsLatest
<1>6. QED
  BY <1>1, <1>2, <1>3, <1>4, <1>5

LEMMA CodexInvInit == Codex!Init => CodexInv
<1> SUFFICES ASSUME Codex!Init PROVE CodexInv
  OBVIOUS
<1> USE DEF Codex!Init
<1>0. /\ <<>> \in Seq(Notes) /\ <<>> \in Seq(Codex!Msgs) /\ <<>> \in Seq(Texts) /\ <<>> \in Seq(Nat)
      /\ Len(<<>>) = 0 /\ 1..0 = {}
  OBVIOUS
<1>1. CodexTypes
  <2>1. /\ wire \in Seq(Notes) /\ inbox \in Seq(Codex!Msgs) /\ texts \in Seq(Texts)
        /\ taken \in Seq(Codex!Msgs) /\ surfaced \in Seq(Nat)
    BY <1>0
  <2>2. sent \in 0..CodexMsgs /\ made \in 0..CodexCalls
    BY CodexConstants
  <2>3. ctask = {} /\ waiting = {} /\ result = {} /\ stask = "pending" /\ handle = 0 /\ calls = 0
    OBVIOUS
  <2>4. final \in [n : Nat, isFinal : BOOLEAN] /\ pc = "start" /\ serving = "idle" /\ limit = "none"
        /\ expired = FALSE /\ priced \in BOOLEAN
    OBVIOUS
  <2>5. QED
    BY ONLY <2>1, <2>2, <2>3, <2>4 DEF CodexTypes
<1>2. CallsAreKept
  <2>1. "pending" \notin {"usage"} \cup Texts
    BY DEF Texts
  <2>2. OnWire(wire, {"usage"}) = 0 /\ OnWire(wire, Texts) = 0 /\ Len(texts) = 0
    BY <1>0, OnEmptyWire
  <2>3. QED
    BY <2>1, <2>2, CodexConstants DEF CallsAreKept, Unread, Read
<1>3. LastIsLast
  BY <1>0 DEF LastIsLast, Lasts
<1>4. CapIsKept
  BY CodexConstants DEF CapIsKept, Codex!OverTurns, Codex!OverBudget
<1>5. FinalIsLatest
  BY <1>0 DEF FinalIsLatest
<1>6. MessagesAreDistinct /\ WaitingIsLatest
  <2>1. inbox = <<>> /\ surfaced = <<>> /\ sent = 0 /\ ctask = {} /\ waiting = {} /\ refused = {} /\ handle = 0
    OBVIOUS
  <2>2. <<>> \in Seq(ControlMsgs) /\ TakenOf(inbox, sent, ctask) = 0
    <3>1. sent = 0 /\ ctask = {} /\ Len(inbox) = 0
      BY <1>0, <2>1
    <3>2. TakenOf(inbox, sent, ctask) = 0
      BY ONLY <3>1 DEF TakenOf
    <3>3. QED
      BY <3>2
  <2>3. QED
    BY <1>0, <2>1, <2>2 DEF MessagesAreDistinct, WaitingIsLatest, Placed
<1>7. QED
  BY <1>1, <1>2, <1>3, <1>4, <1>5, <1>6 DEF CodexInv

LEMMA CodexInvariant == Spec => []CodexInv
<1>1. Init => CodexInv
  BY CodexInvInit DEF Init
<1>2. CodexInv /\ [Next]_vars => CodexInv'
  <2>1. ASSUME CodexInv, Codex!Next PROVE CodexInv'
    BY <2>1, CodexTypesStep, CallsAreKeptStep, LastIsLastStep, CapIsKeptStep, FinalIsLatestStep, MessagesStep,
       WaitingStep
       DEF CodexInv
  <2>2. QED
    BY <2>1, CodexMoves, CodexRests
<1>3. QED
  BY <1>1, <1>2, PTL DEF Spec

\* The result counts every model call that was made, a cap that was reached is
\* what it reports, its text is the last answer and no message of the operator
\* is given to the model twice or after it was refused, whatever the bounds.
THEOREM CodexReports == Spec => []CodexReportsTruly
<1>1. ASSUME CodexInv PROVE CodexReportsTruly
  <2> USE <1>1 DEF CodexInv
  <2>1. Codex!CallsAreCounted
    <3> SUFFICES ASSUME pc = "done", ~expired PROVE calls = made
      BY DEF Codex!CallsAreCounted
    <3>1. wire = <<>> /\ stask = "pending"
      BY DEF LastIsLast
    <3>2. Unread({"usage"}) = 0
      BY <3>1, OnEmptyWire DEF Unread, Read
    <3>3. calls + Unread({"usage"}) = made /\ calls \in Nat
      BY DEF CallsAreKept, CodexTypes
    <3>4. QED
      BY <3>2, <3>3
  <2>2. Codex!CapIsReported
    BY DEF Codex!CapIsReported, CapIsKept
  <2>3. Codex!ResultIsTheAnswer
    <3> DEFINE answers == {i \in 1..Len(texts) : texts[i] = "answer"}
               best    == IF answers = {} THEN 1..Len(texts) ELSE answers
    <3>1. texts \in Seq(Texts) /\ DOMAIN texts = 1..Len(texts) /\ final.n \in Nat
      BY DEF CodexTypes
    <3>2. /\ best = {} => final.n = 0
          /\ best # {} => final.n \in best
          /\ \A j \in best : j <= final.n
      BY DEF FinalIsLatest
    <3>3. best \subseteq 1..Len(texts) /\ Len(texts) \in Nat
      BY <3>1
    <3> HIDE DEF best
    <3>4. \A i \in best : (\A j \in best : j <= i) => i = final.n
      BY <3>1, <3>2, <3>3
    <3>5. final.n = IF best = {} THEN 0 ELSE CHOOSE i \in best : \A j \in best : j <= i
      BY <3>2, <3>4
    <3>6. QED
      BY <3>1, <3>5 DEF Codex!ResultIsTheAnswer, best
  <2>4. Codex!DeliveredOnce
    <3>1. surfaced \in Seq(Nat) /\ DOMAIN surfaced = 1..Len(surfaced)
      BY DEF CodexTypes
    <3>2. QED
      BY <3>1 DEF Codex!DeliveredOnce, MessagesAreDistinct, Placed
  <2>5. QED
    BY <2>1, <2>2, <2>3, <2>4 DEF CodexReportsTruly
<1>2. QED
  BY <1>1, CodexInvariant, PTL

\* A further Codex turn starts for the latest interrupt the loop took.
LEMMA ContinuesFromTheLatest == Spec => Codex!ContinuesFromTheLatest
<1> DEFINE Latest1 == handle' # handle /\ handle > 0 =>
                        \E i \in DOMAIN taken :
                          /\ taken[i].op = "interrupt" /\ surfaced' = Append(surfaced, taken[i].id)
                          /\ \A j \in DOMAIN taken : j > i => taken[j].op = "steer"
<1>1. ASSUME CodexInv, Codex!Next PROVE Latest1
  <2>1. ASSUME NEW msg \in waiting, msg.op = "interrupt", surfaced' = Append(surfaced, msg.id) PROVE Latest1
    <3>1. \E i \in DOMAIN taken : /\ taken[i] = msg /\ msg.op # "steer"
                                 /\ \A j \in DOMAIN taken : j > i => taken[j].op = "steer"
      BY <1>1 DEF CodexInv, WaitingIsLatest
    <3>2. PICK i \in DOMAIN taken : taken[i] = msg /\ \A j \in DOMAIN taken : j > i => taken[j].op = "steer"
      BY <3>1
    <3>3. QED
      BY <2>1, <3>2
  <2>2. CASE Codex!TakeCompleted \/ Codex!SettleTimeout
    <3>1. \/ UNCHANGED handle
          \/ \E msg \in waiting : msg.op = "interrupt" /\ surfaced' = Append(surfaced, msg.id)
      <4>1. \A m, n \in waiting : m = n
        BY <1>1 DEF CodexInv, MessagesAreDistinct, Placed
      <4>2. QED
        BY <2>2, <4>1 DEF Codex!TakeCompleted, Codex!SettleTimeout, Codex!ContinueWith
    <3>2. QED
      BY <2>1, <3>1
  <2>3. CASE Codex!Start
    <3>1. pc = "start"
      BY <2>3 DEF Codex!Start
    <3>2. handle = 0
      BY <1>1, <3>1 DEF CodexInv, LastIsLast
    <3>3. ~(handle > 0)
      BY <3>2
    <3>4. QED
      BY <3>3
  <2>4. CASE ~(Codex!TakeCompleted \/ Codex!SettleTimeout \/ Codex!Start)
    <3>1. UNCHANGED handle
      BY <1>1, <2>4 DEF Codex!Next, Codex!Harness, Codex!Calls, Codex!Speaks, Codex!Completes, Codex!Dies,
                  Codex!OperatorSends, Codex!StreamRead, Codex!ControlRead, Codex!TakeSteer,
                  Codex!TakeInterrupt, Codex!TakeText, Codex!TakeEnd, Codex!TakeUsage, Codex!Interrupt
    <3>2. QED
      BY <3>1
  <2>5. QED
    BY <2>2, <2>3, <2>4
<1>2. CodexInv /\ [Next]_vars => [Latest1]_codex
  BY <1>1, CodexMoves
<1>3. CodexInv /\ [Next]_vars => [Latest1]_Codex!vars
  <2>1. UNCHANGED codex => UNCHANGED Codex!vars
    BY DEF codex
  <2>2. QED
    BY <1>2, <2>1
<1>4. QED
  BY <1>3, CodexInvariant, PTL DEF Codex!ContinuesFromTheLatest, Spec

-----------------------------------------------------------------------------
(* The bills of a Codex session, with a state file that holds and with one *)
(* that may fail: both keep the same invariant.                            *)

USE DEF Ledger!vars, Ledger!threads, FaultyLedger!vars, FaultyLedger!threads

Subs == DOMAIN SubModels
Moving == part \in {"ledger", "faulty_ledger"}

LEMMA LedgerMoves ==
    [Next]_vars => (Moving /\ (Ledger!Next \/ FaultyLedger!Next)) \/ UNCHANGED ledger
<1>1. part \in {"ledger", "faulty_ledger"} /\ Next => Moving /\ (Ledger!Next \/ FaultyLedger!Next)
  BY DEF Next, Moving
<1>2. part \notin {"ledger", "faulty_ledger"} /\ Next => UNCHANGED ledger
  BY DEF Next
<1>3. UNCHANGED vars => UNCHANGED ledger
  BY DEF vars
<1>4. QED
  BY <1>1, <1>2, <1>3

\* The last rollout of a thread that has a record, when there are two at most.
Latest(f) ==
    IF Len(f) = 0 THEN 0
    ELSE IF Len(f) = 2 /\ f[2] > 0 THEN f[2] ELSE f[1]

LedgerTypes ==
    /\ running \in BOOLEAN /\ routed \in BOOLEAN /\ lost \in BOOLEAN
    /\ spent \in [Subs -> Nat] /\ state \in [Subs -> Nat] /\ billed \in [Subs -> Nat]
    /\ files \in [Subs -> Seq(Nat)]
    /\ status \in [Subs -> {"unseen", "activity", "running", "ended"}]

\* A rollout holds no more than its thread spent, and all of it once the
\* thread was announced as ended.
RolloutsLag ==
    \A t \in Subs :
        /\ Len(files[t]) <= 2
        /\ \A i \in 1..Len(files[t]) : files[t][i] <= spent[t]
        /\ status[t] = "ended" => files[t] # <<>> /\ files[t][Len(files[t])] = spent[t]

\* The state file never runs ahead of the rollouts nor of the results, and it
\* is what the results billed unless it failed.
StateIsBilled ==
    \A t \in Subs :
        /\ state[t] <= Latest(files[t]) /\ state[t] <= billed[t]
        /\ ~lost => billed[t] = state[t]

BudgetIsKept ==
    /\ running => l_result = {}
    /\ \A r \in l_result : r.subtype = "success" => \A c \in r.cost : c < LedgerBudget

LedgerInv == LedgerTypes /\ RolloutsLag /\ StateIsBilled /\ BudgetIsKept

LEMMA LatestIs ==
    ASSUME NEW f \in Seq(Nat), Len(f) <= 2
    PROVE  LET kept == {i \in DOMAIN f : f[i] > 0}
               top  == CHOOSE i \in kept : \A j \in kept : i >= j
           IN  (IF kept = {} THEN 0 ELSE f[top]) = Latest(f) /\ Latest(f) \in Nat
<1> DEFINE kept == {i \in DOMAIN f : f[i] > 0}
           top  == CHOOSE i \in kept : \A j \in kept : i >= j
<1>1. DOMAIN f = 1..Len(f) /\ Len(f) \in {0, 1, 2} /\ \A i \in 1..Len(f) : f[i] \in Nat
  <2>1. Len(f) \in Nat /\ DOMAIN f = 1..Len(f) /\ \A i \in 1..Len(f) : f[i] \in Nat
    OBVIOUS
  <2>2. \A n \in Nat : n <= 2 => n \in {0, 1, 2}
    OBVIOUS
  <2>3. QED
    BY <2>1, <2>2
<1>2. CASE Len(f) = 0
  BY <1>1, <1>2 DEF Latest
<1>3. CASE Len(f) = 2 /\ f[2] > 0
  <2>1. 2 \in kept /\ kept \subseteq {1, 2}
    BY <1>1, <1>3
  <2> HIDE DEF kept
  <2>2. top = 2
    <3>1. \A i \in kept : (\A j \in kept : i >= j) <=> i = 2
      BY <2>1
    <3>2. QED
      BY <2>1, <3>1
  <2>3. QED
    BY <1>1, <1>3, <2>1, <2>2 DEF Latest, kept
<1>4. CASE (Len(f) = 2 /\ ~(f[2] > 0)) \/ Len(f) = 1
  <2>1. Latest(f) = f[1] /\ f[1] \in Nat
    BY <1>1, <1>4 DEF Latest
  <2>2. CASE f[1] > 0
    <3>1. kept = {1}
      BY <1>1, <1>4, <2>2
    <3> HIDE DEF kept
    <3>2. top = 1
      BY <3>1
    <3>3. QED
      BY <2>1, <3>1, <3>2 DEF kept
  <2>3. CASE ~(f[1] > 0)
    <3>1. kept = {}
      BY <1>1, <1>4, <2>3
    <3>2. QED
      BY <2>1, <2>3, <3>1
  <2>4. QED
    BY <2>2, <2>3
<1>5. QED
  BY <1>1, <1>2, <1>3, <1>4

LEMMA LedgerConstants ==
    /\ LedgerBudget \in Nat \ {0} /\ SubModels \in [Subs -> {"parent", "other", "unknown"}]
<1>1. Ledger!CodexLedgerAssumption
  BY HarnessAssumption
<1>2. QED
  BY <1>1 DEF Ledger!CodexLedgerAssumption, Subs

\* What both models of the ledger read in the rollouts and bill.
LEMMA BothRead ==
    ASSUME LedgerInv, NEW t \in Subs
    PROVE  /\ Ledger!Recorded(t) = Latest(files[t]) /\ FaultyLedger!Recorded(t) = Latest(files[t])
           /\ Latest(files[t]) \in Nat /\ Latest(files[t]) <= spent[t]
           /\ \A known \in [Subs -> Nat] :
                LET more == IF Latest(files[t]) > known[t] THEN Latest(files[t]) - known[t] ELSE 0
                IN  Ledger!Delta(t, known) = more /\ FaultyLedger!Delta(t, known) = more
<1>1. files[t] \in Seq(Nat) /\ Len(files[t]) <= 2 /\ spent[t] \in Nat
  BY DEF LedgerInv, LedgerTypes, RolloutsLag
<1>2. Ledger!Recorded(t) = Latest(files[t]) /\ FaultyLedger!Recorded(t) = Latest(files[t])
  BY <1>1, LatestIs DEF Ledger!Recorded, FaultyLedger!Recorded, Ledger!Max, FaultyLedger!Max
<1>3. Latest(files[t]) \in Nat
  BY <1>1, LatestIs
<1>4. Latest(files[t]) <= spent[t]
  <2>1. \A i \in 1..Len(files[t]) : files[t][i] <= spent[t]
    BY DEF LedgerInv, RolloutsLag
  <2>2. Len(files[t]) \in {0, 1, 2}
    <3>1. Len(files[t]) \in Nat /\ \A n \in Nat : n <= 2 => n \in {0, 1, 2}
      BY <1>1
    <3>2. QED
      BY <1>1, <3>1
  <2>3. QED
    BY <1>1, <2>1, <2>2 DEF Latest
<1>5. ASSUME NEW x \in Int PROVE (CHOOSE y \in {x, 0} : \A z \in {x, 0} : y >= z) = IF x > 0 THEN x ELSE 0
  BY <1>5
<1>6. ASSUME NEW known \in [Subs -> Nat]
      PROVE  LET more == IF Latest(files[t]) > known[t] THEN Latest(files[t]) - known[t] ELSE 0
             IN  Ledger!Delta(t, known) = more /\ FaultyLedger!Delta(t, known) = more
  <2>1. Latest(files[t]) - known[t] \in Int /\ known[t] \in Nat
    BY <1>3
  <2>2. (CHOOSE y \in {Latest(files[t]) - known[t], 0} : \A z \in {Latest(files[t]) - known[t], 0} : y >= z)
          = IF Latest(files[t]) - known[t] > 0 THEN Latest(files[t]) - known[t] ELSE 0
    BY <1>5, <2>1
  <2>3. QED
    BY <1>2, <1>3, <2>1, <2>2 DEF Ledger!Delta, FaultyLedger!Delta, Ledger!Max, FaultyLedger!Max
<1>7. QED
  BY <1>2, <1>3, <1>4, <1>6

\* A completed turn in either model, in terms of what it reads.
LEMMA CompletedBills ==
    ASSUME LedgerInv, Ledger!Completed \/ FaultyLedger!Completed
    PROVE  \E known \in [Subs -> Nat], written \in BOOLEAN :
             LET more == [t \in Subs |-> IF Latest(files[t]) > known[t] THEN Latest(files[t]) - known[t] ELSE 0]
             IN  /\ running /\ ~running' /\ running' \in BOOLEAN
                 /\ \A t \in Subs : known[t] <= state[t]
                 /\ state' = IF written THEN [t \in Subs |-> IF Latest(files[t]) > 0 THEN Latest(files[t]) ELSE known[t]]
                             ELSE state
                 /\ lost' = (lost \/ ~written \/ known # state)
                 /\ billed' = [t \in Subs |-> billed[t] + more[t]]
                 /\ \E r : /\ l_result' = {r} /\ r.subtype # "interrupted" /\ r.routed = routed
                           /\ r.subtype = "success" => \A c \in r.cost : c < LedgerBudget
                           /\ ~routed /\ r.cost # {} => \A t \in Subs : more[t] > 0 => SubModels[t] # "unknown"
                           /\ \A t \in Subs : \/ status[t] = "running"
                                              \/ status[t] # "unseen" /\ Latest(files[t]) = 0
                                             => t \in r.flagged
                 /\ UNCHANGED <<turn, routed, l_calls, charged, spent, files, status>>
<1> DEFINE More(known) == [t \in Subs |-> IF Latest(files[t]) > known[t] THEN Latest(files[t]) - known[t] ELSE 0]
<1>0. /\ state \in [Subs -> Nat] /\ Ledger!None \in [Subs -> Nat] /\ FaultyLedger!None \in [Subs -> Nat]
      /\ \A t \in Subs : 0 <= state[t] /\ Ledger!None[t] = 0 /\ FaultyLedger!None[t] = 0
  BY DEF LedgerInv, LedgerTypes, Ledger!None, FaultyLedger!None, Subs
<1>1. CASE Ledger!Completed
  <2>1. PICK known \in Ledger!Reads, written \in {TRUE} :
          /\ state' = IF written THEN Ledger!StateAfter(known) ELSE state
          /\ lost' = (lost \/ ~written \/ known # state)
          /\ billed' = [t \in DOMAIN SubModels |-> billed[t] + Ledger!Delta(t, known)]
          /\ l_result' = {[subtype |-> IF Ledger!Capped(known) THEN "budget" ELSE "success",
                           cost |-> Ledger!Cost(known), routed |-> routed,
                           flagged |-> Ledger!Missing \union Ledger!Partial]}
    BY <1>1 DEF Ledger!Completed
  <2>2. known \in [Subs -> Nat] /\ \A t \in Subs : known[t] <= state[t]
    BY <1>0, <2>1 DEF Ledger!Reads
  <2> DEFINE r == [subtype |-> IF Ledger!Capped(known) THEN "budget" ELSE "success",
                   cost |-> Ledger!Cost(known), routed |-> routed,
                   flagged |-> Ledger!Missing \union Ledger!Partial]
  <2>3. \A t \in Subs : Ledger!Recorded(t) = Latest(files[t]) /\ Ledger!Delta(t, known) = More(known)[t]
    BY <2>2, BothRead
  <2>4. state' = IF written THEN [t \in Subs |-> IF Latest(files[t]) > 0 THEN Latest(files[t]) ELSE known[t]] ELSE state
    BY <2>1, <2>3 DEF Ledger!StateAfter, Subs
  <2>5. billed' = [t \in Subs |-> billed[t] + More(known)[t]]
    BY <2>1, <2>3 DEF Subs
  <2>6. r.subtype = "success" => \A c \in r.cost : c < LedgerBudget
    BY DEF Ledger!Capped
  <2>7. ~routed /\ r.cost # {} => \A t \in Subs : More(known)[t] > 0 => SubModels[t] # "unknown"
    <3>1. ~routed /\ r.cost # {} => ~\E t \in Ledger!Billable(known) : Ledger!Price(t) = {}
      BY DEF Ledger!Cost, Ledger!NativeCost
    <3>2. \A t \in Subs : SubModels[t] = "unknown" => Ledger!Price(t) = {}
      BY DEF Ledger!Price
    <3>3. \A t \in Subs : More(known)[t] > 0 => t \in Ledger!Billable(known)
      BY <2>3 DEF Ledger!Billable, Subs
    <3> HIDE DEF r, More
    <3>4. QED
      BY <3>1, <3>2, <3>3
  <2>8. \A t \in Subs : (status[t] = "running" \/ (status[t] # "unseen" /\ Latest(files[t]) = 0)) => t \in r.flagged
    BY <2>3 DEF Ledger!Missing, Ledger!Partial, Subs
  <2>9. r.subtype # "interrupted" /\ r.routed = routed /\ l_result' = {r}
    BY <2>1
  <2>10. running /\ ~running' /\ running' \in BOOLEAN /\ UNCHANGED <<turn, routed, l_calls, charged, spent, files, status>>
    BY <1>1 DEF Ledger!Completed
  <2> HIDE DEF r
  <2>11. QED
    BY <2>1, <2>2, <2>4, <2>5, <2>6, <2>7, <2>8, <2>9, <2>10, Zenon
<1>2. CASE FaultyLedger!Completed
  <2>1. PICK known \in FaultyLedger!Reads, written \in BOOLEAN :
          /\ state' = IF written THEN FaultyLedger!StateAfter(known) ELSE state
          /\ lost' = (lost \/ ~written \/ known # state)
          /\ billed' = [t \in DOMAIN SubModels |-> billed[t] + FaultyLedger!Delta(t, known)]
          /\ l_result' = {[subtype |-> IF FaultyLedger!Capped(known) THEN "budget" ELSE "success",
                           cost |-> FaultyLedger!Cost(known), routed |-> routed,
                           flagged |-> FaultyLedger!Missing \union FaultyLedger!Partial]}
    BY <1>2 DEF FaultyLedger!Completed
  <2>2. known \in [Subs -> Nat] /\ \A t \in Subs : known[t] <= state[t]
    BY <1>0, <2>1 DEF FaultyLedger!Reads
  <2> DEFINE r == [subtype |-> IF FaultyLedger!Capped(known) THEN "budget" ELSE "success",
                   cost |-> FaultyLedger!Cost(known), routed |-> routed,
                   flagged |-> FaultyLedger!Missing \union FaultyLedger!Partial]
  <2>3. \A t \in Subs : FaultyLedger!Recorded(t) = Latest(files[t]) /\ FaultyLedger!Delta(t, known) = More(known)[t]
    BY <2>2, BothRead
  <2>4. state' = IF written THEN [t \in Subs |-> IF Latest(files[t]) > 0 THEN Latest(files[t]) ELSE known[t]] ELSE state
    BY <2>1, <2>3 DEF FaultyLedger!StateAfter, Subs
  <2>5. billed' = [t \in Subs |-> billed[t] + More(known)[t]]
    BY <2>1, <2>3 DEF Subs
  <2>6. r.subtype = "success" => \A c \in r.cost : c < LedgerBudget
    BY DEF FaultyLedger!Capped
  <2>7. ~routed /\ r.cost # {} => \A t \in Subs : More(known)[t] > 0 => SubModels[t] # "unknown"
    <3>1. ~routed /\ r.cost # {} => ~\E t \in FaultyLedger!Billable(known) : FaultyLedger!Price(t) = {}
      BY DEF FaultyLedger!Cost, FaultyLedger!NativeCost
    <3>2. \A t \in Subs : SubModels[t] = "unknown" => FaultyLedger!Price(t) = {}
      BY DEF FaultyLedger!Price
    <3>3. \A t \in Subs : More(known)[t] > 0 => t \in FaultyLedger!Billable(known)
      BY <2>3 DEF FaultyLedger!Billable, Subs
    <3> HIDE DEF r, More
    <3>4. QED
      BY <3>1, <3>2, <3>3
  <2>8. \A t \in Subs : (status[t] = "running" \/ (status[t] # "unseen" /\ Latest(files[t]) = 0)) => t \in r.flagged
    BY <2>3 DEF FaultyLedger!Missing, FaultyLedger!Partial, Subs
  <2>9. r.subtype # "interrupted" /\ r.routed = routed /\ l_result' = {r}
    BY <2>1
  <2>10. running /\ ~running' /\ running' \in BOOLEAN /\ UNCHANGED <<turn, routed, l_calls, charged, spent, files, status>>
    BY <1>2 DEF FaultyLedger!Completed
  <2> HIDE DEF r
  <2>11. QED
    BY <2>1, <2>2, <2>4, <2>5, <2>6, <2>7, <2>8, <2>9, <2>10
<1>3. QED
  BY <1>1, <1>2

LEMMA OneOrTwo == \A n \in Nat : n <= 2 /\ n > 0 => n = 1 \/ n = 2
  OBVIOUS

LEMMA SecondRollout ==
    ASSUME NEW s \in Seq(Nat), NEW x \in Nat, Len(s) = 1
    PROVE  /\ Append(s, x) \in Seq(Nat) /\ Len(Append(s, x)) = 2
           /\ Append(s, x)[1] = s[1] /\ Append(s, x)[2] = x
<1>1. Append(s, x) \in Seq(Nat)
  OBVIOUS
<1>2. Len(Append(s, x)) = 2 /\ Append(s, x)[2] = x
  OBVIOUS
<1>3. Append(s, x)[1] = s[1]
  OBVIOUS
<1>4. QED
  BY <1>1, <1>2, <1>3

LEMMA LedgerStep ==
    ASSUME LedgerInv, Ledger!Next \/ FaultyLedger!Next
    PROVE  LedgerInv'
<1> USE DEF Subs
<1>0. /\ LedgerTypes /\ RolloutsLag /\ StateIsBilled /\ BudgetIsKept
      /\ \A t \in Subs : /\ Latest(files[t]) \in Nat /\ spent[t] \in Nat /\ files[t] \in Seq(Nat)
                         /\ Len(files[t]) \in Nat /\ state[t] \in Nat /\ billed[t] \in Nat
  <2>1. \A t \in Subs : files[t] \in Seq(Nat) /\ spent[t] \in Nat /\ state[t] \in Nat /\ billed[t] \in Nat
    BY DEF LedgerInv, LedgerTypes
  <2>2. \A t \in Subs : Latest(files[t]) \in Nat
    BY BothRead
  <2>3. \A t \in Subs : Len(files[t]) \in Nat
    BY <2>1
  <2>4. QED
    BY <2>1, <2>2, <2>3 DEF LedgerInv
<1>1. CASE Ledger!Begin \/ FaultyLedger!Begin
  <2>1. /\ running' = TRUE /\ routed' \in BOOLEAN /\ l_result' = {}
        /\ status' = [t \in Subs |-> "unseen"] /\ UNCHANGED <<spent, files, state, billed, lost>>
    BY <1>1 DEF Ledger!Begin, FaultyLedger!Begin
  <2>2. LedgerTypes' /\ RolloutsLag' /\ StateIsBilled' /\ BudgetIsKept'
    BY <1>0, <2>1 DEF LedgerTypes, RolloutsLag, StateIsBilled, BudgetIsKept
  <2>3. QED
    BY <2>2 DEF LedgerInv
<1>2. CASE Ledger!Call \/ FaultyLedger!Call
  <2>1. UNCHANGED <<running, routed, l_result, status, spent, files, state, billed, lost>>
    BY <1>2 DEF Ledger!Call, FaultyLedger!Call
  <2>2. LedgerTypes' /\ RolloutsLag' /\ StateIsBilled' /\ BudgetIsKept'
    BY <1>0, <2>1 DEF LedgerTypes, RolloutsLag, StateIsBilled, BudgetIsKept
  <2>3. QED
    BY <2>2 DEF LedgerInv
<1>3. ASSUME NEW t \in Subs, Ledger!Announce(t) \/ FaultyLedger!Announce(t) PROVE LedgerInv'
  <2>1. PICK s \in {"activity", "running", "ended"} :
          /\ status' = [status EXCEPT ![t] = s] \/ (status[t] = s /\ status' = status) \/ status' = [status EXCEPT ![t] = status[t]]
          /\ s = "ended" => files[t] # <<>> /\ files[t][Len(files[t])] = spent[t]
    BY <1>3 DEF Ledger!Announce, FaultyLedger!Announce, Ledger!Last, FaultyLedger!Last
  <2>2. UNCHANGED <<running, routed, l_result, spent, files, state, billed, lost>>
    BY <1>3 DEF Ledger!Announce, FaultyLedger!Announce
  <2>3. \A u \in Subs : status'[u] = status[u] \/ (u = t /\ status'[u] = s)
    BY <1>0, <2>1 DEF LedgerTypes
  <2>4. LedgerTypes'
    BY <1>0, <2>1, <2>2 DEF LedgerTypes
  <2>5. RolloutsLag'
    BY <1>0, <2>1, <2>2, <2>3 DEF RolloutsLag
  <2>6. StateIsBilled' /\ BudgetIsKept'
    BY <1>0, <2>2 DEF StateIsBilled, BudgetIsKept
  <2>7. QED
    BY <2>4, <2>5, <2>6 DEF LedgerInv
<1>4. ASSUME NEW t \in Subs, Ledger!SubSpends(t) \/ FaultyLedger!SubSpends(t) PROVE LedgerInv'
  <2>1. /\ status[t] # "ended" /\ spent' = [spent EXCEPT ![t] = @ + 1]
        /\ UNCHANGED <<running, routed, l_result, status, files, state, billed, lost>>
    BY <1>4 DEF Ledger!SubSpends, FaultyLedger!SubSpends
  <2>2. \A u \in Subs : spent'[u] = IF u = t THEN spent[t] + 1 ELSE spent[u]
    BY <1>0, <2>1 DEF LedgerTypes
  <2>3. LedgerTypes'
    BY <1>0, <2>1 DEF LedgerTypes
  <2>4. RolloutsLag'
    <3>1. ASSUME NEW u \in Subs, NEW i \in 1..Len(files[u]) PROVE files[u][i] <= spent'[u]
      <4>1. files[u][i] <= spent[u] /\ files[u][i] \in Nat /\ spent[u] \in Nat
        BY <1>0 DEF RolloutsLag
      <4>2. spent'[u] = spent[u] \/ spent'[u] = spent[u] + 1
        BY <2>2
      <4>3. QED
        BY ONLY <4>1, <4>2
    <3>2. QED
      BY <1>0, <2>1, <2>2, <3>1 DEF RolloutsLag
  <2>5. StateIsBilled' /\ BudgetIsKept'
    BY <1>0, <2>1 DEF StateIsBilled, BudgetIsKept
  <2>6. QED
    BY <2>3, <2>4, <2>5 DEF LedgerInv
<1>5. ASSUME NEW t \in Subs, NEW f \in Seq(Nat), files' = [files EXCEPT ![t] = f], Len(f) <= 2,
             \A i \in 1..Len(f) : f[i] <= spent[t],
             status[t] = "ended" => f # <<>> /\ f[Len(f)] = spent[t],
             Latest(files[t]) <= Latest(f),
             UNCHANGED <<running, routed, l_result, status, spent, state, billed, lost>>
      PROVE  LedgerInv'
  <2>1. \A u \in Subs : files'[u] = IF u = t THEN f ELSE files[u]
    BY <1>0, <1>5 DEF LedgerTypes
  <2>2. LedgerTypes'
    BY <1>0, <1>5 DEF LedgerTypes
  <2>3. RolloutsLag'
    BY <1>0, <1>5, <2>1 DEF RolloutsLag
  <2>4. StateIsBilled'
    <3>1. Latest(f) \in Nat
      BY <1>5, LatestIs
    <3>2. state[t] <= Latest(f)
      <4>1. state[t] <= Latest(files[t])
        BY <1>0 DEF StateIsBilled
      <4>2. QED
        BY <1>0, <1>5, <3>1, <4>1
    <3>3. QED
      BY <1>0, <1>5, <2>1, <3>2 DEF StateIsBilled
  <2>5. BudgetIsKept'
    BY <1>0, <1>5 DEF BudgetIsKept
  <2>6. QED
    BY <2>2, <2>3, <2>4, <2>5 DEF LedgerInv
<1>6. ASSUME NEW t \in Subs, Ledger!Flush(t) \/ FaultyLedger!Flush(t) PROVE LedgerInv'
  <2> DEFINE old == files[t]
             f   == IF old = <<>> THEN <<spent[t]>> ELSE [old EXCEPT ![Len(old)] = spent[t]]
  <2>1. /\ spent[t] > 0 /\ files' = [files EXCEPT ![t] = f]
        /\ UNCHANGED <<running, routed, l_result, status, spent, state, billed, lost>>
    BY <1>6 DEF Ledger!Flush, FaultyLedger!Flush
  <2>2. /\ old \in Seq(Nat) /\ spent[t] \in Nat /\ Len(old) \in Nat /\ Len(old) <= 2
        /\ \A i \in 1..Len(old) : old[i] <= spent[t] /\ old[i] \in Nat
    BY <1>0 DEF RolloutsLag
  <2>3. CASE old = <<>>
    <3>1. f = <<spent[t]>>
      BY <2>3
    <3>2. f \in Seq(Nat) /\ Len(f) = 1 /\ f[1] = spent[t] /\ f # <<>>
      BY <2>2, <3>1
    <3>3. Latest(f) = spent[t] /\ Latest(old) = 0
      BY <2>3, <3>2 DEF Latest
    <3> HIDE DEF f
    <3>4. /\ Len(f) <= 2 /\ f[Len(f)] = spent[t] /\ Latest(old) <= Latest(f)
          /\ \A i \in 1..Len(f) : f[i] <= spent[t]
      BY <2>2, <3>2, <3>3
    <3>5. QED
      BY <1>5, <2>1, <3>2, <3>4
  <2>4. CASE old # <<>>
    <3>1. f = [old EXCEPT ![Len(old)] = spent[t]] /\ Len(old) > 0
      BY <2>2, <2>4
    <3>2. /\ f \in Seq(Nat) /\ Len(f) = Len(old) /\ f[Len(old)] = spent[t]
          /\ \A i \in 1..Len(old) : i # Len(old) => f[i] = old[i]
      BY <2>2, <3>1
    <3>3. \A i \in 1..Len(f) : f[i] <= spent[t]
      BY <2>2, <3>2
    <3>4. Len(old) = 1 \/ Len(old) = 2
      <4>1. Len(old) \in Nat /\ Len(old) <= 2 /\ Len(old) > 0
        BY <2>2, <3>1
      <4>2. QED
        BY <4>1, OneOrTwo
    <3>5. Latest(f) = spent[t]
      BY <2>1, <2>2, <3>2, <3>4 DEF Latest
    <3>6. Latest(old) <= spent[t]
      BY BothRead
    <3>7. f # <<>>
      BY <3>1, <3>2
    <3> HIDE DEF f
    <3>8. QED
      BY <1>5, <2>1, <2>2, <3>2, <3>3, <3>5, <3>6, <3>7
  <2>5. QED
    BY <2>3, <2>4
<1>7. ASSUME NEW t \in Subs, Ledger!Resume(t) \/ FaultyLedger!Resume(t) PROVE LedgerInv'
  <2> DEFINE old == files[t]
             f   == Append(old, 0)
  <2>1. /\ Len(old) = 1 /\ status[t] # "ended" /\ files' = [files EXCEPT ![t] = f]
        /\ UNCHANGED <<running, routed, l_result, status, spent, state, billed, lost>>
    BY <1>7 DEF Ledger!Resume, FaultyLedger!Resume
  <2>2. old \in Seq(Nat) /\ spent[t] \in Nat /\ old[1] \in Nat /\ old[1] <= spent[t]
    BY <1>0, <2>1 DEF RolloutsLag
  <2>3. f \in Seq(Nat) /\ Len(f) = 2 /\ f[1] = old[1] /\ f[2] = 0
    <3>1. old \in Seq(Nat) /\ Len(old) = 1
      BY <2>1, <2>2
    <3>2. QED
      BY <3>1, SecondRollout, 0 \in Nat
  <2>4. Latest(f) = Latest(old)
    BY <2>1, <2>2, <2>3 DEF Latest
  <2>5. (\A i \in 1..Len(f) : f[i] <= spent[t]) /\ Latest(old) \in Nat
    BY <1>0, <2>2, <2>3
  <2> HIDE DEF f
  <2>6. Len(f) <= 2 /\ Latest(old) <= Latest(f)
    BY <2>3, <2>4, <2>5
  <2>7. QED
    BY <1>5, <2>1, <2>3, <2>5, <2>6
<1>8. CASE Ledger!Completed \/ FaultyLedger!Completed
  <2> DEFINE More(known) == [t \in Subs |-> IF Latest(files[t]) > known[t] THEN Latest(files[t]) - known[t] ELSE 0]
  <2>1. PICK known \in [Subs -> Nat], written \in BOOLEAN :
          /\ running' \in BOOLEAN /\ ~running'
          /\ \A t \in Subs : known[t] <= state[t]
          /\ state' = IF written THEN [t \in Subs |-> IF Latest(files[t]) > 0 THEN Latest(files[t]) ELSE known[t]]
                      ELSE state
          /\ lost' = (lost \/ ~written \/ known # state)
          /\ billed' = [t \in Subs |-> billed[t] + More(known)[t]]
          /\ \A r \in l_result' : r.subtype = "success" => \A c \in r.cost : c < LedgerBudget
          /\ UNCHANGED <<routed, spent, files, status>>
    BY <1>8, CompletedBills
  <2>2. \A t \in Subs : /\ known[t] \in Nat /\ known[t] <= state[t] /\ state[t] <= Latest(files[t])
                        /\ state[t] <= billed[t] /\ (~lost => billed[t] = state[t])
                        /\ More(known)[t] = Latest(files[t]) - known[t]
    <3>1. \A t \in Subs : known[t] \in Nat /\ known[t] <= state[t] /\ state[t] <= Latest(files[t])
                          /\ state[t] <= billed[t] /\ (~lost => billed[t] = state[t])
      BY <1>0, <2>1 DEF StateIsBilled
    <3>2. QED
      BY <1>0, <3>1
  <2>3. \A t \in Subs : billed'[t] = billed[t] + (Latest(files[t]) - known[t])
    BY <2>1, <2>2
  <2> HIDE DEF More
  <2>4. \A t \in Subs : billed'[t] \in Nat /\ billed'[t] >= Latest(files[t])
    BY <1>0, <2>2, <2>3
  <2>5. \A t \in Subs : state'[t] \in Nat /\ state'[t] <= Latest(files[t])
    BY <1>0, <2>1, <2>2
  <2>6. ASSUME ~lost', NEW t \in Subs PROVE billed'[t] = state'[t]
    <3>1. ~lost /\ written /\ known = state
      BY <2>1, <2>6
    <3>2. billed[t] = state[t] /\ known[t] = state[t] /\ billed'[t] = Latest(files[t])
      BY <1>0, <2>2, <2>3, <3>1
    <3>3. state'[t] = IF Latest(files[t]) > 0 THEN Latest(files[t]) ELSE known[t]
      BY <2>1, <3>1
    <3>4. QED
      BY <1>0, <2>2, <3>2, <3>3
  <2>7. LedgerTypes'
    <3>1. billed' \in [Subs -> Nat] /\ state' \in [Subs -> Nat]
      BY <1>0, <2>1, <2>4, <2>5 DEF LedgerTypes
    <3>2. lost' \in BOOLEAN
      BY <2>1
    <3>3. QED
      BY <1>0, <2>1, <3>1, <3>2 DEF LedgerTypes
  <2>8. RolloutsLag'
    BY <1>0, <2>1 DEF RolloutsLag
  <2>9. StateIsBilled'
    <3>1. \A t \in Subs : state'[t] <= billed'[t]
      BY <1>0, <2>4, <2>5
    <3>2. files' = files
      BY <2>1
    <3>3. QED
      BY <2>5, <2>6, <3>1, <3>2 DEF StateIsBilled
  <2>10. BudgetIsKept'
    BY <2>1 DEF BudgetIsKept
  <2>11. QED
    BY <2>7, <2>8, <2>9, <2>10 DEF LedgerInv
<1>9. CASE Ledger!StopSettled \/ FaultyLedger!StopSettled
  <2>1. /\ running' = FALSE /\ \A r \in l_result' : r.subtype # "success"
        /\ UNCHANGED <<routed, status, spent, files, state, billed, lost>>
    BY <1>9 DEF Ledger!StopSettled, FaultyLedger!StopSettled
  <2>2. LedgerTypes' /\ RolloutsLag' /\ StateIsBilled' /\ BudgetIsKept'
    BY <1>0, <2>1 DEF LedgerTypes, RolloutsLag, StateIsBilled, BudgetIsKept
  <2>3. QED
    BY <2>2 DEF LedgerInv
<1>10. QED
  BY <1>1, <1>2, <1>3, <1>4, <1>6, <1>7, <1>8, <1>9 DEF Ledger!Next, FaultyLedger!Next

LEMMA LedgerInvariant == Spec => []LedgerInv
<1>1. Init => LedgerInv
  <2> SUFFICES ASSUME Ledger!Init PROVE LedgerInv
    BY DEF Init
  <2>1. /\ running = FALSE /\ routed = FALSE /\ lost = FALSE /\ l_result = {}
        /\ spent = [t \in Subs |-> 0] /\ state = [t \in Subs |-> 0] /\ billed = [t \in Subs |-> 0]
        /\ files = [t \in Subs |-> <<>>] /\ status = [t \in Subs |-> "unseen"]
    BY DEF Ledger!Init, Ledger!None, Subs
  <2>2. <<>> \in Seq(Nat) /\ Len(<<>>) = 0 /\ 1..0 = {}
    OBVIOUS
  <2>3. LedgerTypes
    BY <2>1, <2>2 DEF LedgerTypes
  <2>4. RolloutsLag /\ BudgetIsKept
    BY <2>1, <2>2 DEF RolloutsLag, BudgetIsKept
  <2>5. StateIsBilled
    BY <2>1, <2>2 DEF StateIsBilled, Latest
  <2>6. QED
    BY <2>3, <2>4, <2>5 DEF LedgerInv
<1>2. LedgerInv /\ [Next]_vars => LedgerInv'
  <2>1. ASSUME LedgerInv, UNCHANGED ledger PROVE LedgerInv'
    BY <2>1 DEF ledger, LedgerInv, LedgerTypes, RolloutsLag, StateIsBilled, BudgetIsKept
  <2>2. QED
    BY <2>1, LedgerMoves, LedgerStep
<1>3. QED
  BY <1>1, <1>2, PTL DEF Spec

\* What a completed turn bills, flags and prices.
LEMMA LedgerEnds ==
    ASSUME LedgerInv, [Next]_vars
    PROVE  /\ [FaultyLedger!Completed => \A t \in Subs : billed'[t] >= FaultyLedger!Recorded(t)]_ledger
           /\ [\A res \in l_result' : Ledger!Ends /\ ~res.routed /\ res.cost # {} =>
                 \A t \in Subs : billed'[t] > billed[t] => SubModels[t] # "unknown"]_ledger
           /\ [\A res \in l_result' : FaultyLedger!Completed =>
                 \A t \in Subs : /\ spent[t] > FaultyLedger!Recorded(t)
                                 /\ \/ status[t] \in {"running", "ended"}
                                    \/ status[t] = "activity" /\ FaultyLedger!Recorded(t) = 0
                                => t \in res.flagged]_ledger
<1> USE DEF Subs
<1> DEFINE More(known) == [t \in Subs |-> IF Latest(files[t]) > known[t] THEN Latest(files[t]) - known[t] ELSE 0]
<1>1. CASE UNCHANGED ledger
  BY <1>1 DEF ledger
<1>2. CASE Ledger!Completed \/ FaultyLedger!Completed
  <2>1. PICK known \in [Subs -> Nat], written \in BOOLEAN :
          /\ \A t \in Subs : known[t] <= state[t]
          /\ billed' = [t \in Subs |-> billed[t] + More(known)[t]]
          /\ \E r : /\ l_result' = {r} /\ r.routed = routed
                    /\ ~routed /\ r.cost # {} => \A t \in Subs : More(known)[t] > 0 => SubModels[t] # "unknown"
                    /\ \A t \in Subs : \/ status[t] = "running"
                                       \/ status[t] # "unseen" /\ Latest(files[t]) = 0
                                      => t \in r.flagged
    BY <1>2, CompletedBills
  <2>2. PICK r : /\ l_result' = {r} /\ r.routed = routed
                 /\ ~routed /\ r.cost # {} => \A t \in Subs : More(known)[t] > 0 => SubModels[t] # "unknown"
                 /\ \A t \in Subs : \/ status[t] = "running"
                                    \/ status[t] # "unseen" /\ Latest(files[t]) = 0
                                   => t \in r.flagged
    BY <2>1
  <2>3. \A t \in Subs : /\ FaultyLedger!Recorded(t) = Latest(files[t]) /\ Latest(files[t]) \in Nat
                        /\ Latest(files[t]) <= spent[t] /\ spent[t] \in Nat
                        /\ state[t] \in Nat /\ billed[t] \in Nat /\ known[t] \in Nat
                        /\ state[t] <= billed[t] /\ known[t] <= state[t]
    BY <2>1, BothRead DEF LedgerInv, LedgerTypes, StateIsBilled
  <2>4. \A t \in Subs : billed'[t] = billed[t] + More(known)[t] /\ More(known)[t] \in Nat
                        /\ More(known)[t] >= Latest(files[t]) - known[t]
    BY <2>1, <2>3
  <2> HIDE DEF More
  <2>5. \A t \in Subs : billed'[t] >= FaultyLedger!Recorded(t)
    BY <2>3, <2>4
  <2>6. \A res \in l_result' : ~res.routed /\ res.cost # {} =>
          \A t \in Subs : billed'[t] > billed[t] => SubModels[t] # "unknown"
    BY <2>2, <2>3, <2>4
  <2>7. \A t \in Subs : status[t] = "ended" => ~(spent[t] > Latest(files[t]))
    <3> SUFFICES ASSUME NEW t \in Subs, status[t] = "ended" PROVE ~(spent[t] > Latest(files[t]))
      OBVIOUS
    <3>1. files[t] # <<>> /\ files[t][Len(files[t])] = spent[t] /\ Len(files[t]) <= 2 /\ files[t] \in Seq(Nat)
      BY DEF LedgerInv, LedgerTypes, RolloutsLag
    <3>2. Len(files[t]) = 1 \/ Len(files[t]) = 2
      <4>1. Len(files[t]) \in Nat /\ Len(files[t]) <= 2 /\ Len(files[t]) > 0
        BY <3>1
      <4>2. QED
        BY <4>1, OneOrTwo
    <3>3. spent[t] > 0 => Latest(files[t]) = spent[t]
      BY <3>1, <3>2 DEF Latest
    <3>4. QED
      BY <2>3, <3>3
  <2>8. \A res \in l_result' : \A t \in Subs :
          /\ spent[t] > FaultyLedger!Recorded(t)
          /\ \/ status[t] \in {"running", "ended"}
             \/ status[t] = "activity" /\ FaultyLedger!Recorded(t) = 0
          => t \in res.flagged
    BY <2>2, <2>3, <2>7
  <2>9. QED
    BY <2>5, <2>6, <2>8
<1>3. CASE ~(Ledger!Completed \/ FaultyLedger!Completed) /\ (Ledger!Next \/ FaultyLedger!Next)
  <2>1. ~Ledger!Ends \/ UNCHANGED billed
    BY <1>3 DEF Ledger!Next, FaultyLedger!Next, Ledger!Begin, FaultyLedger!Begin, Ledger!Call, FaultyLedger!Call,
                Ledger!Announce, FaultyLedger!Announce, Ledger!SubSpends, FaultyLedger!SubSpends, Ledger!Flush,
                FaultyLedger!Flush, Ledger!Resume, FaultyLedger!Resume, Ledger!StopSettled, FaultyLedger!StopSettled,
                Ledger!Ends
  <2>2. \A t \in Subs : billed[t] \in Nat
    BY DEF LedgerInv, LedgerTypes
  <2>3. QED
    BY <1>3, <2>1, <2>2
<1>4. QED
  BY <1>1, <1>2, <1>3, LedgerMoves

\* However the turns of a session end and its subagents go on, no token of
\* theirs is billed twice, a success is within the budget, and a completed
\* turn bills what was recorded and names what it may miss.
THEOREM SubagentsBilled == Spec => SubagentsAreBilled
<1>1. LedgerInv => (Moving => Ledger!NoTokenBilledTwice /\ Ledger!SuccessIsWithinBudget)
  <2> SUFFICES ASSUME LedgerInv PROVE Ledger!NoTokenBilledTwice /\ Ledger!SuccessIsWithinBudget
    OBVIOUS
  <2>1. Ledger!NoTokenBilledTwice
    <3> SUFFICES ASSUME ~lost, NEW t \in Subs PROVE billed[t] <= spent[t]
      BY DEF Ledger!NoTokenBilledTwice, Subs
    <3>1. billed[t] = state[t] /\ state[t] <= Latest(files[t]) /\ billed[t] \in Nat /\ spent[t] \in Nat
      BY DEF LedgerInv, LedgerTypes, StateIsBilled
    <3>2. Latest(files[t]) \in Nat /\ Latest(files[t]) <= spent[t]
      BY BothRead
    <3>3. QED
      BY <3>1, <3>2
  <2>2. Ledger!SuccessIsWithinBudget
    BY DEF Ledger!SuccessIsWithinBudget, LedgerInv, BudgetIsKept
  <2>3. QED
    BY <2>1, <2>2
<1> DEFINE Bills  == FaultyLedger!Completed => \A t \in DOMAIN SubModels : billed'[t] >= FaultyLedger!Recorded(t)
           Prices == \A res \in l_result' : Ledger!Ends /\ ~res.routed /\ res.cost # {} =>
                       \A t \in DOMAIN SubModels : billed'[t] > billed[t] => SubModels[t] # "unknown"
           Flags  == \A res \in l_result' : FaultyLedger!Completed =>
                       \A t \in DOMAIN SubModels :
                         /\ spent[t] > FaultyLedger!Recorded(t)
                         /\ \/ status[t] \in {"running", "ended"}
                            \/ status[t] = "activity" /\ FaultyLedger!Recorded(t) = 0
                         => t \in res.flagged
<1>2. LedgerInv /\ [Next]_vars => [Bills]_FaultyLedger!vars /\ [Prices]_Ledger!vars /\ [Flags]_FaultyLedger!vars
  BY LedgerEnds DEF Subs, ledger
<1>3. Spec => [](Moving => Ledger!NoTokenBilledTwice /\ Ledger!SuccessIsWithinBudget)
  BY <1>1, LedgerInvariant, PTL
<1>4. Spec => [][Bills]_FaultyLedger!vars /\ [][Prices]_Ledger!vars /\ [][Flags]_FaultyLedger!vars
  BY <1>2, LedgerInvariant, PTL DEF Spec
<1>5. Spec => FaultyLedger!CompletedCatchesUp /\ Ledger!CostIsWhole /\ FaultyLedger!UndercountIsReported
  BY <1>4 DEF FaultyLedger!CompletedCatchesUp, Ledger!CostIsWhole, FaultyLedger!UndercountIsReported
<1>6. Spec => [](part \in {"ledger", "faulty_ledger"} =>
                  Ledger!NoTokenBilledTwice /\ Ledger!SuccessIsWithinBudget)
  BY <1>3 DEF Moving
<1>7. QED
  BY <1>5, <1>6 DEF SubagentsAreBilled

-----------------------------------------------------------------------------
(* The types of these components: what the invariants above leave out are  *)
(* the bounds of counters. ClaudeProofs has Claude Code's and the theorem. *)

LEMMA AtMostOne ==
    ASSUME NEW S, \A q, r \in S : q = r
    PROVE  Cardinality(S) <= 1
<1>1. CASE S = {}
  BY <1>1, FS_EmptySet
<1>2. CASE S # {}
  <2>1. PICK q : q \in S
    BY <1>2
  <2>2. S = {q}
    BY <2>1
  <2>3. Cardinality({q}) = 1
    BY FS_Singleton
  <2>4. QED
    BY <2>2, <2>3
<1>3. QED
  BY <1>1, <1>2

LEMMA ProxyTyped == ProxyInv => Proxy!TypeOK
<1> SUFFICES ASSUME ProxyInv PROVE Proxy!TypeOK
  OBVIOUS
<1>1. CallTypes /\ RecordTypes /\ active = Cardinality(Busy)
  BY DEF ProxyInv, ProxyTypes, HandlersAreCounted
<1>2. IsFiniteSet(Requests)
  <2>1. Proxy!ProxyAssumption
    BY HarnessAssumption
  <2>2. QED
    BY <2>1 DEF Proxy!ProxyAssumption, Proxy!IsFiniteSet, IsFiniteSet
<1>3. active \in 0..Cardinality(Requests)
  <2>1. Busy \subseteq Requests
    BY DEF Busy
  <2>2. IsFiniteSet(Busy) /\ Cardinality(Busy) <= Cardinality(Requests)
    BY <1>2, <2>1, FS_Subset
  <2>3. Cardinality(Busy) \in Nat /\ Cardinality(Requests) \in Nat
    BY <1>2, <2>2, FS_CardinalityType
  <2>4. QED
    BY <1>1, <2>2, <2>3
<1>4. \A i \in DOMAIN records : records[i].of \in Requests /\ records[i].cost \in Costs \cup {NoCost}
  <2>1. records \in Seq(Records)
    BY <1>1 DEF RecordTypes
  <2>2. \A i \in DOMAIN records : records[i] \in Records
    BY <2>1
  <2>3. QED
    BY <2>2 DEF Records
<1>5. drained \in 0..Len(records)
  <2>1. records \in Seq(Records) /\ drained \in Nat /\ drained <= Len(records)
    BY <1>1 DEF RecordTypes
  <2>2. Len(records) \in Nat
    BY <2>1, LenProperties
  <2>3. QED
    BY <2>1, <2>2
<1>6. QED
  BY <1>1, <1>3, <1>4, <1>5 DEF Proxy!TypeOK, Proxy!Cardinality, Cardinality, CallTypes, RecordTypes, CliStates, Phases,
     Limits

LEMMA UnreadIsNat == CodexTypes => \A kinds : Unread(kinds) \in Nat
<1> SUFFICES ASSUME CodexTypes, NEW kinds PROVE Unread(kinds) \in Nat
  OBVIOUS
<1>1. OnWire(wire, kinds) \in Nat
  BY OnWireIsNat DEF CodexTypes
<1>2. Read(kinds) \in Nat
  BY DEF Read
<1>3. QED
  BY <1>1, <1>2 DEF Unread

LEMMA CodexTyped == CodexInv => Codex!TypeOK
<1> SUFFICES ASSUME CodexInv PROVE Codex!TypeOK
  OBVIOUS
<1>1. CodexTypes /\ CallsAreKept /\ FinalIsLatest /\ WaitingIsLatest /\ MessagesAreDistinct
  BY DEF CodexInv
<1>2. Cardinality(ctask) <= 1 /\ Cardinality(waiting) <= 1 /\ Cardinality(result) <= 1
  BY <1>1, AtMostOne DEF CodexTypes
<1>3. handle \in 0..(CodexMsgs + 1)
  <2>1. /\ Len(inbox) \in Nat /\ sent \in Nat /\ sent <= CodexMsgs /\ handle \in Nat /\ CodexMsgs \in Nat
    BY <1>1, CodexConstants DEF CodexTypes
  <2>2. handle <= TakenOf(inbox, sent, ctask) + 1
    <3>1. TakenOf(inbox, sent, ctask) \in Int
      BY <2>1 DEF TakenOf
    <3>2. QED
      BY <1>1, <2>1, <3>1 DEF WaitingIsLatest
  <2>3. TakenOf(inbox, sent, ctask) <= sent
    BY <2>1 DEF TakenOf
  <2>4. TakenOf(inbox, sent, ctask) \in Int
    BY <2>1 DEF TakenOf
  <2>5. QED
    BY <2>1, <2>2, <2>3, <2>4
<1>4. calls \in 0..CodexCalls
  <2>1. calls \in Nat /\ made \in 0..CodexCalls /\ CodexCalls \in Nat
    BY <1>1, CodexConstants DEF CodexTypes
  <2>2. Unread({"usage"}) \in Nat
    BY <1>1, UnreadIsNat
  <2>3. calls + Unread({"usage"}) <= made
    BY <1>1 DEF CallsAreKept
  <2>4. QED
    BY <2>1, <2>2, <2>3
<1>5. final \in [n : 0..CodexTexts, isFinal : BOOLEAN]
  <2>1. Unread(Texts) \in Nat /\ Len(texts) \in Nat /\ CodexTexts \in Nat
    BY <1>1, UnreadIsNat, CodexConstants, LenProperties DEF CodexTypes
  <2>2. Len(texts) <= CodexTexts
    <3>1. Len(texts) + Unread(Texts) <= CodexTexts
      BY <1>1 DEF CallsAreKept
    <3>2. QED
      BY <2>1, <3>1
  <2>3. final.n \in 0..Len(texts)
    <3> DEFINE answers == {i \in 1..Len(texts) : texts[i] = "answer"}
               best    == IF answers = {} THEN 1..Len(texts) ELSE answers
    <3>1. final.n = 0 \/ final.n \in best
      BY <1>1 DEF FinalIsLatest
    <3>2. best \subseteq 1..Len(texts)
      OBVIOUS
    <3>3. QED
      BY <2>1, <3>1, <3>2
  <2>4. final \in [n : Nat, isFinal : BOOLEAN]
    BY <1>1 DEF CodexTypes
  <2>5. final.n \in 0..CodexTexts
    BY <2>1, <2>2, <2>3
  <2>6. final.isFinal \in BOOLEAN /\ final = [n |-> final.n, isFinal |-> final.isFinal]
    BY <2>4
  <2>7. QED
    BY <2>5, <2>6
<1>6. stask \in {Codex!Pending, "usage", "plain", "answer", "completed", "failed", "interrupted", "end"}
  BY <1>1 DEF CodexTypes, Notes, Texts, Lasts, Codex!Pending
<1>7. Codex!Cardinality(ctask) <= 1 /\ Codex!Cardinality(waiting) <= 1 /\ Codex!Cardinality(result) <= 1
  BY <1>2 DEF Codex!Cardinality, Cardinality
<1>8. QED
  BY <1>1, <1>3, <1>4, <1>5, <1>6, <1>7 DEF Codex!TypeOK, CodexTypes

\* The bounds of the ledger's counters, with either state file.
Spend == IF part = "ledger" THEN LedgerSpend ELSE FaultySpend
SpendIsBounded ==
    Moving =>
        /\ turn \in 0..LedgerTurns /\ l_calls \in 0..Spend /\ charged \in Nat
        /\ \A t \in Subs : spent[t] <= Spend
        /\ \A q, r \in l_result : q = r

LEMMA SpendIsBoundedStep ==
    ASSUME LedgerInv, SpendIsBounded, [Next]_vars
    PROVE  SpendIsBounded'
<1> SUFFICES ASSUME Moving' PROVE SpendIsBounded'
  BY DEF SpendIsBounded
<1>0. /\ UNCHANGED part /\ Spend' = Spend /\ Moving
      /\ LedgerTurns \in Nat /\ Spend \in Nat
      /\ \A t \in Subs : spent[t] \in Nat /\ spent \in [Subs -> Nat]
  <2>1. UNCHANGED part
    BY DEF Next, vars
  <2>2. LedgerTurns \in Nat /\ LedgerSpend \in Nat /\ FaultySpend \in Nat
    <3>1. Ledger!CodexLedgerAssumption /\ FaultyLedger!CodexLedgerAssumption
      BY HarnessAssumption
    <3>2. QED
      BY <3>1 DEF Ledger!CodexLedgerAssumption, FaultyLedger!CodexLedgerAssumption
  <2>3. QED
    BY <2>1, <2>2 DEF Spend, Moving, LedgerInv, LedgerTypes
<1>1. /\ turn \in 0..LedgerTurns /\ l_calls \in 0..Spend /\ charged \in Nat
      /\ \A t \in Subs : spent[t] <= Spend
      /\ \A q, r \in l_result : q = r
  BY <1>0 DEF SpendIsBounded
<1>2. \/ part = "ledger" /\ Ledger!Next
      \/ part = "faulty_ledger" /\ FaultyLedger!Next
      \/ UNCHANGED ledger
  <2>1. CASE Next
    BY <1>0, <2>1 DEF Next, Moving
  <2>2. CASE UNCHANGED vars
    BY <2>2 DEF vars
  <2>3. QED
    BY <2>1, <2>2
<1>3. CASE UNCHANGED ledger
  BY <1>0, <1>1, <1>3 DEF SpendIsBounded, ledger
<1>4. CASE Ledger!Begin \/ FaultyLedger!Begin
  <2>1. turn' = turn + 1 /\ turn < LedgerTurns /\ l_calls' = 0 /\ charged' = 0 /\ l_result' = {} /\ UNCHANGED spent
    BY <1>4 DEF Ledger!Begin, FaultyLedger!Begin
  <2>2. QED
    BY <1>0, <1>1, <2>1 DEF SpendIsBounded
<1>5. CASE (part = "ledger" /\ Ledger!Call) \/ (part = "faulty_ledger" /\ FaultyLedger!Call)
  <2>1. l_calls < Spend /\ l_calls' = l_calls + 1 /\ charged' = charged + 1 /\ UNCHANGED <<turn, l_result, spent>>
    BY <1>5 DEF Ledger!Call, FaultyLedger!Call, Spend
  <2>2. QED
    BY <1>0, <1>1, <2>1 DEF SpendIsBounded
<1>6. ASSUME NEW t \in Subs, (part = "ledger" /\ Ledger!SubSpends(t)) \/ (part = "faulty_ledger" /\ FaultyLedger!SubSpends(t))
      PROVE  SpendIsBounded'
  <2>1. /\ spent[t] < Spend /\ spent' = [spent EXCEPT ![t] = @ + 1] /\ (charged' = charged \/ charged' = charged + 1)
        /\ UNCHANGED <<turn, l_calls, l_result>>
    BY <1>6 DEF Ledger!SubSpends, FaultyLedger!SubSpends, Spend
  <2>2. \A u \in Subs : spent'[u] = IF u = t THEN spent[u] + 1 ELSE spent[u]
    BY <1>0, <2>1
  <2>3. QED
    BY <1>0, <1>1, <2>1, <2>2 DEF SpendIsBounded
<1>7. ASSUME NEW t \in Subs,
             \/ Ledger!Announce(t) \/ FaultyLedger!Announce(t) \/ Ledger!Flush(t) \/ FaultyLedger!Flush(t)
             \/ Ledger!Resume(t) \/ FaultyLedger!Resume(t)
      PROVE  SpendIsBounded'
  <2>1. UNCHANGED <<turn, l_calls, charged, spent, l_result>>
    BY <1>7 DEF Ledger!Announce, FaultyLedger!Announce, Ledger!Flush, FaultyLedger!Flush, Ledger!Resume, FaultyLedger!Resume
  <2>2. QED
    BY <1>0, <1>1, <2>1 DEF SpendIsBounded
<1>8. CASE Ledger!Completed \/ FaultyLedger!Completed \/ Ledger!StopSettled \/ FaultyLedger!StopSettled
  <2>1. UNCHANGED <<turn, l_calls, charged, spent>> /\ \A q, r \in l_result' : q = r
    BY <1>8 DEF Ledger!Completed, FaultyLedger!Completed, Ledger!StopSettled, FaultyLedger!StopSettled
  <2>2. QED
    BY <1>0, <1>1, <2>1 DEF SpendIsBounded
<1>9. QED
  BY <1>2, <1>3, <1>4, <1>5, <1>6, <1>7, <1>8 DEF Ledger!Next, FaultyLedger!Next, Subs

LEMMA LedgerTyped ==
    ASSUME LedgerInv, SpendIsBounded
    PROVE  /\ part = "ledger" => Ledger!TypeOK
           /\ part = "faulty_ledger" => FaultyLedger!TypeOK
<1> SUFFICES ASSUME Moving
             PROVE  /\ part = "ledger" => Ledger!TypeOK
                    /\ part = "faulty_ledger" => FaultyLedger!TypeOK
  BY DEF Moving
<1>1. LedgerTypes /\ RolloutsLag /\ StateIsBilled /\ BudgetIsKept
  BY DEF LedgerInv
<1>2. /\ turn \in 0..LedgerTurns /\ l_calls \in 0..Spend /\ charged \in Nat
      /\ \A t \in Subs : spent[t] <= Spend
  BY DEF SpendIsBounded
<1>3. Cardinality(l_result) <= 1
  BY AtMostOne DEF SpendIsBounded
<1>4. Spend \in Nat
  <2>1. Ledger!CodexLedgerAssumption /\ FaultyLedger!CodexLedgerAssumption
    BY HarnessAssumption
  <2>2. QED
    BY <2>1 DEF Ledger!CodexLedgerAssumption, FaultyLedger!CodexLedgerAssumption, Spend
<1>5. \A t \in Subs : /\ Latest(files[t]) \in Nat /\ Latest(files[t]) <= spent[t] /\ spent[t] \in Nat /\ state[t] \in Nat
                      /\ state[t] <= Latest(files[t]) /\ spent[t] <= Spend
                      /\ Ledger!Recorded(t) = Latest(files[t]) /\ FaultyLedger!Recorded(t) = Latest(files[t])
  BY <1>1, <1>2, BothRead DEF LedgerTypes, StateIsBilled
<1>6. spent \in [Subs -> 0..Spend] /\ state \in [Subs -> 0..Spend]
  <2>1. \A t \in Subs : spent[t] \in 0..Spend /\ state[t] \in 0..Spend
    BY <1>4, <1>5
  <2>2. spent \in [Subs -> Nat] /\ state \in [Subs -> Nat]
    BY <1>1 DEF LedgerTypes
  <2>3. QED
    BY <2>1, <2>2
<1>7. Ledger!Cardinality(l_result) <= 1 /\ FaultyLedger!Cardinality(l_result) <= 1
  BY <1>3 DEF Ledger!Cardinality, FaultyLedger!Cardinality, Cardinality
<1>8. part = "ledger" => Ledger!TypeOK
  BY <1>1, <1>2, <1>5, <1>6, <1>7 DEF Ledger!TypeOK, LedgerTypes, BudgetIsKept, Spend, Subs
<1>9. part = "faulty_ledger" => FaultyLedger!TypeOK
  BY <1>1, <1>2, <1>5, <1>6, <1>7 DEF FaultyLedger!TypeOK, LedgerTypes, BudgetIsKept, Spend, Subs
<1>10. QED
  BY <1>8, <1>9
=============================================================================
