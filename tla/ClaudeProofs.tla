---------------------------- MODULE ClaudeProofs -----------------------------
(***************************************************************************)
(* Proofs about a turn of Claude Code as MCHarness puts it beside the      *)
(* other components, for any number of background tasks, messages and      *)
(* calls: who decides how a turn ends, and what has happened when it ends  *)
(* well. The last part types the variables of all four components.         *)
(***************************************************************************)
EXTENDS HarnessProofs

-----------------------------------------------------------------------------
(* A turn of Claude Code, with background tasks or with messages only.     *)

USE DEF Claude!vars, Claude!cli, Claude!reads, Claude!state, Claude!ghosts, Claude!Pending, Claude!Note, Claude!Orphan,
        Talked!vars, Talked!cli, Talked!reads, Talked!state, Talked!ghosts, Talked!Pending, Talked!Note, Talked!Orphan

LEMMA ClaudeMoves == [Next]_vars => Claude!Next \/ Talked!Next \/ UNCHANGED claude
<1>1. part \in {"claude", "talked"} /\ Next => Claude!Next \/ Talked!Next
  BY DEF Next
<1>2. part \notin {"claude", "talked"} /\ Next => UNCHANGED claude
  BY DEF Next
<1>3. UNCHANGED vars => UNCHANGED claude
  BY DEF vars
<1>4. QED
  BY <1>1, <1>2, <1>3

Ends == {"end", "crash"}
NoteKinds == {"pending", "init", "output", "tool", "started", "ended", "result", "error", "settle", "empty"} \cup Ends
CliNotes == [kind : NoteKinds, task : Int]

ClaudeTypes ==
    /\ c_pc \in {"loop", "done", "bare", "raised"} /\ cutting \in BOOLEAN
    /\ c_wire \in Seq(CliNotes) /\ c_stask \in CliNotes
    /\ c_taken \in Seq(ControlMsgs)
    /\ c_pc # "done" => c_result = {}

\* A stop was the last thing but steers in these messages.
StopIn(t) == \E i \in 1..Len(t) : t[i].op = "stop" /\ \A j \in 1..Len(t) : j > i => t[j].op = "steer"

\* While the turn goes on, a stop waits to settle exactly when it came last.
StopWaits == c_pc = "loop" => (StopIn(c_taken) <=> \E m \in c_waiting : m.op = "stop")

\* Nothing waits to settle between invocations, where an interrupt acts at once.
BetweenIsSettled == c_waiting # {} => phase = "active" \/ demoted = "none"

\* A CLI that is gone stays so, and only one that is gone says so.
GoneIsTold ==
    /\ mode = "gone" => ~cutting
    /\ \A i \in 1..Len(c_wire) : c_wire[i].kind \in Ends => mode = "gone"
    /\ c_stask.kind \in Ends => mode = "gone"

VerdictIsRight == \A r \in c_result : mode # "gone" => (r.subtype = "interrupted" <=> StopIn(c_taken))

ClaudeInv ==
    /\ ClaudeTypes
    /\ Placed(c_inbox, c_sent, c_ctask, c_waiting, c_surfaced, {})
    /\ StopWaits
    /\ BetweenIsSettled
    /\ GoneIsTold
    /\ VerdictIsRight

LEMMA StopInAppend ==
    ASSUME NEW t \in Seq(ControlMsgs), NEW m \in ControlMsgs
    PROVE  /\ Append(t, m) \in Seq(ControlMsgs)
           /\ m.op = "steer" => (StopIn(Append(t, m)) <=> StopIn(t))
           /\ m.op # "steer" => (StopIn(Append(t, m)) <=> m.op = "stop")
<1> DEFINE u == Append(t, m)
<1>1. /\ Len(t) \in Nat /\ u \in Seq(ControlMsgs) /\ Len(u) = Len(t) + 1 /\ u[Len(t) + 1] = m
      /\ \A i \in 1..Len(t) : u[i] = t[i]
  BY AppendProperties
<1> HIDE DEF u
<1>2. \A i \in 1..Len(u) : i \in 1..Len(t) \/ i = Len(t) + 1
  BY <1>1
<1>3. ASSUME m.op = "steer" PROVE StopIn(u) <=> StopIn(t)
  <2>1. ASSUME StopIn(u) PROVE StopIn(t)
    <3>1. PICK i \in 1..Len(u) : u[i].op = "stop" /\ \A j \in 1..Len(u) : j > i => u[j].op = "steer"
      BY <2>1 DEF StopIn
    <3>2. i \in 1..Len(t)
      BY <1>1, <1>2, <1>3, <3>1
    <3>3. QED
      BY <1>1, <3>1, <3>2 DEF StopIn
  <2>2. ASSUME StopIn(t) PROVE StopIn(u)
    <3>1. PICK i \in 1..Len(t) : t[i].op = "stop" /\ \A j \in 1..Len(t) : j > i => t[j].op = "steer"
      BY <2>2 DEF StopIn
    <3>2. i \in 1..Len(u) /\ u[i].op = "stop" /\ \A j \in 1..Len(u) : j > i => u[j].op = "steer"
      BY <1>1, <1>2, <1>3, <3>1
    <3>3. QED
      BY <3>2 DEF StopIn
  <2>3. QED
    BY <2>1, <2>2
<1>4. ASSUME m.op # "steer" PROVE StopIn(u) <=> m.op = "stop"
  <2>1. Len(t) + 1 \in 1..Len(u)
    BY <1>1
  <2>2. ASSUME StopIn(u) PROVE m.op = "stop"
    <3>1. PICK i \in 1..Len(u) : u[i].op = "stop" /\ \A j \in 1..Len(u) : j > i => u[j].op = "steer"
      BY <2>2 DEF StopIn
    <3>2. i = Len(t) + 1
      BY <1>1, <1>2, <1>4, <2>1, <3>1
    <3>3. QED
      BY <1>1, <3>1, <3>2
  <2>3. ASSUME m.op = "stop" PROVE StopIn(u)
    <3>1. \A j \in 1..Len(u) : ~(j > Len(t) + 1)
      BY <1>1
    <3>2. QED
      BY <1>1, <2>1, <2>3, <3>1 DEF StopIn
  <2>4. QED
    BY <2>2, <2>3
<1>5. QED
  BY <1>1, <1>3, <1>4 DEF u

LEMMA ClaudeConstants ==
    /\ ClaudeMsgs \in Nat /\ TalkedMsgs \in Nat /\ ClaudeOps \subseteq ControlOps
    /\ ClaudeTasks \subseteq Nat
<1>1. Claude!ClaudeTurnAssumption /\ Talked!ClaudeTurnAssumption
  BY HarnessAssumption
<1>2. QED
  BY <1>1 DEF Claude!ClaudeTurnAssumption, Talked!ClaudeTurnAssumption, ControlOps

\* What the CLI does to the loop: notes, and its end, which it tells.
LEMMA CliStep ==
    ASSUME ClaudeInv,
           \/ Claude!CliWorks \/ Claude!CliTool \/ Claude!CliGone
           \/ Talked!CliWorks \/ Talked!CliTool \/ Talked!CliGone
           \/ \E t \in ClaudeTasks : Claude!CliStartsTask(t) \/ Claude!CliEndsTask(t)
    PROVE  ClaudeInv'
<1>0. /\ c_wire \in Seq(CliNotes) /\ c_stask \in CliNotes /\ c_pc = "loop" /\ c_result = {}
      /\ UNCHANGED <<c_pc, c_stask, c_ctask, c_inbox, c_sent, phase, c_waiting, demoted, c_surfaced,
                     c_result, c_taken>>
  <2>1. c_pc = "loop" /\ UNCHANGED <<c_pc, c_stask, c_ctask, c_inbox, c_sent, phase, c_waiting, demoted,
                                     c_surfaced, c_result, c_taken>>
    BY DEF Claude!CliWorks, Talked!CliWorks, Claude!CliTool, Talked!CliTool, Claude!CliGone, Talked!CliGone,
           Claude!CliStartsTask, Claude!CliEndsTask, Claude!CliChores, Claude!CliInit, Claude!CliOutput,
           Claude!CliResult, Claude!CliSettles, Talked!CliChores, Talked!CliInit, Talked!CliOutput,
           Talked!CliResult, Talked!CliSettles, Claude!Cli, Talked!Cli
  <2>2. QED
    BY <2>1 DEF ClaudeInv, ClaudeTypes
<1>1. PICK more \in Seq(CliNotes) : c_wire' = c_wire \o more /\ \A i \in 1..Len(more) : more[i].kind \in Ends => mode' = "gone"
  <2>1. ASSUME NEW kind \in NoteKinds, NEW t \in Int, c_wire' = Append(c_wire, [kind |-> kind, task |-> t]),
               kind \in Ends => mode' = "gone"
        PROVE  \E more \in Seq(CliNotes) : c_wire' = c_wire \o more /\ \A i \in 1..Len(more) : more[i].kind \in Ends => mode' = "gone"
    <3> DEFINE note == [kind |-> kind, task |-> t]
    <3>1. note \in CliNotes /\ note.kind = kind
      BY DEF CliNotes
    <3> HIDE DEF note
    <3>2. c_wire' = c_wire \o <<note>> /\ <<note>> \in Seq(CliNotes)
      BY <1>0, <2>1, <3>1, AppendIsConcat DEF note
    <3>3. \A i \in 1..Len(<<note>>) : <<note>>[i].kind \in Ends => mode' = "gone"
      <4>1. Len(<<note>>) = 1 /\ <<note>>[1] = note
        OBVIOUS
      <4>2. \A i \in 1..1 : i = 1
        OBVIOUS
      <4>3. QED
        BY <2>1, <3>1, <4>1, <4>2
    <3> DEFINE more == <<note>>
    <3> HIDE DEF more
    <3>4. more \in Seq(CliNotes) /\ c_wire' = c_wire \o more /\ \A i \in 1..Len(more) : more[i].kind \in Ends => mode' = "gone"
      BY <3>2, <3>3 DEF more
    <3>5. QED
      BY <3>4
  <2>2. CASE Claude!CliChores \/ Talked!CliChores
    <3> DEFINE more == <<[kind |-> "ended", task |-> -1], [kind |-> "init", task |-> 0], [kind |-> "empty", task |-> 0]>>
    <3>1. c_wire' = c_wire \o more
      BY <2>2 DEF Claude!CliChores, Talked!CliChores
    <3>2. /\ [kind |-> "ended", task |-> -1] \in CliNotes /\ [kind |-> "init", task |-> 0] \in CliNotes
          /\ [kind |-> "empty", task |-> 0] \in CliNotes
      BY DEF CliNotes, NoteKinds
    <3>3. /\ more \in Seq(CliNotes) /\ Len(more) = 3 /\ more[1].kind = "ended" /\ more[2].kind = "init"
          /\ more[3].kind = "empty"
      BY <3>2
    <3> HIDE DEF more
    <3>4. \A i \in 1..Len(more) : more[i].kind \notin Ends
      BY <3>3 DEF Ends
    <3>5. QED
      BY <3>1, <3>3, <3>4
  <2>3. CASE \/ Claude!CliInit \/ Claude!CliOutput \/ Claude!CliResult \/ Claude!CliSettles \/ Claude!CliTool
             \/ Talked!CliInit \/ Talked!CliOutput \/ Talked!CliResult \/ Talked!CliSettles \/ Talked!CliTool
    <3>1. PICK kind \in {"init", "output", "result", "error", "settle", "tool"} :
            c_wire' = Append(c_wire, [kind |-> kind, task |-> 0])
      BY <2>3 DEF Claude!CliInit, Claude!CliOutput, Claude!CliResult, Claude!CliSettles, Claude!CliTool,
                  Talked!CliInit, Talked!CliOutput, Talked!CliResult, Talked!CliSettles, Talked!CliTool,
                  Claude!Emit, Talked!Emit
    <3>2. kind \in NoteKinds /\ kind \notin Ends
      BY DEF NoteKinds, Ends
    <3>3. QED
      BY <2>1, <3>1, <3>2
  <2>4. CASE Claude!CliGone \/ Talked!CliGone
    <3>1. PICK kind \in Ends : c_wire' = Append(c_wire, [kind |-> kind, task |-> 0])
      BY <2>4 DEF Claude!CliGone, Talked!CliGone, Claude!Emit, Talked!Emit, Ends
    <3>2. kind \in NoteKinds /\ mode' = "gone"
      BY <2>4 DEF NoteKinds, Claude!CliGone, Talked!CliGone
    <3>3. QED
      BY <2>1, <3>1, <3>2
  <2>5. ASSUME NEW t \in ClaudeTasks, Claude!CliStartsTask(t) \/ Claude!CliEndsTask(t)
        PROVE  \E more \in Seq(CliNotes) : c_wire' = c_wire \o more /\ \A i \in 1..Len(more) : more[i].kind \in Ends => mode' = "gone"
    <3>1. PICK kind \in {"started", "ended"} : c_wire' = Append(c_wire, [kind |-> kind, task |-> t])
      BY <2>5 DEF Claude!CliStartsTask, Claude!CliEndsTask, Claude!Emit
    <3>2. kind \in NoteKinds /\ kind \notin Ends /\ t \in Int
      BY ClaudeConstants DEF NoteKinds, Ends
    <3>3. QED
      BY <2>1, <3>1, <3>2
  <2>6. QED
    BY <2>2, <2>3, <2>4, <2>5 DEF Claude!CliWorks, Talked!CliWorks
<1>2. /\ cutting' \in BOOLEAN /\ (mode' = "gone" => ~cutting') /\ (mode = "gone" => mode' = "gone")
  <2>1. cutting \in BOOLEAN /\ (mode = "gone" => ~cutting)
    BY DEF ClaudeInv, ClaudeTypes, GoneIsTold
  <2>2. CASE Claude!CliChores \/ Talked!CliChores \/ Claude!CliInit \/ Talked!CliInit
             \/ Claude!CliOutput \/ Talked!CliOutput \/ Claude!CliTool \/ Talked!CliTool
             \/ Claude!CliResult \/ Talked!CliResult
    <3>1. UNCHANGED cutting /\ (UNCHANGED mode \/ (mode # "gone" /\ mode' # "gone"))
      BY <2>2 DEF Claude!CliChores, Talked!CliChores, Claude!CliInit, Talked!CliInit, Claude!CliOutput,
                  Talked!CliOutput, Claude!CliTool, Talked!CliTool, Claude!CliResult, Talked!CliResult
    <3>2. QED
      BY <2>1, <3>1
  <2>3. CASE Claude!CliSettles \/ Talked!CliSettles
    <3>1. cutting /\ cutting' = FALSE /\ mode' = "idle"
      BY <2>3 DEF Claude!CliSettles, Talked!CliSettles
    <3>2. QED
      BY <2>1, <3>1
  <2>4. CASE Claude!CliGone \/ Talked!CliGone
    <3>1. cutting' = FALSE /\ mode' = "gone"
      BY <2>4 DEF Claude!CliGone, Talked!CliGone
    <3>2. QED
      BY <3>1
  <2>5. CASE \E t \in ClaudeTasks : Claude!CliStartsTask(t) \/ Claude!CliEndsTask(t)
    <3>1. UNCHANGED <<cutting, mode>>
      BY <2>5 DEF Claude!CliStartsTask, Claude!CliEndsTask
    <3>2. QED
      BY <2>1, <3>1
  <2>6. QED
    BY <2>2, <2>3, <2>4, <2>5 DEF Claude!CliWorks, Talked!CliWorks
<1>3. /\ c_wire' \in Seq(CliNotes) /\ Len(c_wire') = Len(c_wire) + Len(more) /\ Len(c_wire) \in Nat /\ Len(more) \in Nat
      /\ \A i \in 1..Len(c_wire') : c_wire'[i] = IF i <= Len(c_wire) THEN c_wire[i] ELSE more[i - Len(c_wire)]
  BY <1>0, <1>1, ConcatProperties
<1>4. \A i \in 1..Len(c_wire') : c_wire'[i].kind \in Ends => mode' = "gone"
  <2> SUFFICES ASSUME NEW i \in 1..Len(c_wire'), c_wire'[i].kind \in Ends PROVE mode' = "gone"
    OBVIOUS
  <2>1. CASE i <= Len(c_wire)
    BY <1>2, <1>3, <2>1 DEF ClaudeInv, GoneIsTold
  <2>2. CASE ~(i <= Len(c_wire))
    <3>1. i - Len(c_wire) \in 1..Len(more) /\ c_wire'[i] = more[i - Len(c_wire)]
      BY <1>3, <2>2
    <3>2. QED
      BY <1>1, <3>1
  <2>3. QED
    BY <2>1, <2>2
<1>5. ClaudeTypes'
  BY <1>0, <1>2, <1>3 DEF ClaudeInv, ClaudeTypes
<1>6. GoneIsTold'
  BY <1>0, <1>2, <1>4 DEF ClaudeInv, GoneIsTold
<1>7. Placed(c_inbox, c_sent, c_ctask, c_waiting, c_surfaced, {})'
  BY <1>0 DEF ClaudeInv
<1>8. StopWaits' /\ BetweenIsSettled' /\ VerdictIsRight'
  BY <1>0 DEF ClaudeInv, StopWaits, BetweenIsSettled, VerdictIsRight
<1>9. QED
  BY <1>5, <1>6, <1>7, <1>8 DEF ClaudeInv

\* The operator and the loop.
LoopSteps ==
    \/ Claude!OperatorSends \/ Talked!OperatorSends
    \/ Claude!Harness \/ Talked!Harness

\* A step of the loop by what it does with a message of the operator: it
\* takes one, answers the one that waits, reads or is sent one, or none.
Takes(msg) ==
    \/ Claude!TakeSteer(msg) \/ Claude!TakeInterrupt(msg) \/ Claude!TakeInterruptBetween(msg)
    \/ Talked!TakeSteer(msg) \/ Talked!TakeInterrupt(msg) \/ Talked!TakeInterruptBetween(msg)

Settles == Claude!TakeSettle \/ Talked!TakeSettle \/ Claude!InterruptTimeout \/ Talked!InterruptTimeout

Ignores ==
    \/ Claude!StreamRead \/ Claude!TakeEvent \/ Claude!TakeHousekeeping \/ Claude!TakeResult
    \/ Claude!SteerTimeout \/ Claude!ResumeTimeout \/ Claude!TaskTimeout \/ Claude!TakeGone
    \/ Talked!StreamRead \/ Talked!TakeEvent \/ Talked!TakeHousekeeping \/ Talked!TakeResult
    \/ Talked!SteerTimeout \/ Talked!ResumeTimeout \/ Talked!TaskTimeout \/ Talked!TakeGone

Hears == Claude!OperatorSends \/ Talked!OperatorSends \/ Claude!ControlRead \/ Talked!ControlRead

LEMMA LoopCases == LoopSteps => Hears \/ (\E msg \in c_ctask : Takes(msg)) \/ Settles \/ Ignores
  BY DEF LoopSteps, Hears, Takes, Settles, Ignores, Claude!Harness, Talked!Harness

\* What each leaves alone.
LEMMA HearsOnly ==
    ASSUME Hears
    PROVE  /\ c_pc = "loop"
           /\ UNCHANGED <<c_pc, mode, cutting, c_wire, c_stask, phase, c_waiting, demoted, c_surfaced, c_result, c_taken>>
           /\ \/ /\ c_sent' = c_sent + 1 /\ UNCHANGED c_ctask
                 /\ \E op \in ClaudeOps : c_inbox' = Append(c_inbox, [id |-> c_sent + 1, op |-> op])
              \/ /\ c_ctask = {} /\ c_inbox # <<>> /\ c_ctask' = {Head(c_inbox)} /\ c_inbox' = Tail(c_inbox)
                 /\ UNCHANGED c_sent
  BY DEF Hears, Claude!OperatorSends, Talked!OperatorSends, Claude!ControlRead, Talked!ControlRead

LEMMA TakesOnly ==
    ASSUME NEW msg, Takes(msg)
    PROVE  /\ c_pc = "loop" /\ msg \in c_ctask /\ c_ctask' = {} /\ c_taken' = Append(c_taken, msg)
           /\ UNCHANGED <<mode, c_wire, c_stask, c_inbox, c_sent, demoted>>
           /\ \/ /\ msg.op = "steer" /\ c_surfaced' = Append(c_surfaced, msg.id) /\ phase' = "active"
                 /\ UNCHANGED <<c_pc, cutting, c_waiting, c_result>>
              \/ /\ msg.op # "steer" /\ (phase = "active" \/ demoted = "none")
                 /\ cutting' \in {cutting, cutting \/ mode \in {"call", "spoke"}} /\ c_waiting' = {msg}
                 /\ UNCHANGED <<c_pc, phase, c_surfaced, c_result>>
              \/ /\ msg.op = "stop" /\ phase = "between" /\ demoted # "none"
                 /\ c_pc' = "done" /\ c_result' = {[subtype |-> "interrupted", from |-> demoted, own |-> TRUE]}
                 /\ UNCHANGED <<cutting, phase, c_waiting, c_surfaced>>
              \/ /\ msg.op \notin {"steer", "stop"} /\ phase = "between" /\ demoted # "none"
                 /\ c_surfaced' = Append(c_surfaced, msg.id) /\ phase' = "active"
                 /\ UNCHANGED <<c_pc, cutting, c_waiting, c_result>>
<1>1. CASE Claude!TakeSteer(msg) \/ Talked!TakeSteer(msg)
  BY <1>1 DEF Claude!TakeSteer, Talked!TakeSteer, Claude!TakesControl, Talked!TakesControl, Claude!Deliver,
              Talked!Deliver
<1>2. CASE Claude!TakeInterrupt(msg) \/ Talked!TakeInterrupt(msg)
  BY <1>2 DEF Claude!TakeInterrupt, Talked!TakeInterrupt, Claude!TakesControl, Talked!TakesControl
<1>3. CASE Claude!TakeInterruptBetween(msg) \/ Talked!TakeInterruptBetween(msg)
  BY <1>3 DEF Claude!TakeInterruptBetween, Talked!TakeInterruptBetween, Claude!TakesControl, Talked!TakesControl,
              Claude!Deliver, Talked!Deliver, Claude!Finish, Talked!Finish
<1>4. QED
  BY <1>1, <1>2, <1>3 DEF Takes

LEMMA SettlesOnly ==
    ASSUME Settles
    PROVE  /\ c_pc = "loop" /\ c_waiting' = {} /\ (UNCHANGED c_stask \/ c_stask' = [kind |-> "pending", task |-> 0])
           /\ UNCHANGED <<mode, cutting, c_wire, c_ctask, c_inbox, c_sent, c_taken>>
           /\ \E msg \in c_waiting :
                \/ /\ msg.op = "stop" /\ c_pc' = "done" /\ UNCHANGED c_surfaced
                   /\ \A r \in c_result' : r.subtype = "interrupted"
                \/ /\ msg.op # "stop" /\ c_surfaced' = Append(c_surfaced, msg.id)
                   /\ UNCHANGED <<c_pc, c_result>>
<1>1. CASE Claude!TakeSettle \/ Talked!TakeSettle
  BY <1>1 DEF Claude!TakeSettle, Talked!TakeSettle, Claude!TakesNote, Talked!TakesNote, Claude!Deliver,
              Talked!Deliver, Claude!Finish, Talked!Finish
<1>2. CASE Claude!InterruptTimeout \/ Talked!InterruptTimeout
  <2>1. /\ c_pc = "loop" /\ c_waiting' = {} /\ UNCHANGED c_stask
        /\ UNCHANGED <<mode, cutting, c_wire, c_ctask, c_inbox, c_sent, c_taken>>
    BY <1>2 DEF Claude!InterruptTimeout, Talked!InterruptTimeout, Claude!TimesOut, Talked!TimesOut, Claude!Deliver,
                Talked!Deliver
  <2>2. PICK msg \in c_waiting :
          \/ /\ msg.op = "stop" /\ UNCHANGED c_surfaced /\ c_pc' = "done"
             /\ c_result' = {[subtype |-> "interrupted",
                             from |-> IF demoted = "none" THEN "made up" ELSE demoted, own |-> TRUE]}
          \/ /\ msg.op # "stop" /\ c_surfaced' = Append(c_surfaced, msg.id) /\ UNCHANGED <<c_pc, c_result>>
    BY <1>2 DEF Claude!InterruptTimeout, Talked!InterruptTimeout, Claude!Deliver, Talked!Deliver, Claude!Finish,
                Talked!Finish
  <2>3. msg.op = "stop" => \A r \in c_result' : r.subtype = "interrupted"
    <3> DEFINE verdict(from) == [subtype |-> "interrupted", from |-> from, own |-> TRUE]
    <3>1. msg.op = "stop" => \E from : c_result' = {verdict(from)}
      BY <2>2
    <3>2. \A from : verdict(from).subtype = "interrupted"
      OBVIOUS
    <3> HIDE DEF verdict
    <3>3. QED
      BY <3>1, <3>2
  <2>4. QED
    BY <2>1, <2>2, <2>3
<1>3. QED
  BY <1>1, <1>2 DEF Settles

LEMMA DemotedIsNoInterrupt == Claude!OfDemoted.subtype # "interrupted" /\ Talked!OfDemoted = Claude!OfDemoted
<1>1. (IF demoted \in {"result", "empty"} THEN "success" ELSE "error") # "interrupted"
  OBVIOUS
<1>2. Claude!OfDemoted.subtype = IF demoted \in {"result", "empty"} THEN "success" ELSE "error"
  BY DEF Claude!OfDemoted
<1>3. Talked!OfDemoted = Claude!OfDemoted
  BY DEF Claude!OfDemoted, Talked!OfDemoted
<1>4. QED
  BY <1>1, <1>2, <1>3

LEMMA IgnoresOnly ==
    ASSUME Ignores
    PROVE  /\ c_pc = "loop" /\ UNCHANGED <<mode, cutting, c_ctask, c_inbox, c_sent, c_waiting, c_surfaced, c_taken>>
           /\ \/ UNCHANGED <<c_wire, c_stask>>
              \/ UNCHANGED c_wire /\ c_stask' = [kind |-> "pending", task |-> 0]
              \/ c_wire # <<>> /\ c_stask' = Head(c_wire) /\ c_wire' = Tail(c_wire)
           /\ c_waiting # {} => (phase' = "active" \/ (UNCHANGED <<phase, demoted>>)) /\ UNCHANGED demoted
           /\ \/ UNCHANGED <<c_pc, c_result>>
              \/ c_pc' \in {"raised", "bare"} /\ UNCHANGED c_result
              \/ /\ c_pc' = "done" /\ (c_waiting = {} \/ c_stask.kind \in Ends)
                 /\ \A r \in c_result' : r.subtype # "interrupted"
<1>1. CASE Claude!StreamRead \/ Talked!StreamRead
  BY <1>1 DEF Claude!StreamRead, Talked!StreamRead
<1>2. CASE Claude!TakeEvent \/ Talked!TakeEvent
  <2>1. /\ c_pc = "loop" /\ c_stask' = [kind |-> "pending", task |-> 0]
        /\ UNCHANGED <<c_pc, mode, cutting, c_wire, c_ctask, c_inbox, c_sent, c_waiting, demoted, c_surfaced, c_result, c_taken>>
    BY <1>2 DEF Claude!TakeEvent, Talked!TakeEvent, Claude!TakesNote, Talked!TakesNote
  <2>2. phase' = "active" \/ UNCHANGED phase
    BY <1>2 DEF Claude!TakeEvent, Talked!TakeEvent
  <2>3. QED
    BY <2>1, <2>2
<1>3. CASE Claude!TakeHousekeeping \/ Talked!TakeHousekeeping
  BY <1>3 DEF Claude!TakeHousekeeping, Talked!TakeHousekeeping, Claude!TakesNote, Talked!TakesNote
<1>4. CASE Claude!TakeResult \/ Talked!TakeResult
  <2>1. /\ c_pc = "loop" /\ c_stask' = [kind |-> "pending", task |-> 0] /\ c_waiting = {}
        /\ UNCHANGED <<mode, cutting, c_wire, c_ctask, c_inbox, c_sent, c_waiting, c_surfaced, c_taken>>
    BY <1>4 DEF Claude!TakeResult, Talked!TakeResult, Claude!TakesNote, Talked!TakesNote
  <2>2. \/ UNCHANGED <<c_pc, c_result>>
        \/ c_pc' = "done" /\ \A r \in c_result' : r.subtype # "interrupted"
    BY <1>4 DEF Claude!TakeResult, Talked!TakeResult, Claude!Demote, Talked!Demote, Claude!Finish, Talked!Finish
  <2>3. QED
    BY <2>1, <2>2
<1>5. CASE Claude!SteerTimeout \/ Talked!SteerTimeout \/ Claude!TaskTimeout \/ Talked!TaskTimeout
           \/ Claude!ResumeTimeout \/ Talked!ResumeTimeout
  <2>1. /\ c_pc = "loop" /\ c_pc' = "done"
        /\ UNCHANGED <<mode, cutting, c_wire, c_stask, c_ctask, c_inbox, c_sent, phase, demoted, c_waiting, c_surfaced, c_taken>>
    BY <1>5 DEF Claude!SteerTimeout, Talked!SteerTimeout, Claude!TaskTimeout, Talked!TaskTimeout,
                Claude!ResumeTimeout, Talked!ResumeTimeout, Claude!TimesOut, Talked!TimesOut, Claude!Finish, Talked!Finish
  <2>2. c_waiting = {}
    BY <1>5 DEF Claude!SteerTimeout, Talked!SteerTimeout, Claude!TaskTimeout, Talked!TaskTimeout,
                Claude!ResumeTimeout, Talked!ResumeTimeout, Claude!Why, Talked!Why
  <2>3. \A r \in c_result' : r.subtype # "interrupted"
    <3>1. CASE Claude!ResumeTimeout \/ Talked!ResumeTimeout
      <4>1. c_result' = {[subtype |-> "unanswered", from |-> "made up", own |-> TRUE]}
        BY <3>1 DEF Claude!ResumeTimeout, Talked!ResumeTimeout, Claude!Finish, Talked!Finish
      <4>2. [subtype |-> "unanswered", from |-> "made up", own |-> TRUE].subtype # "interrupted"
        OBVIOUS
      <4>3. QED
        BY <4>1, <4>2
    <3>2. CASE Claude!SteerTimeout \/ Talked!SteerTimeout \/ Claude!TaskTimeout \/ Talked!TaskTimeout
      <4>1. c_result' = {Claude!OfDemoted}
        BY <3>2, DemotedIsNoInterrupt
           DEF Claude!SteerTimeout, Talked!SteerTimeout, Claude!TaskTimeout, Talked!TaskTimeout,
               Claude!Finish, Talked!Finish
      <4>2. QED
        BY <4>1, DemotedIsNoInterrupt
    <3>3. QED
      BY <1>5, <3>1, <3>2
  <2>4. QED
    BY <2>1, <2>2, <2>3
<1>6. CASE Claude!TakeGone \/ Talked!TakeGone
  <2>1. /\ c_pc = "loop" /\ c_stask' = [kind |-> "pending", task |-> 0] /\ c_stask.kind \in Ends
        /\ UNCHANGED <<mode, cutting, c_wire, c_ctask, c_inbox, c_sent, phase, demoted, c_waiting, c_surfaced, c_taken>>
    BY <1>6 DEF Claude!TakeGone, Talked!TakeGone, Claude!TakesNote, Talked!TakesNote, Ends
  <2>2. \/ c_pc' \in {"raised", "bare"} /\ UNCHANGED c_result
        \/ c_pc' = "done" /\ c_result' = {Claude!OfDemoted}
        \/ c_pc' = "done" /\ c_result' = {[subtype |-> "unanswered", from |-> "made up", own |-> TRUE]}
    BY <1>6, DemotedIsNoInterrupt DEF Claude!TakeGone, Talked!TakeGone, Claude!Finish, Talked!Finish
  <2>3. [subtype |-> "unanswered", from |-> "made up", own |-> TRUE].subtype # "interrupted"
    OBVIOUS
  <2>4. QED
    BY <2>1, <2>2, <2>3, DemotedIsNoInterrupt
<1>7. QED
  BY <1>1, <1>2, <1>3, <1>4, <1>5, <1>6 DEF Ignores

LEMMA LoopTypes ==
    ASSUME ClaudeInv, LoopSteps
    PROVE  ClaudeTypes' /\ GoneIsTold'
<1> DEFINE none == [kind |-> "pending", task |-> 0]
<1>1. /\ c_wire \in Seq(CliNotes) /\ c_stask \in CliNotes /\ c_taken \in Seq(ControlMsgs) /\ cutting \in BOOLEAN
      /\ c_pc \in {"loop", "done", "bare", "raised"} /\ (c_pc # "done" => c_result = {})
      /\ (mode = "gone" => ~cutting) /\ (c_stask.kind \in Ends => mode = "gone")
      /\ \A i \in 1..Len(c_wire) : c_wire[i].kind \in Ends => mode = "gone"
  BY DEF ClaudeInv, ClaudeTypes, GoneIsTold
<1>2. none \in CliNotes /\ none.kind \notin Ends
  BY DEF CliNotes, NoteKinds, Ends
<1>3. c_ctask \subseteq ControlMsgs
  BY DEF ClaudeInv, Placed
<1> HIDE DEF none
<1>4. /\ UNCHANGED mode /\ c_pc' \in {"loop", "done", "bare", "raised"} /\ (c_pc' # "done" => c_result' = {})
      /\ UNCHANGED cutting \/ cutting' \in {cutting, cutting \/ mode \in {"call", "spoke"}}
      /\ \/ UNCHANGED <<c_wire, c_stask>>
         \/ UNCHANGED c_wire /\ c_stask' = none
         \/ c_wire # <<>> /\ c_stask' = Head(c_wire) /\ c_wire' = Tail(c_wire)
  <2>1. CASE Hears
    BY <1>1, <2>1, HearsOnly
  <2>2. ASSUME NEW msg \in c_ctask, Takes(msg)
        PROVE  /\ UNCHANGED <<mode, c_wire, c_stask>>
               /\ c_pc' \in {"loop", "done", "bare", "raised"} /\ (c_pc' # "done" => c_result' = {})
               /\ UNCHANGED cutting \/ cutting' \in {cutting, cutting \/ mode \in {"call", "spoke"}}
    BY <1>1, <2>2, TakesOnly
  <2>3. CASE Settles
    BY <1>1, <2>3, SettlesOnly DEF none
  <2>4. CASE Ignores
    BY <1>1, <2>4, IgnoresOnly DEF none
  <2>5. QED
    BY <2>1, <2>2, <2>3, <2>4, LoopCases
<1>5. cutting' \in BOOLEAN /\ (mode' = "gone" => ~cutting')
  <2>1. CASE UNCHANGED cutting
    BY <1>1, <1>4, <2>1
  <2>2. CASE cutting' = (cutting \/ mode \in {"call", "spoke"})
    <3>1. (cutting \/ mode \in {"call", "spoke"}) \in BOOLEAN
      OBVIOUS
    <3>2. mode = "gone" => ~(cutting \/ mode \in {"call", "spoke"})
      BY <1>1
    <3>3. cutting' \in BOOLEAN
      BY <2>2, <3>1, Zenon
    <3>4. mode = "gone" => ~cutting'
      BY <2>2, <3>2, Zenon
    <3>5. QED
      BY <1>4, <3>3, <3>4
  <2>3. QED
    BY <1>4, <2>1, <2>2
<1>6. c_taken' \in Seq(ControlMsgs)
  <2>1. UNCHANGED c_taken \/ \E msg \in c_ctask : c_taken' = Append(c_taken, msg)
    BY LoopCases, HearsOnly, TakesOnly, SettlesOnly, IgnoresOnly
  <2>2. QED
    BY <1>1, <1>3, <2>1
<1>7. /\ c_wire' \in Seq(CliNotes) /\ c_stask' \in CliNotes
      /\ \A i \in 1..Len(c_wire') : c_wire'[i].kind \in Ends => mode = "gone"
      /\ c_stask'.kind \in Ends => mode = "gone"
  <2>1. CASE c_wire # <<>> /\ c_stask' = Head(c_wire) /\ c_wire' = Tail(c_wire)
    <3>1. /\ c_wire' \in Seq(CliNotes) /\ Len(c_wire) \in Nat /\ Len(c_wire) > 0 /\ Len(c_wire') = Len(c_wire) - 1
          /\ \A i \in 1..Len(c_wire') : c_wire'[i] = c_wire[i + 1]
      BY <1>1, <2>1
    <3>2. c_stask' \in CliNotes /\ c_stask' = c_wire[1] /\ 1 \in 1..Len(c_wire)
      BY <1>1, <2>1, <3>1
    <3>3. \A i \in 1..Len(c_wire') : i + 1 \in 1..Len(c_wire)
      BY <3>1
    <3>4. QED
      BY <1>1, <3>1, <3>2, <3>3
  <2>2. CASE UNCHANGED c_wire /\ (UNCHANGED c_stask \/ c_stask' = none)
    BY <1>1, <1>2, <2>2
  <2>3. QED
    BY <1>4, <2>1, <2>2
<1>8. QED
  BY <1>4, <1>5, <1>6, <1>7 DEF ClaudeTypes, GoneIsTold

LEMMA LoopPlaces ==
    ASSUME ClaudeInv, LoopSteps
    PROVE  Placed(c_inbox, c_sent, c_ctask, c_waiting, c_surfaced, {})'
<1>0. Placed(c_inbox, c_sent, c_ctask, c_waiting, c_surfaced, {})
  BY DEF ClaudeInv
<1>1. CASE Hears
  <2>1. CASE c_sent' = c_sent + 1 /\ UNCHANGED c_ctask
    <3>1. PICK op \in ControlOps : c_inbox' = Append(c_inbox, [id |-> c_sent + 1, op |-> op])
      <4>1. c_sent \in Nat /\ c_sent' # c_sent
        BY <1>0, <2>1 DEF Placed
      <4>2. QED
        BY <1>1, <4>1, HearsOnly, ClaudeConstants
    <3>2. UNCHANGED <<c_waiting, c_surfaced>>
      BY <1>1, HearsOnly
    <3>3. QED
      BY <1>0, <2>1, <3>1, <3>2, PlacedSends
  <2>2. CASE /\ c_ctask = {} /\ c_inbox # <<>> /\ c_ctask' = {Head(c_inbox)} /\ c_inbox' = Tail(c_inbox)
             /\ UNCHANGED c_sent
    <3>1. UNCHANGED <<c_waiting, c_surfaced>>
      BY <1>1, HearsOnly
    <3>2. QED
      BY <1>0, <2>2, <3>1, PlacedReads
  <2>3. QED
    BY <1>1, <2>1, <2>2, HearsOnly
<1>2. ASSUME NEW msg \in c_ctask, Takes(msg)
      PROVE  Placed(c_inbox, c_sent, c_ctask, c_waiting, c_surfaced, {})'
  <2>1. /\ c_ctask' = {} /\ UNCHANGED <<c_inbox, c_sent>>
        /\ \/ c_surfaced' = Append(c_surfaced, msg.id) /\ UNCHANGED c_waiting
           \/ c_waiting' = {msg} /\ UNCHANGED c_surfaced
           \/ UNCHANGED <<c_waiting, c_surfaced>>
    BY <1>2, TakesOnly
  <2>2. /\ Placed(c_inbox, c_sent, {}, c_waiting, c_surfaced, {})
        /\ Placed(c_inbox, c_sent, {}, c_waiting, Append(c_surfaced, msg.id), {})
        /\ Placed(c_inbox, c_sent, {}, {msg}, c_surfaced, {})
    BY <1>0, PlacedTakes
  <2>3. QED
    BY <2>1, <2>2
<1>3. CASE Settles
  <2>1. PICK msg \in c_waiting : UNCHANGED c_surfaced \/ c_surfaced' = Append(c_surfaced, msg.id)
    BY <1>3, SettlesOnly
  <2>2. c_waiting' = {} /\ UNCHANGED <<c_inbox, c_sent, c_ctask>>
    BY <1>3, SettlesOnly
  <2>3. /\ Placed(c_inbox, c_sent, c_ctask, {}, c_surfaced, {})
        /\ Placed(c_inbox, c_sent, c_ctask, {}, Append(c_surfaced, msg.id), {})
    BY <1>0, PlacedForgets, PlacedContinues
  <2>4. QED
    BY <2>1, <2>2, <2>3
<1>4. CASE Ignores
  <2>1. UNCHANGED <<c_inbox, c_sent, c_ctask, c_waiting, c_surfaced>>
    BY <1>4, IgnoresOnly
  <2>2. QED
    BY <1>0, <2>1
<1>5. QED
  BY <1>1, <1>2, <1>3, <1>4, LoopCases

LEMMA LoopDecides ==
    ASSUME ClaudeInv, LoopSteps
    PROVE  StopWaits' /\ BetweenIsSettled' /\ VerdictIsRight'
<1> USE DEF StopWaits, BetweenIsSettled, VerdictIsRight
<1>0. /\ StopWaits /\ BetweenIsSettled /\ (c_pc # "done" => c_result = {})
      /\ c_taken \in Seq(ControlMsgs) /\ c_ctask \subseteq ControlMsgs /\ \A m, n \in c_waiting : m = n
      /\ c_stask.kind \in Ends => mode = "gone"
  BY DEF ClaudeInv, ClaudeTypes, GoneIsTold, Placed
<1>1. CASE Hears
  <2>1. /\ c_pc = "loop" /\ c_result' = {}
        /\ UNCHANGED <<c_pc, phase, c_waiting, demoted, c_taken>>
    BY <1>0, <1>1, HearsOnly
  <2>2. QED
    BY <1>0, <2>1
<1>2. ASSUME NEW msg \in c_ctask, Takes(msg)
      PROVE  StopWaits' /\ BetweenIsSettled' /\ VerdictIsRight'
  <2>1. /\ c_pc = "loop" /\ c_taken' = Append(c_taken, msg) /\ UNCHANGED demoted /\ c_result = {}
    BY <1>0, <1>2, TakesOnly
  <2>2. /\ msg.op = "steer" => (StopIn(c_taken') <=> StopIn(c_taken))
        /\ msg.op # "steer" => (StopIn(c_taken') <=> msg.op = "stop")
    BY <1>0, <2>1, StopInAppend
  <2>3. CASE /\ msg.op = "steer" /\ phase' = "active" /\ UNCHANGED <<c_pc, c_waiting, c_result>>
    BY <1>0, <2>1, <2>2, <2>3
  <2>4. CASE /\ msg.op # "steer" /\ (phase = "active" \/ demoted = "none") /\ c_waiting' = {msg}
             /\ UNCHANGED <<c_pc, phase, c_result>>
    BY <2>1, <2>2, <2>4
  <2>5. CASE /\ msg.op = "stop" /\ phase = "between" /\ demoted # "none" /\ c_pc' = "done"
             /\ c_result' = {[subtype |-> "interrupted", from |-> demoted, own |-> TRUE]}
             /\ UNCHANGED <<phase, c_waiting>>
    <3>1. \A r \in c_result' : r.subtype = "interrupted"
      BY <2>5
    <3>2. StopIn(c_taken')
      BY <2>2, <2>5
    <3>3. QED
      BY <1>0, <2>1, <2>5, <3>1, <3>2
  <2>6. CASE /\ msg.op \notin {"steer", "stop"} /\ phase = "between" /\ demoted # "none" /\ phase' = "active"
             /\ UNCHANGED <<c_pc, c_waiting, c_result>>
    <3>1. c_waiting = {}
      BY <1>0, <2>6
    <3>2. QED
      BY <2>1, <2>2, <2>6, <3>1
  <2>7. QED
    BY <1>2, <2>3, <2>4, <2>5, <2>6, TakesOnly
<1>3. CASE Settles
  <2>1. c_pc = "loop" /\ c_waiting' = {} /\ UNCHANGED c_taken /\ c_result = {}
    BY <1>0, <1>3, SettlesOnly
  <2>2. PICK msg \in c_waiting :
          \/ msg.op = "stop" /\ c_pc' = "done" /\ \A r \in c_result' : r.subtype = "interrupted"
          \/ msg.op # "stop" /\ UNCHANGED <<c_pc, c_result>>
    BY <1>3, SettlesOnly
  <2>3. StopIn(c_taken) <=> msg.op = "stop"
    BY <1>0, <2>1
  <2>4. QED
    BY <2>1, <2>2, <2>3
<1>4. CASE Ignores
  <2>1. /\ c_pc = "loop" /\ UNCHANGED <<mode, c_waiting, c_taken>> /\ c_result = {}
        /\ c_waiting # {} => (phase' = "active" \/ UNCHANGED <<phase, demoted>>) /\ UNCHANGED demoted
    BY <1>0, <1>4, IgnoresOnly
  <2>2. BetweenIsSettled'
    BY <1>0, <2>1
  <2>3. StopWaits' /\ VerdictIsRight'
    <3>1. CASE UNCHANGED <<c_pc, c_result>> \/ (c_pc' \in {"raised", "bare"} /\ UNCHANGED c_result)
      BY <1>0, <2>1, <3>1
    <3>2. CASE /\ c_pc' = "done" /\ (c_waiting = {} \/ c_stask.kind \in Ends)
               /\ \A r \in c_result' : r.subtype # "interrupted"
      BY <1>0, <2>1, <3>2
    <3>3. QED
      BY <1>4, <3>1, <3>2, IgnoresOnly
  <2>4. QED
    BY <2>2, <2>3
<1>5. QED
  BY <1>1, <1>2, <1>3, <1>4, LoopCases

LEMMA ClaudeRests == ClaudeInv /\ UNCHANGED claude => ClaudeInv'
<1> SUFFICES ASSUME ClaudeInv, UNCHANGED claude PROVE ClaudeInv'
  OBVIOUS
<1>1. UNCHANGED <<c_pc, mode, cutting, c_wire, c_stask, c_ctask, c_inbox, c_sent, phase, c_waiting, demoted,
                  c_surfaced, c_result, c_taken>>
  BY DEF claude
<1>2. QED
  BY <1>1 DEF ClaudeInv, ClaudeTypes, StopWaits, BetweenIsSettled, GoneIsTold, VerdictIsRight

LEMMA ClaudeInvInit == Claude!Init => ClaudeInv
<1> SUFFICES ASSUME Claude!Init PROVE ClaudeInv
  OBVIOUS
<1>1. /\ c_pc = "loop" /\ mode = "idle" /\ cutting = FALSE /\ c_wire = <<>> /\ c_ctask = {} /\ c_inbox = <<>> /\ c_sent = 0
      /\ c_stask = [kind |-> "pending", task |-> 0]
      /\ c_waiting = {} /\ c_surfaced = <<>> /\ c_result = {} /\ c_taken = <<>> /\ phase = "active"
  BY DEF Claude!Init
<1>2. /\ Len(<<>>) = 0 /\ 1..0 = {} /\ <<>> \in Seq(CliNotes) /\ <<>> \in Seq(ControlMsgs) /\ <<>> \in Seq(Nat)
  OBVIOUS
<1>3. c_stask \in CliNotes /\ c_stask.kind \notin Ends
  BY <1>1 DEF CliNotes, NoteKinds, Ends
<1>4. ClaudeTypes /\ GoneIsTold
  BY <1>1, <1>2, <1>3 DEF ClaudeTypes, GoneIsTold
<1>5. Placed(c_inbox, c_sent, c_ctask, c_waiting, c_surfaced, {})
  <2>1. c_sent = 0 /\ c_ctask = {} /\ Len(c_inbox) = 0
    BY <1>1, <1>2
  <2>2. TakenOf(c_inbox, c_sent, c_ctask) = 0
    BY ONLY <2>1 DEF TakenOf
  <2>3. QED
    BY <1>1, <1>2, <2>2 DEF Placed
<1>6. StopWaits /\ BetweenIsSettled /\ VerdictIsRight
  BY <1>1, <1>2 DEF StopWaits, BetweenIsSettled, VerdictIsRight, StopIn
<1>7. QED
  BY <1>4, <1>5, <1>6 DEF ClaudeInv

LEMMA ClaudeInvariant == Spec => []ClaudeInv
<1>1. Init => ClaudeInv
  BY ClaudeInvInit DEF Init
<1>2. ClaudeInv /\ [Next]_vars => ClaudeInv'
  <2>1. ASSUME ClaudeInv, Claude!Next \/ Talked!Next PROVE ClaudeInv'
    <3>1. CASE LoopSteps
      BY <2>1, <3>1, LoopTypes, LoopPlaces, LoopDecides DEF ClaudeInv
    <3>2. CASE ~LoopSteps
      <4>1. \/ Claude!CliWorks \/ Claude!CliTool \/ Claude!CliGone
            \/ Talked!CliWorks \/ Talked!CliTool \/ Talked!CliGone
            \/ \E t \in ClaudeTasks : Claude!CliStartsTask(t) \/ Claude!CliEndsTask(t)
        BY <2>1, <3>2 DEF LoopSteps, Claude!Next, Talked!Next
      <4>2. QED
        BY <2>1, <4>1, CliStep
    <3>3. QED
      BY <3>1, <3>2
  <2>2. QED
    BY <2>1, ClaudeMoves, ClaudeRests
<1>3. QED
  BY <1>1, <1>2, PTL DEF Spec

\* The operator decides in either harness: a further Codex turn starts only
\* for the latest interrupt that the loop took, and the loop of a Claude Code
\* turn ends it as interrupted exactly when a stop came last, with no message
\* given to the model twice - however many messages are sent and whatever races with them.
THEOREM OperatorDecidesAlways == Spec => OperatorDecides
<1>1. ASSUME ClaudeInv PROVE Claude!StopDecides
  <2>1. c_surfaced \in Seq(Nat) /\ c_taken \in Seq(ControlMsgs)
    BY <1>1 DEF ClaudeInv, ClaudeTypes, Placed
  <2>2. DOMAIN c_surfaced = 1..Len(c_surfaced) /\ DOMAIN c_taken = 1..Len(c_taken)
    BY <2>1
  <2>3. Claude!Stopped <=> StopIn(c_taken)
    BY <2>2 DEF Claude!Stopped, StopIn
  <2>4. \A i, j \in 1..Len(c_surfaced) : c_surfaced[i] = c_surfaced[j] => i = j
    BY <1>1 DEF ClaudeInv, Placed
  <2>5. QED
    BY <1>1, <2>2, <2>3, <2>4 DEF Claude!StopDecides, ClaudeInv, VerdictIsRight
<1>2. ClaudeInv => (part \in {"claude", "talked"} => Claude!StopDecides)
  BY <1>1
<1>3. QED
  BY <1>2, ClaudeInvariant, ContinuesFromTheLatest, PTL DEF OperatorDecides
-----------------------------------------------------------------------------
(* What has happened when a turn ends well. The invariant is about the     *)
(* order in which the CLI's messages reach the loop, against what the CLI  *)
(* has done since: what the loop has not looked at yet explains whatever   *)
(* the trackers and the windows do not know.                               *)

\* The messages of the CLI that the loop has not looked at: the one that was
\* read, in place 0, and those on the wire.
Last == Len(c_wire)
Line == [i \in 0..Last |-> IF i = 0 THEN c_stask ELSE c_wire[i]]
Kind(i) == Line[i].kind
NoNote  == [kind |-> "pending", task |-> 0]
Boundary(i)   == Kind(i) \in {"init", "tool"}
Started(t, i) == Line[i] = [kind |-> "started", task |-> t]
Ended(t, i)   == Line[i] = [kind |-> "ended", task |-> t]
Verdicts      == {"result", "error", "settle", "empty"}

\* How a step changes them: one more comes, the read returns the next, or the
\* loop looks at the one that was read.
Comes(note) ==
    /\ Last' = Last + 1 /\ Line'[Last + 1] = note /\ \A i \in 0..Last : Line'[i] = Line[i]
Shifts ==
    /\ Last > 0 /\ Last' = Last - 1 /\ Line[0] = NoNote
    /\ \A i \in 0..Last' : i + 1 \in 1..Last /\ Line'[i] = Line[i + 1]
    /\ \A i \in 1..Last : i - 1 \in 0..Last' /\ Line'[i - 1] = Line[i]
Looks == Last' = Last /\ Line'[0] = NoNote /\ \A i \in 1..Last : Line'[i] = Line[i]

LEMMA LineTypes ==
    ASSUME ClaudeTypes
    PROVE  /\ Last \in Nat /\ 0 \in 0..Last /\ Line[0] = c_stask
           /\ \A i \in 1..Last : i \in 0..Last /\ Line[i] = c_wire[i]
           /\ \A i \in 0..Last : Line[i] \in CliNotes
           /\ (Last = 0 <=> c_wire = <<>>)
<1>1. c_wire \in Seq(CliNotes) /\ c_stask \in CliNotes
  BY DEF ClaudeTypes
<1>2. Last \in Nat /\ 0 \in 0..Last /\ Line[0] = c_stask
  BY <1>1 DEF Last, Line
<1>3. \A i \in 1..Last : i \in 0..Last /\ Line[i] = c_wire[i] /\ c_wire[i] \in CliNotes
  BY <1>1, <1>2 DEF Last, Line
<1>4. \A i \in 0..Last : i = 0 \/ i \in 1..Last
  BY <1>2
<1>5. Last = 0 <=> c_wire = <<>>
  BY <1>1 DEF Last
<1>6. QED
  BY <1>1, <1>2, <1>3, <1>4, <1>5

LEMMA LineGrows ==
    ASSUME ClaudeTypes, NEW note \in CliNotes, c_wire' = Append(c_wire, note), UNCHANGED c_stask
    PROVE  Comes(note)
<1>1. c_wire \in Seq(CliNotes)
  BY DEF ClaudeTypes
<1>2. /\ Last \in Nat /\ Last' = Last + 1 /\ c_wire'[Last + 1] = note
      /\ \A i \in 1..Last : c_wire'[i] = c_wire[i]
  BY <1>1, AppendProperties DEF Last
<1>3. \A i \in 0..Last + 1 : Line'[i] = IF i = 0 THEN c_stask' ELSE c_wire'[i]
  BY <1>2 DEF Line
<1>4. \A i \in 0..Last : Line[i] = IF i = 0 THEN c_stask ELSE c_wire[i]
  BY <1>2 DEF Line
<1>5. Line'[Last + 1] = note
  <2>1. Last + 1 \in 0..Last + 1 /\ Last + 1 # 0
    BY <1>2
  <2>2. Line'[Last + 1] = c_wire'[Last + 1]
    BY ONLY <1>3, <2>1
  <2>3. QED
    BY <1>2, <2>2
<1>6. ASSUME NEW i \in 0..Last PROVE Line'[i] = Line[i]
  <2>1. i \in 0..Last + 1 /\ (i = 0 \/ i \in 1..Last)
    BY <1>2
  <2>2. QED
    BY <1>2, <1>3, <1>4, <2>1
<1>7. QED
  BY <1>2, <1>5, <1>6 DEF Comes

LEMMA LineShifts ==
    ASSUME ClaudeTypes, c_stask = NoNote, c_wire # <<>>, c_stask' = Head(c_wire), c_wire' = Tail(c_wire)
    PROVE  Shifts
<1>1. c_wire \in Seq(CliNotes)
  BY DEF ClaudeTypes
<1>2. /\ Last \in Nat /\ Last > 0 /\ Last' = Last - 1 /\ c_stask' = c_wire[1]
      /\ \A i \in 1..Last - 1 : c_wire'[i] = c_wire[i + 1]
  BY <1>1 DEF Last
<1>3. \A i \in 0..Last - 1 : Line'[i] = IF i = 0 THEN c_stask' ELSE c_wire'[i]
  BY <1>2 DEF Line
<1>4. Line[0] = NoNote /\ \A i \in 1..Last : Line[i] = c_wire[i]
  BY <1>2 DEF Line
<1>5. ASSUME NEW i \in 0..Last - 1 PROVE i + 1 \in 1..Last /\ Line'[i] = Line[i + 1]
  <2>1. i + 1 \in 1..Last /\ (i = 0 \/ i \in 1..Last - 1)
    BY <1>2
  <2>2. Line[i + 1] = c_wire[i + 1]
    BY ONLY <1>4, <2>1
  <2>3. CASE i = 0
    BY ONLY <1>2, <1>3, <2>1, <2>2, <2>3
  <2>4. CASE i \in 1..Last - 1
    BY ONLY <1>2, <1>3, <2>1, <2>2, <2>4
  <2>5. QED
    BY <2>1, <2>3, <2>4
<1>6. ASSUME NEW i \in 1..Last PROVE i - 1 \in 0..Last - 1 /\ Line'[i - 1] = Line[i]
  <2>1. i - 1 \in 0..Last - 1 /\ (i - 1) + 1 = i
    BY <1>2
  <2>2. Line'[i - 1] = Line[(i - 1) + 1]
    BY ONLY <1>5, <2>1
  <2>3. QED
    BY ONLY <2>1, <2>2
<1>7. QED
  BY <1>2, <1>4, <1>5, <1>6 DEF Shifts

LEMMA LineLooks ==
    ASSUME ClaudeTypes, UNCHANGED c_wire, c_stask' = NoNote
    PROVE  Looks
<1>1. Last \in Nat /\ Last' = Last
  BY LineTypes DEF Last
<1>2. \A i \in 0..Last : Line'[i] = IF i = 0 THEN c_stask' ELSE c_wire'[i]
  BY <1>1 DEF Line
<1>3. \A i \in 0..Last : Line[i] = IF i = 0 THEN c_stask ELSE c_wire[i]
  BY <1>1 DEF Line
<1>4. Line'[0] = NoNote
  BY <1>1, <1>2
<1>5. \A i \in 1..Last : i \in 0..Last /\ i # 0
  BY <1>1
<1>6. QED
  BY <1>1, <1>2, <1>3, <1>4, <1>5 DEF Looks

-----------------------------------------------------------------------------
(* The steps of a turn, by what they do to the line and to the state that  *)
(* the invariant is about.                                                 *)

\* The tasks the model may start, and the messages the CLI was given.
Jobs  == IF part = "claude" THEN ClaudeTasks ELSE {}
Given == {c_surfaced[i] : i \in DOMAIN c_surfaced}

TaskTracks  == [pending : SUBSET Jobs, undelivered : SUBSET Jobs, staged : SUBSET Jobs]
SteerTracks == [undelivered : SUBSET Nat, staged : SUBSET Nat]
ResumeState == [opening : BOOLEAN, orphan : BOOLEAN, awaiting : BOOLEAN]

trackers == <<phase, tasks, steers, resume, window, demoted>>
work     == <<mode, cutting, queued, heard, live, chores>>
outcome     == <<c_surfaced, c_taken, unsure, gaveUp, c_result>>

\* The CLI.
Cleans ==
    /\ chores /\ ~chores' /\ UNCHANGED <<mode, cutting, queued, heard, live>>
    /\ Last' = Last + 3 /\ (\A i \in 0..Last : Line'[i] = Line[i])
    /\ Line'[Last + 1] = [kind |-> "ended", task |-> -1]
    /\ Line'[Last + 2] = [kind |-> "init", task |-> 0]
    /\ Line'[Last + 3] = [kind |-> "empty", task |-> 0]

CarriesAll == mode' = "call" /\ heard' = heard \cup queued /\ queued' = {} /\ UNCHANGED <<cutting, live, chores>>

Opens  == mode = "idle" /\ queued # {} /\ ~chores /\ CarriesAll /\ Comes([kind |-> "init", task |-> 0])
Continues == mode = "spoke" /\ ~cutting /\ CarriesAll /\ Comes([kind |-> "tool", task |-> 0])
Speaks ==
    /\ mode = "call" /\ mode' = "spoke" /\ UNCHANGED <<cutting, queued, heard, live, chores>>
    /\ Comes([kind |-> "output", task |-> 0])
Concludes ==
    /\ mode = "spoke" /\ ~cutting /\ mode' = "idle" /\ UNCHANGED <<cutting, queued, heard, live, chores>>
    /\ \E kind \in {"result", "error"} : Comes([kind |-> kind, task |-> 0])
IsCut ==
    /\ cutting /\ cutting' = FALSE /\ mode' = "idle" /\ UNCHANGED <<queued, heard, live, chores>>
    /\ Comes([kind |-> "settle", task |-> 0])
Starts(t) ==
    /\ t \in Jobs /\ mode = "spoke" /\ t \notin live \cup queued \cup heard
    /\ live' = live \cup {t} /\ UNCHANGED <<mode, cutting, queued, heard, chores>>
    /\ Comes([kind |-> "started", task |-> t])
EndsJob(t) ==
    /\ t \in Jobs /\ t \in live /\ live' = live \ {t} /\ queued' = queued \cup {t}
    /\ UNCHANGED <<mode, cutting, heard, chores>>
    /\ Comes([kind |-> "ended", task |-> t])
Dies ==
    /\ mode # "gone" /\ mode' = "gone" /\ cutting' = FALSE /\ live' = {} /\ chores' = FALSE /\ UNCHANGED <<queued, heard>>
    /\ \E kind \in Ends : Comes([kind |-> kind, task |-> 0])

CliMoves ==
    /\ UNCHANGED <<trackers, outcome, c_waiting, c_sent, c_pc>>
    /\ \/ Cleans \/ Opens \/ Continues \/ Speaks \/ Concludes \/ IsCut \/ Dies
       \/ \E t \in Jobs : Starts(t) \/ EndsJob(t)

\* The operator, and the reads.
Listens == UNCHANGED <<trackers, work, outcome, c_waiting, Last, Line>>
Returns == Shifts /\ UNCHANGED <<trackers, work, outcome, c_waiting>>

\* The loop.
Asks(msg) ==
    /\ msg.op # "steer" /\ c_taken' = Append(c_taken, msg) /\ c_waiting' = {msg}
    /\ cutting' \in {cutting, cutting \/ mode \in {"call", "spoke"}}
    /\ UNCHANGED <<mode, queued, heard, live, chores, trackers, c_surfaced, unsure, gaveUp, c_result, Last, Line>>

\* A message goes to the CLI: as it is taken, as the answer to an interrupt
\* comes, or as the wait for that answer runs out.
Gives(msg) ==
    /\ queued' = queued \cup {msg.id} /\ c_surfaced' = Append(c_surfaced, msg.id)
    /\ steers' = [steers EXCEPT !.undelivered = @ \cup {msg.id}] /\ phase' = "active"
    /\ unsure' = IF \/ "steer" \in window'
                    \/ \E i \in 0..Last : Line'[i].kind \in {"tool", "init", "error", "settle"}
                 THEN unsure \cup {msg.id} ELSE unsure
    /\ \/ msg \in c_ctask /\ c_taken' = Append(c_taken, msg) /\ UNCHANGED <<c_waiting, demoted, Last, Line>>
          /\ (UNCHANGED window \/ (window' = window \ {"steer"} /\ msg.op # "steer"))
       \/ msg \in c_waiting /\ c_waiting' = {} /\ UNCHANGED <<c_taken, window>>
          /\ \/ UNCHANGED <<demoted, Last, Line>>
             \/ Kind(0) \in Verdicts /\ Looks /\ demoted' = Kind(0)
    /\ UNCHANGED <<mode, cutting, heard, live, chores, tasks, resume, gaveUp, c_result>>

Watches ==
    /\ Looks /\ Kind(0) \in {"init", "output", "tool", "started", "ended"}
    /\ tasks' = Claude!Tracked(Line[0]) /\ steers' = Claude!Steered(Line[0])
    /\ resume' = IF Kind(0) = "output"
                 THEN [resume EXCEPT !.opening = FALSE, !.awaiting = FALSE]
                 ELSE [resume EXCEPT !.orphan = @ \/ (/\ Kind(0) = "ended" /\ resume.opening
                                                      /\ Line[0].task \notin tasks.pending)]
    /\ \/ Kind(0) = "init" /\ phase' = "active" /\ window' = {}
       \/ Kind(0) = "output" /\ window' = window \ {"resume"} /\ UNCHANGED phase
       \/ Kind(0) \notin {"init", "output"} /\ UNCHANGED <<phase, window>>
    /\ UNCHANGED <<work, outcome, c_waiting, demoted>>

Keeps ==
    /\ c_waiting = {} /\ Kind(0) = "empty" /\ resume.opening /\ resume.orphan /\ Looks
    /\ resume' = [resume EXCEPT !.awaiting = TRUE]
    /\ phase' = "between" /\ window' = window \cup {"resume"}
    /\ UNCHANGED <<work, outcome, c_waiting, tasks, steers, demoted>>

\* A verdict the loop takes for itself.
OwnVerdict ==
    /\ c_waiting = {} /\ ~(Kind(0) = "empty" /\ resume.opening /\ resume.orphan)
    /\ Kind(0) \in Verdicts

Demotes ==
    /\ OwnVerdict /\ Looks /\ demoted' = Kind(0) /\ phase' = "between"
    /\ resume' = [resume EXCEPT !.opening = FALSE, !.awaiting = FALSE]
    /\ \/ /\ Kind(0) \notin {"error", "settle"} /\ Claude!TasksWait # "no"
          /\ window' \subseteq window \cup {"tasks"}
       \/ /\ Kind(0) \in {"error", "settle"} \/ Claude!TasksWait = "no"
          /\ Claude!SteersWait /\ window' = (window \ {"resume"}) \cup {"steer"}
    /\ UNCHANGED <<work, outcome, c_waiting, tasks, steers>>

LoopMoves ==
    \/ Listens \/ Returns \/ (\E msg \in c_ctask : Asks(msg))
    \/ (\E msg \in c_ctask \cup c_waiting : Gives(msg))
    \/ Watches \/ Keeps \/ Demotes

\* The turn ends well.
Succeeds(r) ==
    /\ r.subtype = "success" /\ UNCHANGED <<work, c_surfaced, c_taken, unsure>>
    /\ \/ /\ OwnVerdict /\ Kind(0) \notin {"error", "settle"} /\ UNCHANGED gaveUp
          /\ Claude!TasksWait = "no" /\ ~Claude!SteersWait
       \/ /\ demoted \in {"result", "empty"} /\ c_waiting = {} /\ "steer" \in window
          /\ Last = 0 /\ Kind(0) = "pending" /\ UNCHANGED gaveUp
          /\ mode \in {"idle", "gone"} => queued \subseteq unsure
       \/ /\ demoted \in {"result", "empty"} /\ c_waiting = {} /\ phase # "active"
          /\ Last = 0 /\ Kind(0) = "pending" /\ gaveUp'
          /\ mode \in {"idle", "gone"} => queued \subseteq unsure
       \/ demoted \in {"result", "empty"} /\ Kind(0) \in Ends

\* Without tools and tasks a turn makes the steps that it makes with them.
LEMMA TalkedIsClaude ==
    /\ Talked!CliWorks => Claude!CliWorks
    /\ Talked!CliGone => Claude!CliGone
    /\ Talked!Harness => Claude!Harness
<1>1. Talked!CliWorks => Claude!CliWorks
  BY DEF Claude!CliWorks, Talked!CliWorks, Claude!CliChores, Claude!CliInit, Claude!CliOutput,
         Claude!CliResult, Claude!CliSettles, Talked!CliChores, Talked!CliInit, Talked!CliOutput,
         Talked!CliResult, Talked!CliSettles, Claude!Cli, Talked!Cli, Claude!Emit, Talked!Emit, Claude!Carry, Talked!Carry
<1>2. Talked!CliGone => Claude!CliGone
  BY DEF Talked!CliGone, Claude!CliGone, Claude!Cli, Talked!Cli, Claude!Emit, Talked!Emit
<1> USE DEF Claude!TakesNote, Talked!TakesNote, Claude!TakesControl, Talked!TakesControl, Claude!TimesOut, Talked!TimesOut,
            Claude!Finish, Talked!Finish, Claude!Deliver, Talked!Deliver, Claude!OfDemoted, Talked!OfDemoted,
            Claude!Results, Talked!Results, Claude!Housekeeping, Talked!Housekeeping, Claude!Quiet, Talked!Quiet,
            Claude!Why, Talked!Why
<1>3. Talked!StreamRead \/ Talked!ControlRead => Claude!StreamRead \/ Claude!ControlRead
  BY DEF Talked!StreamRead, Talked!ControlRead, Claude!StreamRead, Claude!ControlRead
<1>4. ASSUME NEW msg, Talked!TakeSteer(msg) \/ Talked!TakeInterrupt(msg) \/ Talked!TakeInterruptBetween(msg)
      PROVE  Claude!TakeSteer(msg) \/ Claude!TakeInterrupt(msg) \/ Claude!TakeInterruptBetween(msg)
  <2>1. Talked!TakeSteer(msg) => Claude!TakeSteer(msg)
    BY DEF Talked!TakeSteer, Claude!TakeSteer
  <2>2. Talked!TakeInterrupt(msg) => Claude!TakeInterrupt(msg)
    BY DEF Talked!TakeInterrupt, Claude!TakeInterrupt
  <2>3. Talked!TakeInterruptBetween(msg) => Claude!TakeInterruptBetween(msg)
    BY DEF Talked!TakeInterruptBetween, Claude!TakeInterruptBetween
  <2>4. QED
    BY <1>4, <2>1, <2>2, <2>3
<1>5. Talked!TakeEvent => Claude!TakeEvent
  BY DEF Talked!TakeEvent, Claude!TakeEvent, Talked!Tracked, Claude!Tracked, Talked!Steered, Claude!Steered
<1>6. Talked!TakeSettle => Claude!TakeSettle
  BY DEF Talked!TakeSettle, Claude!TakeSettle
<1>7. Talked!TakeHousekeeping => Claude!TakeHousekeeping
  BY DEF Talked!TakeHousekeeping, Claude!TakeHousekeeping
<1>8. Talked!TakeResult => Claude!TakeResult
  BY DEF Talked!TakeResult, Claude!TakeResult, Talked!Demote, Claude!Demote, Talked!TasksWait, Claude!TasksWait,
         Talked!SteersWait, Claude!SteersWait
<1>9. Talked!InterruptTimeout => Claude!InterruptTimeout
  BY DEF Talked!InterruptTimeout, Claude!InterruptTimeout
<1>10. Talked!SteerTimeout \/ Talked!ResumeTimeout \/ Talked!TaskTimeout =>
         Claude!SteerTimeout \/ Claude!ResumeTimeout \/ Claude!TaskTimeout
  BY DEF Talked!SteerTimeout, Talked!ResumeTimeout, Talked!TaskTimeout, Claude!SteerTimeout, Claude!ResumeTimeout,
         Claude!TaskTimeout
<1>11. Talked!TakeGone => Claude!TakeGone
  BY DEF Talked!TakeGone, Claude!TakeGone
<1>12. Talked!Harness => Claude!Harness
  BY <1>3, <1>4, <1>5, <1>6, <1>7, <1>8, <1>9, <1>10, <1>11 DEF Talked!Harness, Claude!Harness
<1>13. QED
  BY <1>1, <1>2, <1>12

LEMMA CliStepMoves ==
    ASSUME ClaudeTypes, part \in {"claude", "talked"},
           \/ Claude!CliWorks \/ Claude!CliGone \/ Claude!CliTool \/ Talked!CliTool
           \/ part = "claude" /\ \E t \in ClaudeTasks : Claude!CliStartsTask(t) \/ Claude!CliEndsTask(t)
    PROVE  c_pc = "loop" /\ CliMoves
<1> USE DEF trackers, outcome
<1> DEFINE Rests == UNCHANGED <<c_pc, c_stask, c_sent, trackers, outcome, c_waiting>>
<1>1. c_pc = "loop" /\ Rests
  BY DEF Claude!CliWorks, Claude!CliTool, Talked!CliTool, Claude!CliGone, Claude!CliStartsTask, Claude!CliEndsTask,
         Claude!CliChores, Claude!CliInit, Claude!CliOutput, Claude!CliResult, Claude!CliSettles, Claude!Cli, Talked!Cli
<1> HIDE DEF Rests
<1>2. UNCHANGED c_stask /\ (UNCHANGED <<trackers, outcome, c_waiting, c_sent, c_pc>>)
  BY <1>1 DEF Rests
<1>3. ASSUME NEW kind \in NoteKinds, NEW t \in Int, c_wire' = Append(c_wire, [kind |-> kind, task |-> t])
      PROVE  Comes([kind |-> kind, task |-> t])
  <2>1. [kind |-> kind, task |-> t] \in CliNotes
    BY DEF CliNotes
  <2>2. QED
    BY <1>2, <1>3, <2>1, LineGrows
<1>4. {"init", "output", "tool", "started", "ended", "result", "error", "settle", "end", "crash"} \subseteq NoteKinds /\ 0 \in Int
  BY DEF NoteKinds, Ends
<1>5. CASE Claude!CliChores
  <2> DEFINE more == <<[kind |-> "ended", task |-> -1], [kind |-> "init", task |-> 0], [kind |-> "empty", task |-> 0]>>
  <2>1. c_wire' = c_wire \o more /\ chores /\ ~chores' /\ UNCHANGED <<mode, cutting, queued, heard, live>>
    BY <1>5 DEF Claude!CliChores
  <2>2. c_wire \in Seq(CliNotes)
    BY DEF ClaudeTypes
  <2>3. more \in Seq(CliNotes)
    <3>1. /\ [kind |-> "ended", task |-> -1] \in CliNotes /\ [kind |-> "init", task |-> 0] \in CliNotes
          /\ [kind |-> "empty", task |-> 0] \in CliNotes
      BY DEF CliNotes, NoteKinds
    <3>2. QED
      BY <3>1
  <2>4. /\ Len(more) = 3 /\ more[1] = [kind |-> "ended", task |-> -1] /\ more[2] = [kind |-> "init", task |-> 0]
        /\ more[3] = [kind |-> "empty", task |-> 0]
    OBVIOUS
  <2> HIDE DEF more
  <2>5. /\ Last \in Nat /\ Last' = Last + 3
        /\ \A i \in 1..Last + 3 : c_wire'[i] = IF i <= Last THEN c_wire[i] ELSE more[i - Last]
    <3>1. /\ Len(c_wire') = Len(c_wire) + Len(more) /\ Len(c_wire) \in Nat
          /\ \A i \in 1..Len(c_wire) + Len(more) :
               c_wire'[i] = IF i <= Len(c_wire) THEN c_wire[i] ELSE more[i - Len(c_wire)]
      BY <2>1, <2>2, <2>3, ConcatProperties
    <3>2. Len(c_wire') = Len(c_wire) + 3
      BY ONLY <2>4, <3>1
    <3>3. \A i \in 1..Len(c_wire) + 3 : c_wire'[i] = IF i <= Len(c_wire) THEN c_wire[i] ELSE more[i - Len(c_wire)]
      BY ONLY <2>4, <3>1
    <3>4. QED
      BY ONLY <3>1, <3>2, <3>3 DEF Last
  <2>6. \A i \in 0..Last + 3 : Line'[i] = IF i = 0 THEN c_stask ELSE c_wire'[i]
    BY <1>2, <2>5 DEF Line
  <2>7. \A i \in 0..Last : Line[i] = IF i = 0 THEN c_stask ELSE c_wire[i]
    BY <2>5 DEF Line
  <2>8. /\ Last + 1 \in 1..Last + 3 /\ Last + 2 \in 1..Last + 3 /\ Last + 3 \in 1..Last + 3
        /\ (Last + 1) - Last = 1 /\ (Last + 2) - Last = 2 /\ (Last + 3) - Last = 3
        /\ \A i \in 1..Last + 3 : i \in 0..Last + 3 /\ i # 0
        /\ \A i \in 0..Last : i \in 0..Last + 3 /\ (i = 0 \/ (i \in 1..Last + 3 /\ i <= Last))
        /\ ~(Last + 1 <= Last) /\ ~(Last + 2 <= Last) /\ ~(Last + 3 <= Last)
    BY <2>5
  <2>9. \A i \in 0..Last : Line'[i] = Line[i]
    BY ONLY <2>5, <2>6, <2>7, <2>8
  <2>10. Line'[Last + 1] = more[1] /\ Line'[Last + 2] = more[2] /\ Line'[Last + 3] = more[3]
    <3>1. c_wire'[Last + 1] = more[1] /\ c_wire'[Last + 2] = more[2] /\ c_wire'[Last + 3] = more[3]
      BY ONLY <2>5, <2>8
    <3>2. /\ Line'[Last + 1] = c_wire'[Last + 1] /\ Line'[Last + 2] = c_wire'[Last + 2]
          /\ Line'[Last + 3] = c_wire'[Last + 3]
      BY ONLY <2>6, <2>8
    <3>3. QED
      BY <3>1, <3>2
  <2>11. Cleans
    BY <2>1, <2>4, <2>5, <2>9, <2>10 DEF Cleans
  <2>12. QED
    BY <1>1, <1>2, <2>11 DEF CliMoves
<1>6. CASE Claude!CliInit
  <2>1. c_wire' = Append(c_wire, [kind |-> "init", task |-> 0]) /\ mode = "idle" /\ queued # {} /\ ~chores /\ CarriesAll
    BY <1>6 DEF Claude!CliInit, Claude!Emit, Claude!Carry, CarriesAll
  <2>2. Opens
    BY <1>3, <1>4, <2>1 DEF Opens
  <2>3. QED
    BY <1>1, <1>2, <2>2 DEF CliMoves
<1>7. CASE Claude!CliOutput
  <2>1. /\ c_wire' = Append(c_wire, [kind |-> "output", task |-> 0]) /\ mode = "call" /\ mode' = "spoke"
        /\ UNCHANGED <<cutting, queued, heard, live, chores>>
    BY <1>7 DEF Claude!CliOutput, Claude!Emit
  <2>2. Speaks
    BY <1>3, <1>4, <2>1 DEF Speaks
  <2>3. QED
    BY <1>1, <1>2, <2>2 DEF CliMoves
<1>8. CASE Claude!CliTool \/ Talked!CliTool
  <2>1. c_wire' = Append(c_wire, [kind |-> "tool", task |-> 0]) /\ mode = "spoke" /\ ~cutting /\ CarriesAll
    BY <1>8 DEF Claude!CliTool, Talked!CliTool, Claude!Emit, Talked!Emit, Claude!Carry, Talked!Carry, CarriesAll
  <2>2. Continues
    BY <1>3, <1>4, <2>1 DEF Continues
  <2>3. QED
    BY <1>1, <1>2, <2>2 DEF CliMoves
<1>9. CASE Claude!CliResult
  <2>1. PICK kind \in {"result", "error"} : c_wire' = Append(c_wire, [kind |-> kind, task |-> 0])
    BY <1>9 DEF Claude!CliResult, Claude!Emit
  <2>2. mode = "spoke" /\ ~cutting /\ mode' = "idle" /\ UNCHANGED <<cutting, queued, heard, live, chores>>
    BY <1>9 DEF Claude!CliResult
  <2>3. Comes([kind |-> kind, task |-> 0])
    BY <1>3, <1>4, <2>1
  <2>4. Concludes
    BY <2>2, <2>3 DEF Concludes
  <2>5. QED
    BY <1>1, <1>2, <2>4 DEF CliMoves
<1>10. CASE Claude!CliSettles
  <2>1. /\ c_wire' = Append(c_wire, [kind |-> "settle", task |-> 0]) /\ cutting /\ cutting' = FALSE /\ mode' = "idle"
        /\ UNCHANGED <<queued, heard, live, chores>>
    BY <1>10 DEF Claude!CliSettles, Claude!Emit
  <2>2. IsCut
    BY <1>3, <1>4, <2>1 DEF IsCut
  <2>3. QED
    BY <1>1, <1>2, <2>2 DEF CliMoves
<1>11. CASE Claude!CliGone
  <2>1. PICK kind \in Ends : c_wire' = Append(c_wire, [kind |-> kind, task |-> 0])
    BY <1>11 DEF Claude!CliGone, Claude!Emit, Ends
  <2>2. /\ mode # "gone" /\ mode' = "gone" /\ cutting' = FALSE /\ live' = {} /\ chores' = FALSE
        /\ UNCHANGED <<queued, heard>>
    BY <1>11 DEF Claude!CliGone
  <2>3. Comes([kind |-> kind, task |-> 0])
    BY <1>3, <1>4, <2>1 DEF Ends
  <2>4. Dies
    BY <2>2, <2>3 DEF Dies
  <2>5. QED
    BY <1>1, <1>2, <2>4 DEF CliMoves
<1>12. ASSUME part = "claude", NEW t \in ClaudeTasks, Claude!CliStartsTask(t) \/ Claude!CliEndsTask(t) PROVE CliMoves
  <2>1. t \in Jobs /\ t \in Int
    BY <1>12, ClaudeConstants DEF Jobs
  <2>2. CASE Claude!CliStartsTask(t)
    <3>1. /\ c_wire' = Append(c_wire, [kind |-> "started", task |-> t])
          /\ mode = "spoke" /\ t \notin live \cup queued \cup heard
          /\ live' = live \cup {t} /\ UNCHANGED <<mode, cutting, queued, heard, chores>>
      BY <2>2 DEF Claude!CliStartsTask, Claude!Emit
    <3>2. Starts(t)
      BY <1>3, <1>4, <2>1, <3>1 DEF Starts
    <3>3. QED
      BY <1>2, <2>1, <3>2 DEF CliMoves
  <2>3. CASE Claude!CliEndsTask(t)
    <3>1. /\ c_wire' = Append(c_wire, [kind |-> "ended", task |-> t])
          /\ t \in live /\ live' = live \ {t} /\ queued' = queued \cup {t} /\ UNCHANGED <<mode, cutting, heard, chores>>
      BY <2>3 DEF Claude!CliEndsTask, Claude!Emit
    <3>2. EndsJob(t)
      BY <1>3, <1>4, <2>1, <3>1 DEF EndsJob
    <3>3. QED
      BY <1>2, <2>1, <3>2 DEF CliMoves
  <2>4. QED
    BY <1>12, <2>2, <2>3
<1>13. QED
  BY <1>1, <1>5, <1>6, <1>7, <1>8, <1>9, <1>10, <1>11, <1>12 DEF Claude!CliWorks

LEMMA GivesOnLine ==
    ASSUME ClaudeTypes, UNCHANGED c_wire, c_stask' = c_stask \/ c_stask' = NoNote, NEW S
    PROVE  /\ c_stask' = c_stask => UNCHANGED <<Last, Line>>
           /\ c_stask' = NoNote => Looks
           /\ (\E n \in {c_wire[i] : i \in DOMAIN c_wire} \cup {c_stask'} : n.kind \in S)
                <=> \E i \in 0..Last : Line'[i].kind \in S
<1>1. /\ Last \in Nat /\ Last' = Last /\ DOMAIN c_wire = 1..Last
  BY LineTypes DEF Last, ClaudeTypes
<1>2. \A i \in 0..Last : Line'[i] = IF i = 0 THEN c_stask' ELSE c_wire[i]
  BY <1>1 DEF Line
<1>3. c_stask' = NoNote => Looks
  BY LineLooks
<1>4. c_stask' = c_stask => UNCHANGED <<Last, Line>>
  BY DEF Last, Line
<1>5. /\ 0 \in 0..Last /\ (\A i \in 1..Last : i \in 0..Last /\ i # 0) /\ (\A i \in 0..Last : i = 0 \/ i \in 1..Last)
  BY <1>1
<1>6. ASSUME NEW n \in {c_wire[i] : i \in DOMAIN c_wire} \cup {c_stask'} PROVE \E i \in 0..Last : Line'[i] = n
  <2>1. CASE n = c_stask'
    BY ONLY <1>2, <1>5, <2>1
  <2>2. CASE n # c_stask'
    <3>1. PICK i \in 1..Last : n = c_wire[i]
      BY ONLY <1>1, <1>6, <2>2
    <3>2. QED
      BY ONLY <1>2, <1>5, <3>1
  <2>3. QED
    BY <2>1, <2>2
<1>7. ASSUME NEW i \in 0..Last PROVE Line'[i] \in {c_wire[j] : j \in DOMAIN c_wire} \cup {c_stask'}
  BY ONLY <1>1, <1>2, <1>5, <1>7
<1>8. QED
  BY ONLY <1>3, <1>4, <1>6, <1>7

\* A step of the operator or of the loop, while the turn goes on and when it ends.
LEMMA LoopStepMoves ==
    ASSUME ClaudeTypes, Claude!OperatorSends \/ Talked!OperatorSends \/ Claude!Harness
    PROVE  /\ c_pc = "loop"
           /\ \/ c_pc' = "loop" /\ LoopMoves
              \/ c_pc' # "loop" /\ \A r \in c_result' : r.subtype = "success" => Succeeds(r)
<1> USE DEF trackers, outcome, work
<1> DEFINE Goal == /\ c_pc = "loop"
                   /\ \/ c_pc' = "loop" /\ LoopMoves
                      \/ c_pc' # "loop" /\ \A r \in c_result' : r.subtype = "success" => Succeeds(r)
<1>0. c_stask = Line[0] /\ (c_pc = "loop" => c_result = {}) /\ NoNote = [kind |-> "pending", task |-> 0]
  BY LineTypes DEF ClaudeTypes, NoNote
<1>1. CASE \/ Claude!OperatorSends \/ Talked!OperatorSends \/ Claude!ControlRead
  <2>1. c_pc = "loop" /\ UNCHANGED <<c_pc, c_stask, c_wire, trackers, work, outcome, c_waiting>>
    BY <1>1 DEF Claude!OperatorSends, Talked!OperatorSends, Claude!ControlRead
  <2>2. Listens
    BY <2>1 DEF Listens, Last, Line
  <2>3. QED
    BY <2>1, <2>2 DEF LoopMoves
<1>2. CASE Claude!StreamRead
  <2>1. /\ c_pc = "loop" /\ c_stask = NoNote /\ c_wire # <<>> /\ c_stask' = Head(c_wire) /\ c_wire' = Tail(c_wire)
        /\ UNCHANGED <<c_pc, trackers, work, outcome, c_waiting>>
    BY <1>0, <1>2 DEF Claude!StreamRead
  <2>2. Returns
    BY <2>1, LineShifts DEF Returns
  <2>3. QED
    BY <2>1, <2>2 DEF LoopMoves
<1>3. ASSUME NEW msg \in c_ctask, Claude!TakeInterrupt(msg) PROVE Goal
  <2>1. /\ c_pc = "loop" /\ UNCHANGED <<c_pc, c_wire, c_stask>>
        /\ msg.op # "steer" /\ c_taken' = Append(c_taken, msg) /\ c_waiting' = {msg}
        /\ cutting' \in {cutting, cutting \/ mode \in {"call", "spoke"}}
        /\ UNCHANGED <<mode, queued, heard, live, chores, trackers, c_surfaced, unsure, gaveUp, c_result>>
    BY <1>3 DEF Claude!TakeInterrupt, Claude!TakesControl
  <2>2. Asks(msg)
    BY <2>1 DEF Asks, Last, Line
  <2>3. QED
    BY <2>1, <2>2 DEF LoopMoves
<1>4. ASSUME NEW msg \in c_ctask \cup c_waiting, Claude!Deliver(msg), UNCHANGED c_wire, c_pc = "loop",
             UNCHANGED <<c_pc, c_result, tasks, resume, gaveUp>>,
             \/ /\ msg \in c_ctask /\ c_taken' = Append(c_taken, msg) /\ UNCHANGED <<c_waiting, demoted, c_stask>>
                /\ (UNCHANGED window \/ (window' = window \ {"steer"} /\ msg.op # "steer"))
             \/ /\ msg \in c_waiting /\ c_waiting' = {} /\ UNCHANGED <<c_taken, window>>
                /\ \/ UNCHANGED <<demoted, c_stask>>
                   \/ c_stask.kind \in Verdicts /\ c_stask' = NoNote /\ demoted' = c_stask.kind
      PROVE  Goal
  <2>1. /\ queued' = queued \cup {msg.id} /\ c_surfaced' = Append(c_surfaced, msg.id)
        /\ steers' = [steers EXCEPT !.undelivered = @ \cup {msg.id}] /\ phase' = "active"
        /\ unsure' = IF \/ "steer" \in window'
                        \/ \E n \in {c_wire[i] : i \in DOMAIN c_wire} \cup {c_stask'} :
                             n.kind \in {"tool", "init", "error", "settle"}
                     THEN unsure \cup {msg.id} ELSE unsure
        /\ UNCHANGED <<mode, cutting, heard, live, chores>>
    BY <1>4 DEF Claude!Deliver
  <2>2. /\ c_stask' = c_stask => UNCHANGED <<Last, Line>>
        /\ c_stask' = NoNote => Looks
        /\ (\E n \in {c_wire[i] : i \in DOMAIN c_wire} \cup {c_stask'} : n.kind \in {"tool", "init", "error", "settle"})
                <=> \E i \in 0..Last : Line'[i].kind \in {"tool", "init", "error", "settle"}
    BY <1>4, GivesOnLine
  <2>3. unsure' = IF \/ "steer" \in window'
                     \/ \E i \in 0..Last : Line'[i].kind \in {"tool", "init", "error", "settle"}
                  THEN unsure \cup {msg.id} ELSE unsure
    BY ONLY <2>1, <2>2
  <2>4. \/ /\ msg \in c_ctask /\ c_taken' = Append(c_taken, msg) /\ UNCHANGED <<c_waiting, demoted, Last, Line>>
           /\ (UNCHANGED window \/ (window' = window \ {"steer"} /\ msg.op # "steer"))
        \/ /\ msg \in c_waiting /\ c_waiting' = {} /\ UNCHANGED <<c_taken, window>>
           /\ \/ UNCHANGED <<demoted, Last, Line>>
              \/ Kind(0) \in Verdicts /\ Looks /\ demoted' = Kind(0)
    BY <1>0, <1>4, <2>2 DEF Kind
  <2>5. Gives(msg)
    BY <1>4, <2>1, <2>3, <2>4 DEF Gives
  <2>6. QED
    BY <1>4, <2>5 DEF LoopMoves
<1>5. ASSUME NEW msg \in c_ctask, Claude!TakeSteer(msg) PROVE Goal
  <2>1. /\ c_pc = "loop" /\ UNCHANGED <<c_pc, c_wire, c_stask, tasks, resume, c_waiting, demoted, c_result, gaveUp, window>>
        /\ c_taken' = Append(c_taken, msg) /\ Claude!Deliver(msg)
    BY <1>5 DEF Claude!TakeSteer, Claude!TakesControl
  <2>2. QED
    BY <1>4, <2>1
<1>6. ASSUME NEW msg \in c_ctask, Claude!TakeInterruptBetween(msg) PROVE Goal
  <2>1. /\ c_pc = "loop" /\ UNCHANGED <<c_wire, c_stask, tasks, resume, c_waiting, demoted, gaveUp>>
        /\ c_taken' = Append(c_taken, msg) /\ msg.op # "steer"
        /\ \/ c_pc' = "done" /\ c_result' = {[subtype |-> "interrupted", from |-> demoted, own |-> TRUE]}
           \/ window' = window \ {"steer"} /\ Claude!Deliver(msg) /\ UNCHANGED <<c_pc, c_result>>
    BY <1>6 DEF Claude!TakeInterruptBetween, Claude!TakesControl, Claude!Finish
  <2>2. CASE c_pc' = "done" /\ c_result' = {[subtype |-> "interrupted", from |-> demoted, own |-> TRUE]}
    <3>1. \A r \in c_result' : r.subtype # "success"
      BY <2>2
    <3>2. QED
      BY <2>1, <2>2, <3>1
  <2>3. CASE window' = window \ {"steer"} /\ Claude!Deliver(msg) /\ UNCHANGED <<c_pc, c_result>>
    BY <1>4, <2>1, <2>3
  <2>4. QED
    BY <2>1, <2>2, <2>3
<1>7. CASE Claude!TakeEvent
  <2>1. /\ c_pc = "loop" /\ c_stask' = NoNote /\ c_stask.kind \in {"init", "output", "tool", "started", "ended"}
        /\ UNCHANGED <<c_pc, c_wire, work, outcome, c_waiting, demoted>>
        /\ tasks' = Claude!Tracked(c_stask) /\ steers' = Claude!Steered(c_stask)
        /\ resume' = IF c_stask.kind = "output"
                     THEN [resume EXCEPT !.opening = FALSE, !.awaiting = FALSE]
                     ELSE [resume EXCEPT !.orphan = @ \/ (/\ c_stask.kind = "ended" /\ resume.opening
                                                          /\ c_stask.task \notin tasks.pending)]
    BY <1>0, <1>7 DEF Claude!TakeEvent, Claude!TakesNote
  <2>2. \/ c_stask.kind = "init" /\ phase' = "active" /\ window' = {}
        \/ c_stask.kind = "output" /\ window' = window \ {"resume"} /\ UNCHANGED phase
        \/ c_stask.kind \notin {"init", "output"} /\ UNCHANGED <<phase, window>>
    BY <1>7 DEF Claude!TakeEvent
  <2>3. Looks
    BY <2>1, LineLooks
  <2>4. Watches
    BY ONLY <1>0, <2>1, <2>2, <2>3 DEF Watches, Kind
  <2>5. QED
    BY <2>1, <2>4 DEF LoopMoves
<1>8. CASE Claude!TakeSettle
  <2>1. /\ c_pc = "loop" /\ c_stask.kind \in Verdicts /\ c_stask' = NoNote /\ c_waiting' = {}
        /\ UNCHANGED <<c_wire, tasks, resume, c_taken, gaveUp>>
    BY <1>0, <1>8 DEF Claude!TakeSettle, Claude!TakesNote, Claude!Results, Verdicts
  <2>2. PICK msg \in c_waiting :
          \/ c_pc' = "done" /\ c_result' = {[subtype |-> "interrupted", from |-> c_stask.kind, own |-> FALSE]}
          \/ demoted' = c_stask.kind /\ UNCHANGED window /\ Claude!Deliver(msg) /\ UNCHANGED <<c_pc, c_result>>
    BY <1>8 DEF Claude!TakeSettle, Claude!Finish
  <2>3. CASE c_pc' = "done" /\ c_result' = {[subtype |-> "interrupted", from |-> c_stask.kind, own |-> FALSE]}
    <3>1. \A r \in c_result' : r.subtype # "success"
      BY <2>3
    <3>2. QED
      BY <2>1, <2>3, <3>1
  <2>4. CASE demoted' = c_stask.kind /\ UNCHANGED window /\ Claude!Deliver(msg) /\ UNCHANGED <<c_pc, c_result>>
    BY <1>4, <2>1, <2>4
  <2>5. QED
    BY <2>2, <2>3, <2>4
<1>9. CASE Claude!TakeHousekeeping
  <2>1. /\ c_pc = "loop" /\ c_stask' = NoNote /\ c_waiting = {} /\ c_stask.kind = "empty" /\ resume.opening /\ resume.orphan
        /\ resume' = [resume EXCEPT !.awaiting = TRUE]
        /\ phase' = "between" /\ window' = window \cup {"resume"}
        /\ UNCHANGED <<c_pc, c_wire, work, outcome, c_waiting, tasks, steers, demoted>>
    BY <1>0, <1>9 DEF Claude!TakeHousekeeping, Claude!TakesNote, Claude!Housekeeping
  <2>2. Looks
    BY <2>1, LineLooks
  <2>3. Keeps
    BY ONLY <1>0, <2>1, <2>2 DEF Keeps, Kind
  <2>4. QED
    BY <2>1, <2>3 DEF LoopMoves
<1>10. CASE Claude!TakeResult
  <2> DEFINE reason == IF c_stask.kind \in {"error", "settle"} THEN "no" ELSE Claude!TasksWait
             open == window \ {"resume"}
             ends == [subtype |-> IF c_stask.kind \in {"error", "settle"} THEN "error" ELSE "success",
                      from |-> c_stask.kind, own |-> TRUE]
  <2>1. /\ c_pc = "loop" /\ c_stask' = NoNote /\ c_waiting = {} /\ c_stask.kind \in Verdicts
        /\ ~(c_stask.kind = "empty" /\ resume.opening /\ resume.orphan)
        /\ resume' = [resume EXCEPT !.opening = FALSE, !.awaiting = FALSE]
        /\ UNCHANGED <<c_wire, work, tasks, steers, c_waiting, c_surfaced, c_taken, unsure, gaveUp>>
    BY <1>0, <1>10 DEF Claude!TakeResult, Claude!TakesNote, Claude!Housekeeping, Claude!Results, Verdicts
  <2>2. \/ reason # "no" /\ Claude!Demote((open \ {"tasks"}) \cup IF reason = "pending" THEN {"tasks"} ELSE {})
        \/ reason = "no" /\ Claude!SteersWait /\ Claude!Demote(open \cup {"steer"})
        \/ reason = "no" /\ ~Claude!SteersWait /\ Claude!Finish(ends)
    <3>1. CASE reason # "no"
      BY <1>10, <3>1 DEF Claude!TakeResult
    <3>2. CASE reason = "no" /\ Claude!SteersWait
      BY <1>10, <3>2 DEF Claude!TakeResult
    <3>3. CASE reason = "no" /\ ~Claude!SteersWait
      BY <1>10, <3>3 DEF Claude!TakeResult
    <3>4. QED
      BY <3>1, <3>2, <3>3
  <2>3. Looks /\ OwnVerdict
    BY <1>0, <2>1, LineLooks DEF OwnVerdict, Kind
  <2>4. CASE reason # "no" /\ Claude!Demote((open \ {"tasks"}) \cup IF reason = "pending" THEN {"tasks"} ELSE {})
    <3>1. /\ c_stask.kind \notin {"error", "settle"} /\ Claude!TasksWait # "no"
          /\ demoted' = c_stask.kind /\ phase' = "between" /\ UNCHANGED <<c_pc, c_result>>
          /\ window' = (open \ {"tasks"}) \cup IF reason = "pending" THEN {"tasks"} ELSE {}
      BY <2>4 DEF Claude!Demote
    <3>2. window' \subseteq window \cup {"tasks"}
      BY <3>1
    <3>3. Demotes
      BY <1>0, <2>1, <2>3, <3>1, <3>2 DEF Demotes, Kind
    <3>4. QED
      BY <2>1, <3>1, <3>3 DEF LoopMoves
  <2>5. CASE reason = "no" /\ Claude!SteersWait /\ Claude!Demote(open \cup {"steer"})
    <3>1. /\ c_stask.kind \in {"error", "settle"} \/ Claude!TasksWait = "no"
          /\ Claude!SteersWait /\ window' = (window \ {"resume"}) \cup {"steer"}
          /\ demoted' = c_stask.kind /\ phase' = "between" /\ UNCHANGED <<c_pc, c_result>>
      BY <2>5 DEF Claude!Demote
    <3>2. Demotes
      BY <1>0, <2>1, <2>3, <3>1 DEF Demotes, Kind
    <3>3. QED
      BY <2>1, <3>1, <3>2 DEF LoopMoves
  <2>6. CASE reason = "no" /\ ~Claude!SteersWait /\ Claude!Finish(ends)
    <3>1. c_pc' = "done" /\ c_result' = {ends}
      BY <2>6 DEF Claude!Finish
    <3>2. ends.subtype = "success" => c_stask.kind \notin {"error", "settle"}
      OBVIOUS
    <3>3. ASSUME ends.subtype = "success" PROVE Succeeds(ends)
      <4>1. c_stask.kind \notin {"error", "settle"} /\ Claude!TasksWait = "no"
        BY <2>6, <3>2, <3>3
      <4> HIDE DEF ends
      <4>2. QED
        BY <1>0, <2>1, <2>3, <2>6, <3>3, <4>1 DEF Succeeds, Kind
    <3> HIDE DEF ends
    <3>4. QED
      BY <2>1, <3>1, <3>3
  <2>7. QED
    BY <2>2, <2>4, <2>5, <2>6
<1>11. CASE Claude!InterruptTimeout
  <2>1. /\ c_pc = "loop" /\ c_waiting' = {} /\ UNCHANGED <<c_wire, c_stask, tasks, resume, demoted, c_taken, gaveUp>>
    BY <1>11 DEF Claude!InterruptTimeout, Claude!TimesOut
  <2>2. PICK msg \in c_waiting :
          \/ c_pc' = "done" /\ c_result' = {[subtype |-> "interrupted",
                                             from |-> IF demoted = "none" THEN "made up" ELSE demoted, own |-> TRUE]}
          \/ UNCHANGED window /\ Claude!Deliver(msg) /\ UNCHANGED <<c_pc, c_result>>
    BY <1>11 DEF Claude!InterruptTimeout, Claude!Finish
  <2>3. CASE c_pc' = "done" /\ c_result' = {[subtype |-> "interrupted",
                                             from |-> IF demoted = "none" THEN "made up" ELSE demoted, own |-> TRUE]}
    <3> DEFINE verdict(from) == [subtype |-> "interrupted", from |-> from, own |-> TRUE]
    <3>1. \E from : c_result' = {verdict(from)}
      BY <2>3
    <3>2. \A from : verdict(from).subtype = "interrupted"
      OBVIOUS
    <3> HIDE DEF verdict
    <3>3. \A r \in c_result' : r.subtype # "success"
      BY <3>1, <3>2
    <3>4. QED
      BY <2>1, <2>3, <3>3
  <2>4. CASE UNCHANGED window /\ Claude!Deliver(msg) /\ UNCHANGED <<c_pc, c_result>>
    BY <1>4, <2>1, <2>4
  <2>5. QED
    BY <2>2, <2>3, <2>4
<1>12. Claude!OfDemoted.subtype = "success" => demoted \in {"result", "empty"}
  <2>1. Claude!OfDemoted.subtype = IF demoted \in {"result", "empty"} THEN "success" ELSE "error"
    BY DEF Claude!OfDemoted
  <2>2. QED
    BY <2>1
<1>13. ASSUME c_stask = NoNote, c_wire = <<>> PROVE Last = 0 /\ Kind(0) = "pending"
  BY <1>0, <1>13, LineTypes DEF Kind, NoNote
<1>14. CASE Claude!SteerTimeout
  <2>1. /\ c_pc = "loop" /\ c_stask = NoNote /\ Claude!Why = "steer" /\ c_wire = <<>>
        /\ (mode \in {"idle", "gone"} => queued \subseteq unsure)
        /\ c_pc' = "done" /\ c_result' = {Claude!OfDemoted}
        /\ UNCHANGED <<work, c_surfaced, c_taken, unsure, gaveUp>>
    BY <1>0, <1>14 DEF Claude!SteerTimeout, Claude!TimesOut, Claude!Quiet, Claude!Finish
  <2>2. c_waiting = {} /\ "steer" \in window
    BY <2>1 DEF Claude!Why
  <2>3. Claude!OfDemoted.subtype = "success" => Succeeds(Claude!OfDemoted)
    BY ONLY <1>12, <1>13, <2>1, <2>2 DEF Succeeds, work
  <2>4. QED
    BY <2>1, <2>3
<1>15. CASE Claude!TaskTimeout
  <2>1. /\ c_pc = "loop" /\ c_stask = NoNote /\ Claude!Why = "tasks" /\ c_wire = <<>>
        /\ (mode \in {"idle", "gone"} => queued \subseteq unsure)
        /\ c_pc' = "done" /\ c_result' = {Claude!OfDemoted} /\ gaveUp'
        /\ UNCHANGED <<work, c_surfaced, c_taken, unsure>>
    BY <1>0, <1>15 DEF Claude!TaskTimeout, Claude!TimesOut, Claude!Quiet, Claude!Finish
  <2>2. c_waiting = {} /\ phase # "active"
    BY <2>1 DEF Claude!Why
  <2>3. Claude!OfDemoted.subtype = "success" => Succeeds(Claude!OfDemoted)
    BY ONLY <1>12, <1>13, <2>1, <2>2 DEF Succeeds, work
  <2>4. QED
    BY <2>1, <2>3
<1>16. [subtype |-> "unanswered", from |-> "made up", own |-> TRUE].subtype # "success"
  OBVIOUS
<1>17. CASE Claude!ResumeTimeout
  <2>1. c_pc = "loop" /\ c_pc' = "done" /\ c_result' = {[subtype |-> "unanswered", from |-> "made up", own |-> TRUE]}
    BY <1>17 DEF Claude!ResumeTimeout, Claude!TimesOut, Claude!Finish
  <2>2. QED
    BY <1>16, <2>1
<1>18. CASE Claude!TakeGone
  <2>1. c_pc = "loop" /\ c_stask.kind \in Ends /\ UNCHANGED <<work, c_surfaced, c_taken, unsure>>
    BY <1>18 DEF Claude!TakeGone, Claude!TakesNote, Ends
  <2>2. \/ c_pc' \in {"raised", "bare"} /\ UNCHANGED c_result
        \/ c_pc' = "done" /\ c_result' = {Claude!OfDemoted}
        \/ c_pc' = "done" /\ c_result' = {[subtype |-> "unanswered", from |-> "made up", own |-> TRUE]}
    BY <1>18 DEF Claude!TakeGone, Claude!Finish
  <2>3. Claude!OfDemoted.subtype = "success" => Succeeds(Claude!OfDemoted)
    BY ONLY <1>0, <1>12, <2>1 DEF Succeeds, work, Kind
  <2>4. QED
    BY <1>0, <1>16, <2>1, <2>2, <2>3
<1>19. QED
  BY <1>1, <1>2, <1>3, <1>5, <1>6, <1>7, <1>8, <1>9, <1>10, <1>11, <1>14, <1>15, <1>17, <1>18 DEF Claude!Harness

-----------------------------------------------------------------------------
(* What holds while the turn goes on.                                      *)

WorkTypes ==
    /\ mode \in {"idle", "call", "spoke", "gone"} /\ phase \in {"active", "between"}
    /\ tasks \in TaskTracks /\ steers \in SteerTracks /\ resume \in ResumeState
    /\ live \subseteq Jobs /\ window \subseteq {"tasks", "steer", "resume"}
    /\ demoted \in {"none"} \cup Verdicts
    /\ \A i \in 0..Last : Kind(i) = "started" => Line[i].task \in Jobs

\* The operator is held to the messages of the part.
SentIsBounded ==
    /\ part = "claude" => c_sent <= ClaudeMsgs
    /\ part = "talked" => c_sent <= TalkedMsgs

\* What was given to the CLI is in its queue, or was in a call of its.
WorkIsKnown ==
    /\ queued \cup heard \subseteq {0} \cup Given \cup Jobs /\ queued \cap heard = {}
    /\ {0} \cup Given \subseteq queued \cup heard
    /\ live \cap (queued \cup heard) = {} /\ unsure \subseteq Given
    /\ cutting => mode \in {"call", "spoke"}

\* A task whose end the CLI tells of is in its queue, or was in a call of its,
\* unless it belongs to the conversation before.
EndsAreQueued == \A i \in 0..Last : Kind(i) = "ended" => Line[i].task \in {-1} \cup queued \cup heard

\* Until the prompt is in a call the CLI tells of chores only.
PromptIsFirst ==
    /\ 0 \in queued =>
         /\ mode \in {"idle", "gone"} /\ live = {} /\ queued \cap Jobs = {} /\ demoted \in {"none", "empty"}
         /\ \A i \in 0..Last : Kind(i) \in {"pending", "ended", "init", "empty"} \cup Ends
         /\ \A i \in 0..Last : Kind(i) = "ended" => Line[i].task = -1
    /\ chores => 0 \in queued /\ resume.opening /\ Last = 0 /\ Kind(0) = "pending"

\* The empty result of the chores reaches a loop that knows it for one.
ChoresAreTold ==
    \A i \in 0..Last : Kind(i) = "empty" =>
        /\ resume.opening
        /\ resume.orphan \/ \E j \in 0..Last : j < i /\ Ended(-1, j)
        /\ \A j \in 0..Last : j < i => Kind(j) \in {"pending", "ended", "init"}

\* Only an operator's interrupt takes the chores' result for an answer.
CutByHand == (c_waiting # {} \/ demoted = "empty") => ~Claude!Uncut

\* The CLI opens an invocation before each result of it, and a window is
\* closed as the invocation after it is opened.
AnswersAlternate ==
    /\ mode \in {"call", "spoke"} =>
         \/ /\ window = {} /\ phase = "active"
            /\ \A i \in 0..Last : Kind(i) \notin Verdicts
         \/ \E i \in 0..Last : /\ Kind(i) = "init"
                               /\ \A j \in 0..Last : j > i => Kind(j) \notin Verdicts
    /\ \A i, j \in 0..Last : i < j /\ Kind(i) \in Verdicts /\ Kind(j) \in Verdicts =>
         \E k \in 0..Last : i < k /\ k < j /\ Kind(k) = "init"
    /\ window # {} \/ phase = "between" =>
         \A i \in 0..Last : Kind(i) \in Verdicts => \E k \in 0..Last : k < i /\ Kind(k) = "init"
    /\ "steer" \in window => demoted # "empty"

\* Messages the CLI still has in its queue, but those it was given too late
\* for the tracker to tell.
Unheard == (Given \cap queued) \ unsure

\* The tracker has them, and no boundary that would stage them is on its way.
MessagesAreKept ==
    /\ Unheard \subseteq steers.undelivered \cup steers.staged
    /\ 0 \notin queued => Unheard \subseteq steers.undelivered
    /\ 0 \notin queued /\ (\E i \in 0..Last : Boundary(i)) => Unheard = {}

\* What the loop will know of a task as it looks at place i: that it runs, or
\* that it ended and no boundary proves that the model was told.
Clear(i)    == \A k \in 0..Last : k < i => ~Boundary(k)
Known(t, i) == t \in tasks.pending \/ \E j \in 0..Last : j < i /\ Started(t, j)
Runs(t, i)  == Known(t, i) /\ \A j \in 0..Last : j < i => ~Ended(t, j)
Untold(t, i) ==
    \/ t \in tasks.undelivered /\ Clear(i)
    \/ \E j \in 0..Last : /\ j < i /\ Ended(t, j) /\ Known(t, j)
                          /\ \A k \in 0..Last : j < k /\ k < i => ~Boundary(k)

\* The CLI has nothing to do and no task to wait for.
Rests == mode = "idle" /\ live = {} /\ queued \cap Jobs = {}

Opened(i) == \E k \in 0..Last : k > i /\ Kind(k) = "init"

\* A task that runs or is to be reported is, or will be, known; and when the
\* loop looks at a result it has a task or a message to wait for, unless the
\* CLI has nothing left to do.
TasksAreKept ==
    /\ \A t \in live : Runs(t, Last + 1)
    /\ \A t \in queued \cap Jobs : Untold(t, Last + 1)
    /\ \A t \in Jobs : \A i, j \in 0..Last : Ended(t, i) /\ Ended(t, j) => i = j
    /\ \A i \in 0..Last : Kind(i) = "result" =>
         \/ \E t \in Jobs : Runs(t, i) \/ Untold(t, i)
         \/ Rests /\ queued = {}
         \/ steers.undelivered # {} /\ Clear(i) /\ (Rests \/ Opened(i))
    /\ "steer" \in window /\ demoted = "result" => Rests \/ \E i \in 0..Last : Kind(i) = "init"

Going ==
    /\ WorkTypes /\ WorkIsKnown /\ EndsAreQueued /\ PromptIsFirst /\ ChoresAreTold /\ CutByHand
    /\ AnswersAlternate /\ MessagesAreKept
    /\ mode # "gone" /\ unsure = {} => TasksAreKept

LEMMA GivenGrows ==
    ASSUME ClaudeInv
    PROVE  /\ UNCHANGED c_surfaced => Given' = Given
           /\ \A id \in Nat : c_surfaced' = Append(c_surfaced, id) => Given' = Given \cup {id}
<1>1. UNCHANGED c_surfaced => Given' = Given
  BY DEF Given
<1>2. c_surfaced \in Seq(Nat)
  BY DEF ClaudeInv, Placed
<1>3. ASSUME NEW id \in Nat, c_surfaced' = Append(c_surfaced, id) PROVE Given' = Given \cup {id}
  <2>1. /\ c_surfaced' \in Seq(Nat) /\ Len(c_surfaced') = Len(c_surfaced) + 1 /\ c_surfaced'[Len(c_surfaced) + 1] = id
        /\ \A i \in 1..Len(c_surfaced) : c_surfaced'[i] = c_surfaced[i]
        /\ Len(c_surfaced) \in Nat
    BY <1>2, <1>3, AppendProperties
  <2>2. DOMAIN c_surfaced' = 1..Len(c_surfaced) + 1 /\ DOMAIN c_surfaced = 1..Len(c_surfaced)
    BY ONLY <1>2, <2>1
  <2>3. \A i : i \in 1..Len(c_surfaced) + 1 <=> i \in 1..Len(c_surfaced) \/ i = Len(c_surfaced) + 1
    BY <2>1
  <2> DEFINE new == Given'
  <2>4. new = {c_surfaced'[i] : i \in DOMAIN c_surfaced'} /\ Given = {c_surfaced[i] : i \in DOMAIN c_surfaced}
    BY DEF Given
  <2> HIDE DEF new
  <2>5. new = Given \cup {id}
    BY ONLY <2>1, <2>2, <2>3, <2>4
  <2>6. QED
    BY <2>5 DEF new
<1>4. QED
  BY <1>1, <1>3

\* A message that the loop takes is new: neither the prompt, nor a task, nor
\* one that was given before.
LEMMA MessagesAreNew ==
    ASSUME ClaudeInv, SentIsBounded
    PROVE  /\ 0 \notin Jobs /\ 0 \notin Given /\ Given \cap Jobs = {} /\ Given \subseteq Nat
           /\ \A msg \in c_ctask \cup c_waiting : msg.id \in Nat /\ msg.id # 0 /\ msg.id \notin Given \cup Jobs
<1>1. Placed(c_inbox, c_sent, c_ctask, c_waiting, c_surfaced, {})
  BY DEF ClaudeInv
<1>2. c_sent \in Nat /\ c_surfaced \in Seq(Nat) /\ DOMAIN c_surfaced = 1..Len(c_surfaced)
  BY <1>1 DEF Placed
<1> DEFINE n == TakenOf(c_inbox, c_sent, c_ctask)
<1>3. n \in Nat /\ n <= c_sent /\ (c_ctask # {} => n + 1 <= c_sent)
  <2>1. Len(c_inbox) \in Nat /\ Len(c_inbox) <= c_sent /\ (c_ctask # {} => Len(c_inbox) < c_sent)
    BY <1>1, PlacedTypes DEF Placed
  <2>2. QED
    BY ONLY <1>2, <2>1 DEF TakenOf
<1>4. /\ \A msg \in c_ctask : msg.id = n + 1
      /\ \A msg \in c_waiting : msg.id \in 1..n
  BY <1>1, PlacedTypes
<1>5. \A i \in 1..Len(c_surfaced) : c_surfaced[i] \in 1..n
  BY <1>1 DEF Placed
<1>6. \A msg \in c_waiting : \A i \in 1..Len(c_surfaced) : c_surfaced[i] # msg.id
  BY <1>1 DEF Placed
<1> HIDE DEF n
<1>7. Given \subseteq 1..n
  BY <1>2, <1>5 DEF Given
<1>8. \A msg \in c_ctask \cup c_waiting : msg.id \in Nat /\ msg.id # 0 /\ msg.id \notin Given /\ msg.id \in 1..c_sent
  <2>1. ASSUME NEW msg \in c_ctask PROVE msg.id \in Nat /\ msg.id # 0 /\ msg.id \notin Given /\ msg.id \in 1..c_sent
    BY <1>2, <1>3, <1>4, <1>7, <2>1
  <2>2. ASSUME NEW msg \in c_waiting PROVE msg.id \in Nat /\ msg.id # 0 /\ msg.id \notin Given /\ msg.id \in 1..c_sent
    BY <1>2, <1>3, <1>4, <1>6, <2>2 DEF Given
  <2>3. QED
    BY <2>1, <2>2
<1>9. Jobs \cap (0..c_sent) = {}
  <2>1. ClaudeTasks \subseteq Nat \ (0..ClaudeMsgs) /\ ClaudeMsgs \in Nat
    BY HarnessAssumption DEF Claude!ClaudeTurnAssumption
  <2>2. QED
    BY <1>2, <2>1 DEF Jobs, SentIsBounded
<1>10. 0 \in 0..c_sent /\ 1..n \subseteq 0..c_sent /\ 1..c_sent \subseteq 0..c_sent /\ 0 \notin 1..n /\ 1..n \subseteq Nat
  BY <1>2, <1>3
<1>11. QED
  BY ONLY <1>7, <1>8, <1>9, <1>10

\* All the CLI's steps but its chores tell one thing.
LEMMA CliTells ==
    ASSUME CliMoves, ~Cleans
    PROVE  \E kind \in NoteKinds, t \in Jobs \cup {0} :
             Comes([kind |-> kind, task |-> t]) /\ (kind \in {"started", "ended"} => t \in Jobs)
<1> DEFINE Tells == \E kind \in NoteKinds, t \in Jobs \cup {0} :
             Comes([kind |-> kind, task |-> t]) /\ (kind \in {"started", "ended"} => t \in Jobs)
<1>1. {"init", "output", "tool", "result", "error", "settle", "end", "crash", "started", "ended"} \subseteq NoteKinds
  BY DEF NoteKinds, Ends
<1>2. ASSUME NEW kind \in {"init", "output", "tool", "result", "error", "settle", "end", "crash"},
             Comes([kind |-> kind, task |-> 0])
      PROVE  Tells
  BY <1>1, <1>2
<1>3. ASSUME NEW kind \in {"started", "ended"}, NEW t \in Jobs, Comes([kind |-> kind, task |-> t])
      PROVE  Tells
  BY <1>1, <1>3
<1> HIDE DEF Tells
<1>4. ASSUME Opens PROVE Tells
  BY <1>2, <1>4 DEF Opens
<1>5. ASSUME Continues PROVE Tells
  BY <1>2, <1>5 DEF Continues
<1>6. ASSUME Speaks PROVE Tells
  BY <1>2, <1>6 DEF Speaks
<1>7. ASSUME Concludes PROVE Tells
  BY <1>2, <1>7 DEF Concludes
<1>8. ASSUME IsCut PROVE Tells
  BY <1>2, <1>8 DEF IsCut
<1>9. ASSUME Dies PROVE Tells
  BY <1>2, <1>9 DEF Dies, Ends
<1>10. ASSUME NEW t \in Jobs, Starts(t) \/ EndsJob(t) PROVE Tells
  BY <1>3, <1>10 DEF Starts, EndsJob
<1>11. Tells
  BY <1>4, <1>5, <1>6, <1>7, <1>8, <1>9, <1>10 DEF CliMoves
<1>12. QED
  BY <1>11 DEF Tells

LEMMA WorkTypesStep ==
    ASSUME ClaudeInv, SentIsBounded, WorkTypes, UNCHANGED part, CliMoves \/ LoopMoves
    PROVE  WorkTypes'
<1>8. \A i \in 0..Last' : Line'[i].kind = "started" => Line'[i].task \in Jobs
  <2>0. Last \in Nat /\ \A i \in 0..Last : Line[i].kind = "started" => Line[i].task \in Jobs
    BY LineTypes DEF ClaudeInv, WorkTypes, Kind
  <2>1. CASE CliMoves
    <3>1. CASE Cleans
      <4>1. \A i \in 0..Last' : i \in 0..Last \/ i \in {Last + 1, Last + 2, Last + 3}
        BY <2>0, <3>1 DEF Cleans
      <4>2. QED
        BY <2>0, <3>1, <4>1 DEF Cleans
    <3>2. CASE ~Cleans
      <4>1. PICK kind \in NoteKinds, t \in Jobs \cup {0} :
              Comes([kind |-> kind, task |-> t]) /\ (kind \in {"started", "ended"} => t \in Jobs)
        BY <2>1, <3>2, CliTells
      <4>2. \A i \in 0..Last' : i \in 0..Last \/ i = Last + 1
        BY <2>0, <4>1 DEF Comes
      <4>3. Line'[Last + 1].kind = "started" => Line'[Last + 1].task \in Jobs
        BY <4>1 DEF Comes
      <4>4. QED
        BY <2>0, <4>1, <4>2, <4>3 DEF Comes
    <3>3. QED
      BY <3>1, <3>2
  <2>2. CASE UNCHANGED <<Last, Line>>
    BY <2>0, <2>2
  <2>3. CASE Shifts
    BY <2>0, <2>3 DEF Shifts
  <2>4. CASE Looks
    <3>1. \A i \in 0..Last' : i = 0 \/ i \in 1..Last
      BY <2>0, <2>4 DEF Looks
    <3>2. QED
      BY <2>0, <2>4, <3>1 DEF Looks, NoNote
  <2>5. LoopMoves => Looks \/ Shifts \/ UNCHANGED <<Last, Line>>
    BY DEF LoopMoves, Listens, Returns, Asks, Gives, Watches, Keeps, Demotes
  <2>6. QED
    BY <2>1, <2>2, <2>3, <2>4, <2>5
<1>9. \A i \in (0..Last)' : Kind(i)' = "started" => Line'[i].task \in Jobs'
  BY <1>8 DEF Kind, Jobs
<1> USE DEF WorkTypes, trackers, work
<1>0. /\ Jobs' = Jobs /\ Line[0] \in CliNotes /\ 0 \in 0..Last
      /\ \A msg \in c_ctask \cup c_waiting : msg.id \in Nat
      /\ TaskTracks' = TaskTracks /\ SteerTracks' = SteerTracks /\ ResumeState' = ResumeState /\ Verdicts' = Verdicts
  <2>1. Jobs' = Jobs
    BY DEF Jobs
  <2>2. QED
    BY <2>1, LineTypes, MessagesAreNew DEF ClaudeInv, TaskTracks, SteerTracks, ResumeState, Verdicts
<1>1. CASE CliMoves
  <2>1. UNCHANGED trackers
    BY <1>1 DEF CliMoves
  <2>2. mode' \in {"idle", "call", "spoke", "gone"} /\ live' \subseteq Jobs
    BY <1>1 DEF CliMoves, Cleans, Opens, Continues, Speaks, Concludes, IsCut, Dies, Starts, EndsJob, CarriesAll
  <2>3. QED
    BY <1>0, <1>9, <2>1, <2>2
<1>2. CASE Listens \/ Returns \/ \E msg \in c_ctask : Asks(msg)
  BY <1>0, <1>9, <1>2 DEF Listens, Returns, Asks
<1>3. ASSUME NEW msg \in c_ctask \cup c_waiting, Gives(msg) PROVE WorkTypes'
  <2>1. /\ steers' = [steers EXCEPT !.undelivered = @ \cup {msg.id}] /\ phase' = "active" /\ window' \subseteq window
        /\ UNCHANGED <<mode, live, tasks, resume>> /\ (UNCHANGED demoted \/ demoted' \in Verdicts)
    BY <1>3 DEF Gives
  <2>2. steers' \in SteerTracks
    BY <1>0, <2>1 DEF SteerTracks
  <2>3. QED
    BY <1>0, <1>9, <2>1, <2>2
<1>4. CASE Watches
  <2>1. /\ UNCHANGED <<mode, live, demoted>> /\ tasks' = Claude!Tracked(Line[0]) /\ steers' = Claude!Steered(Line[0])
        /\ phase' = "active" \/ UNCHANGED phase
        /\ window' \subseteq window
    BY <1>4 DEF Watches
  <2>2. Kind(0) = "ended" /\ Line[0].task \in tasks.pending => Line[0].task \in Jobs
    BY DEF TaskTracks
  <2>3. steers' \in SteerTracks
    BY <2>1 DEF Claude!Steered, SteerTracks
  <2>4. resume' \in ResumeState
    BY <1>4 DEF Watches, ResumeState
  <2>5. CASE Kind(0) # "started"
    <3>1. tasks' \in TaskTracks
      BY <2>1, <2>2, <2>5 DEF Claude!Tracked, TaskTracks, Kind
    <3>2. QED
      BY <1>0, <1>9, <2>1, <2>3, <2>4, <3>1
  <2>6. CASE Kind(0) = "started"
    <3>1. tasks' = [tasks EXCEPT !.pending = @ \cup {Line[0].task}] /\ Line[0].task \in Jobs
      BY <1>0, <2>1, <2>6 DEF Claude!Tracked, Kind
    <3>2. tasks' \in TaskTracks
      BY <3>1 DEF TaskTracks
    <3>3. QED
      BY <1>0, <1>9, <2>1, <2>3, <2>4, <3>2
  <2>7. QED
    BY <2>5, <2>6
<1>5. CASE Keeps
  BY <1>0, <1>9, <1>5 DEF Keeps, ResumeState
<1>6. CASE Demotes
  BY <1>0, <1>9, <1>6 DEF Demotes, OwnVerdict, ResumeState
<1>7. QED
  BY <1>1, <1>2, <1>3, <1>4, <1>5, <1>6 DEF LoopMoves

LEMMA WorkIsKnownStep ==
    ASSUME ClaudeInv, SentIsBounded, WorkTypes, WorkIsKnown, UNCHANGED part, CliMoves \/ LoopMoves
    PROVE  WorkIsKnown'
<1> USE DEF WorkIsKnown, trackers, work, outcome
<1>0. /\ Jobs' = Jobs /\ 0 \notin Jobs /\ 0 \notin Given /\ Given \cap Jobs = {} /\ live \subseteq Jobs
      /\ \A msg \in c_ctask \cup c_waiting : msg.id \in Nat /\ msg.id # 0 /\ msg.id \notin Given \cup Jobs
  BY MessagesAreNew DEF Jobs, WorkTypes
<1>1. CASE CliMoves
  <2>1. Given' = Given /\ UNCHANGED unsure
    BY <1>1, GivenGrows DEF CliMoves
  <2>2. /\ queued' \cup heard' \subseteq {0} \cup Given \cup Jobs /\ queued' \cap heard' = {}
        /\ {0} \cup Given \subseteq queued' \cup heard' /\ live' \cap (queued' \cup heard') = {}
    <3>1. CASE Cleans \/ Speaks \/ Concludes \/ IsCut \/ Dies
      BY <3>1 DEF Cleans, Speaks, Concludes, IsCut, Dies
    <3>2. CASE Opens \/ Continues
      BY <3>2 DEF Opens, Continues, CarriesAll
    <3>3. CASE \E t \in Jobs : Starts(t)
      <4>1. PICK t \in Jobs : live' = live \cup {t} /\ UNCHANGED <<queued, heard>> /\ t \notin queued \cup heard
        BY <3>3 DEF Starts
      <4>2. QED
        BY <4>1
    <3>4. CASE \E t \in Jobs : EndsJob(t)
      <4>1. PICK t \in Jobs : live' = live \ {t} /\ queued' = queued \cup {t} /\ UNCHANGED heard /\ t \in live
        BY <3>4 DEF EndsJob
      <4>2. QED
        BY <4>1
    <3>5. QED
      BY <1>1, <3>1, <3>2, <3>3, <3>4 DEF CliMoves
  <2>3. cutting' => mode' \in {"call", "spoke"}
    BY <1>1 DEF CliMoves, Cleans, Opens, Continues, Speaks, Concludes, IsCut, Dies, Starts, EndsJob, CarriesAll
  <2>4. QED
    BY <1>0, <2>1, <2>2, <2>3
<1>2. ASSUME UNCHANGED <<c_surfaced, mode, queued, heard, live, unsure>>, cutting' => mode \in {"call", "spoke"}
      PROVE  WorkIsKnown'
  BY <1>0, <1>2, GivenGrows
<1>3. CASE Listens \/ Returns \/ Watches \/ Keeps \/ Demotes
  BY <1>2, <1>3 DEF Listens, Returns, Watches, Keeps, Demotes
<1>4. ASSUME NEW msg \in c_ctask, Asks(msg) PROVE WorkIsKnown'
  <2>1. UNCHANGED <<c_surfaced, mode, queued, heard, live, unsure>>
    BY <1>4 DEF Asks
  <2>2. UNCHANGED cutting \/ cutting' = (cutting \/ mode \in {"call", "spoke"})
    BY <1>4 DEF Asks
  <2>3. cutting' => mode \in {"call", "spoke"}
    BY ONLY <2>2, WorkIsKnown, Zenon DEF WorkIsKnown
  <2>4. QED
    BY <1>2, <2>1, <2>3
<1>5. ASSUME NEW msg \in c_ctask \cup c_waiting, Gives(msg) PROVE WorkIsKnown'
  <2>1. /\ queued' = queued \cup {msg.id} /\ (unsure' = unsure \/ unsure' = unsure \cup {msg.id})
        /\ UNCHANGED <<mode, cutting, heard, live>> /\ c_surfaced' = Append(c_surfaced, msg.id)
    BY <1>5 DEF Gives
  <2>2. Given' = Given \cup {msg.id}
    BY <1>0, <2>1, GivenGrows
  <2>3. QED
    BY <1>0, <2>1, <2>2
<1>6. QED
  BY <1>1, <1>3, <1>4, <1>5 DEF LoopMoves

\* What is true of each message on the line stays true as the line moves.
LEMMA LineStays ==
    ASSUME ClaudeTypes, NEW S, \A i \in 0..Last : Line[i] \in S, NoNote \in S,
           \/ Looks \/ Shifts \/ UNCHANGED <<Last, Line>> \/ \E note \in S : Comes(note)
    PROVE  \A i \in 0..Last' : Line'[i] \in S
<1>0. Last \in Nat
  BY LineTypes
<1>1. CASE Looks
  <2>1. \A i \in 0..Last' : i = 0 \/ i \in 1..Last
    BY <1>0, <1>1 DEF Looks
  <2>2. \A i \in 1..Last : i \in 0..Last
    BY <1>0
  <2>3. QED
    BY ONLY \A i \in 0..Last : Line[i] \in S, NoNote \in S, <1>1, <2>1, <2>2 DEF Looks
<1>2. CASE Shifts
  <2>1. \A i \in 1..Last : i \in 0..Last
    BY <1>0
  <2>2. QED
    BY ONLY \A i \in 0..Last : Line[i] \in S, <1>2, <2>1 DEF Shifts
<1>3. CASE UNCHANGED <<Last, Line>>
  BY <1>3
<1>4. CASE \E note \in S : Comes(note)
  <2>1. PICK note \in S : Comes(note)
    BY <1>4
  <2>2. \A i \in 0..Last' : i \in 0..Last \/ i = Last + 1
    BY <1>0, <2>1 DEF Comes
  <2>3. QED
    BY ONLY \A i \in 0..Last : Line[i] \in S, <2>1, <2>2 DEF Comes
<1>5. QED
  BY <1>1, <1>2, <1>3, <1>4

LEMMA LoopLines ==
    ASSUME LoopMoves
    PROVE  /\ Looks \/ Shifts \/ UNCHANGED <<Last, Line>>
           /\ UNCHANGED <<mode, heard, live, chores>>
           /\ UNCHANGED queued \/ \E msg \in c_ctask \cup c_waiting : queued' = queued \cup {msg.id}
  BY DEF LoopMoves, Listens, Returns, Asks, Gives, Watches, Keeps, Demotes, work, outcome, trackers

LEMMA PromptIsFirstStep ==
    ASSUME ClaudeInv, SentIsBounded, WorkTypes, WorkIsKnown, PromptIsFirst, UNCHANGED part, CliMoves \/ LoopMoves
    PROVE  PromptIsFirst'
<1> DEFINE S == {n \in CliNotes : /\ n.kind \in {"pending", "ended", "init", "empty"} \cup Ends
                                  /\ n.kind = "ended" => n.task = -1}
           Early == /\ mode \in {"idle", "gone"} /\ live = {} /\ queued \cap Jobs = {} /\ demoted \in {"none", "empty"}
                    /\ \A i \in 0..Last : Line[i] \in S
<1>0. /\ Jobs' = Jobs /\ 0 \notin Jobs /\ live \subseteq Jobs /\ ClaudeTypes
      /\ \A msg \in c_ctask \cup c_waiting : msg.id # 0 /\ msg.id \notin Jobs
      /\ Last \in Nat /\ 0 \in 0..Last /\ \A i \in 0..Last : Line[i] \in CliNotes
  BY MessagesAreNew, LineTypes DEF Jobs, WorkTypes, ClaudeInv
<1>1. /\ 0 \in queued => Early
      /\ chores => 0 \in queued /\ resume.opening /\ Last = 0 /\ Kind(0) = "pending"
  BY <1>0 DEF PromptIsFirst, Kind
<1>2. NoNote \in S
  BY DEF NoNote, CliNotes, NoteKinds
<1>3. ASSUME (0 \in queued)' => Early',
             chores' => (0 \in queued)' /\ resume'.opening /\ Last' = 0 /\ Line'[0].kind = "pending"
      PROVE  PromptIsFirst'
  BY <1>3 DEF PromptIsFirst, Kind
<1> HIDE DEF S
<1>4. ASSUME 0 \notin queued', ~chores' PROVE PromptIsFirst'
  BY <1>3, <1>4
<1>5. 0 \in queued' => 0 \in queued
  <2>1. CASE LoopMoves
    BY <1>0, <2>1, LoopLines
  <2>2. CASE CliMoves
    <3>1. \A t \in Jobs : EndsJob(t) => queued' = queued \cup {t}
      BY DEF EndsJob
    <3>2. QED
      BY <1>0, <2>2, <3>1 DEF CliMoves, Cleans, Opens, Continues, Speaks, Concludes, IsCut, Dies, Starts, CarriesAll
  <2>3. QED
    BY <2>1, <2>2
<1>6. CASE Cleans /\ CliMoves
  <2>1. /\ 0 \in queued /\ ~chores' /\ UNCHANGED <<mode, queued, live, demoted>> /\ Last' = Last + 3
        /\ (\A i \in 0..Last : Line'[i] = Line[i])
        /\ Line'[Last + 1] = [kind |-> "ended", task |-> -1]
        /\ Line'[Last + 2] = [kind |-> "init", task |-> 0]
        /\ Line'[Last + 3] = [kind |-> "empty", task |-> 0]
    BY <1>1, <1>6 DEF Cleans, CliMoves, trackers
  <2>2. \A i \in 0..Last' : i \in 0..Last \/ i \in {Last + 1, Last + 2, Last + 3}
    BY <1>0, <2>1
  <2>3. Line'[Last + 1] \in S /\ Line'[Last + 2] \in S /\ Line'[Last + 3] \in S
    BY <2>1 DEF S, CliNotes, NoteKinds
  <2>4. \A i \in 0..Last' : Line'[i] \in S
    BY <1>1, <2>1, <2>2, <2>3
  <2>5. QED
    BY <1>0, <1>1, <1>3, <2>1, <2>4
<1>7. CASE Opens
  BY <1>4, <1>7 DEF Opens, CarriesAll
<1>8. CASE Continues \/ Speaks \/ Concludes \/ IsCut \/ \E t \in Jobs : Starts(t) \/ EndsJob(t)
  <2>1. (mode \in {"call", "spoke"} \/ live # {}) /\ UNCHANGED chores
    BY <1>8 DEF Continues, Speaks, Concludes, IsCut, Starts, EndsJob, CarriesAll, WorkIsKnown
  <2>2. 0 \notin queued
    BY <1>1, <2>1
  <2>3. QED
    BY <1>1, <1>4, <1>5, <2>1, <2>2
<1>9. CASE Dies /\ CliMoves
  <2>1. PICK kind \in Ends : Comes([kind |-> kind, task |-> 0])
    BY <1>9 DEF Dies
  <2>2. [kind |-> kind, task |-> 0] \in S
    BY DEF S, CliNotes, NoteKinds, Ends
  <2>3. 0 \in queued => \A i \in 0..Last' : Line'[i] \in S
    BY <1>0, <1>1, <1>2, <2>1, <2>2, LineStays
  <2>4. mode' = "gone" /\ live' = {} /\ ~chores' /\ UNCHANGED <<queued, demoted>>
    BY <1>9 DEF Dies, CliMoves, trackers
  <2>5. QED
    BY <1>0, <1>1, <1>3, <2>3, <2>4
<1>10. CASE LoopMoves
  <2>1. 0 \in queued => \A i \in 0..Last' : Line'[i] \in S
    BY <1>0, <1>1, <1>2, <1>10, LineStays, LoopLines
  <2>2. queued' \cap Jobs = queued \cap Jobs
    BY <1>0, <1>10, LoopLines
  <2>3. 0 \in queued => demoted' \in {"none", "empty"}
    <3>1. \/ UNCHANGED demoted
          \/ Kind(0) \in Verdicts /\ demoted' = Kind(0)
      BY <1>10 DEF LoopMoves, Listens, Returns, Asks, Gives, Watches, Keeps, Demotes, OwnVerdict, trackers
    <3>2. 0 \in queued /\ Kind(0) \in Verdicts => Kind(0) = "empty"
      BY <1>0 DEF PromptIsFirst, Verdicts, Ends
    <3>3. QED
      BY <1>1, <3>1, <3>2
  <2>4. chores => UNCHANGED <<Last, Line>> /\ UNCHANGED resume /\ (0 \in queued')
    <3>1. chores => ~(Watches \/ Keeps \/ Demotes \/ Returns) /\ Kind(0) \notin Verdicts /\ 0 \in queued'
      BY <1>1, <1>10, LoopLines DEF Watches, Keeps, Demotes, OwnVerdict, Returns, Shifts, Verdicts
    <3>2. QED
      BY <1>10, <3>1 DEF LoopMoves, Listens, Asks, Gives, trackers, outcome
  <2>5. UNCHANGED <<mode, live, chores>>
    BY <1>10, LoopLines
  <2>6. chores /\ chores' => (0 \in queued)' /\ resume'.opening /\ Last' = 0 /\ Line'[0].kind = "pending"
    BY <1>1, <2>4 DEF Kind
  <2>7. QED
    BY <1>0, <1>1, <1>3, <1>5, <2>1, <2>2, <2>3, <2>5, <2>6
<1>11. QED
  BY <1>6, <1>7, <1>8, <1>9, <1>10 DEF CliMoves

LEMMA ChoresAreToldStep ==
    ASSUME ClaudeInv, WorkTypes, PromptIsFirst, ChoresAreTold, UNCHANGED part, CliMoves \/ LoopMoves
    PROVE  ChoresAreTold'
<1> USE DEF trackers, outcome, work
<1>0. /\ ClaudeTypes /\ Last \in Nat /\ 0 \in 0..Last /\ -1 \notin tasks.pending /\ Line[0] \in CliNotes
      /\ \A i \in 0..Last : i = 0 \/ i \in 1..Last
      /\ resume \in ResumeState
  <2>1. -1 \notin Jobs
    BY ClaudeConstants DEF Jobs
  <2>2. QED
    BY <2>1, LineTypes DEF WorkTypes, TaskTracks, ClaudeInv
<1>1. ASSUME NEW i \in 0..Last, Line[i].kind = "empty"
      PROVE  /\ resume.opening
             /\ resume.orphan \/ \E j \in 0..Last : j < i /\ Ended(-1, j)
             /\ \A j \in 0..Last : j < i => Line[j].kind \in {"pending", "ended", "init"}
  BY <1>1 DEF ChoresAreTold, Kind
<1> DEFINE Told(i) == /\ resume'.opening
                      /\ resume'.orphan \/ \E j \in 0..Last' : j < i /\ Line'[j] = [kind |-> "ended", task |-> -1]
                      /\ \A j \in 0..Last' : j < i => Line'[j].kind \in {"pending", "ended", "init"}
<1>2. ASSUME \A i \in 0..Last' : Line'[i].kind = "empty" => Told(i) PROVE ChoresAreTold'
  BY <1>2 DEF ChoresAreTold, Kind, Ended
<1>3. CASE CliMoves /\ Cleans
  <2>1. /\ Last = 0 /\ Kind(0) = "pending" /\ resume.opening /\ Last' = 3 /\ UNCHANGED resume
        /\ Line'[0] = Line[0]
        /\ Line'[1] = [kind |-> "ended", task |-> -1]
        /\ Line'[2] = [kind |-> "init", task |-> 0]
        /\ Line'[3] = [kind |-> "empty", task |-> 0]
    BY <1>0, <1>3 DEF PromptIsFirst, CliMoves, Cleans
  <2>2. \A i \in 0..Last' : i \in {0, 1, 2, 3}
    BY <2>1
  <2>3. /\ Line'[0].kind = "pending" /\ Line'[1].kind = "ended" /\ Line'[2].kind = "init"
    BY <2>1 DEF Kind
  <2>4. Told(3)
    BY <2>1, <2>2, <2>3
  <2> HIDE DEF Told
  <2>5. \A i \in 0..Last' : Line'[i].kind = "empty" => i = 3
    BY ONLY <2>2, <2>3
  <2>6. QED
    BY <1>2, <2>4, <2>5
<1>4. CASE CliMoves /\ ~Cleans
  <2>1. PICK kind, t : Comes([kind |-> kind, task |-> t]) /\ kind # "empty"
    <3>1. \/ \E kind \in {"init", "tool", "output", "result", "error", "settle", "end", "crash"} : Comes([kind |-> kind, task |-> 0])
          \/ \E t : \E kind \in {"started", "ended"} : Comes([kind |-> kind, task |-> t])
      <4>1. \A t \in Jobs : Starts(t) \/ EndsJob(t) => \E kind \in {"started", "ended"} : Comes([kind |-> kind, task |-> t])
        BY DEF Starts, EndsJob
      <4>2. Opens \/ Continues \/ Speaks \/ Concludes \/ IsCut \/ Dies =>
              \E kind \in {"init", "tool", "output", "result", "error", "settle", "end", "crash"} : Comes([kind |-> kind, task |-> 0])
        BY DEF Opens, Continues, Speaks, Concludes, IsCut, Dies, Ends
      <4>3. QED
        BY <1>4, <4>1, <4>2 DEF CliMoves
    <3>2. QED
      BY <3>1
  <2>2. \A i \in 0..Last' : i \in 0..Last \/ i = Last + 1
    BY <1>0, <2>1 DEF Comes
  <2>3. UNCHANGED resume
    BY <1>4 DEF CliMoves
  <2>4. ASSUME NEW i \in 0..Last', Line'[i].kind = "empty" PROVE Told(i)
    <3>1. i \in 0..Last /\ Line[i].kind = "empty"
      BY <2>1, <2>2, <2>4 DEF Comes
    <3>2. \A j \in 0..Last' : j < i => j \in 0..Last /\ Line'[j] = Line[j]
      BY <1>0, <2>1, <2>2, <3>1 DEF Comes
    <3>3. \A j \in 0..Last : j \in 0..Last' /\ Line'[j] = Line[j]
      BY <1>0, <2>1 DEF Comes
    <3>4. QED
      BY <1>1, <2>3, <3>1, <3>2, <3>3 DEF Ended
  <2>5. QED
    BY <1>2, <2>4
<1>5. CASE UNCHANGED <<Last, Line, resume>>
  BY <1>5 DEF ChoresAreTold, Kind, Ended
<1>6. CASE Returns
  <2>1. Shifts /\ UNCHANGED resume
    BY <1>6 DEF Returns
  <2>2. ASSUME NEW i \in 0..Last', Line'[i].kind = "empty" PROVE Told(i)
    <3>1. i + 1 \in 0..Last /\ Line[i + 1].kind = "empty" /\ i \in Nat
      BY <1>0, <2>1, <2>2 DEF Shifts
    <3>2. \A j \in 0..Last' : j < i => j + 1 \in 0..Last /\ j + 1 < i + 1 /\ Line'[j] = Line[j + 1]
      BY <1>0, <2>1, <3>1 DEF Shifts
    <3>3. ASSUME NEW j \in 0..Last, j < i + 1, Line[j] = [kind |-> "ended", task |-> -1]
          PROVE  \E k \in 0..Last' : k < i /\ Line'[k] = [kind |-> "ended", task |-> -1]
      <4>1. j # 0
        BY <2>1, <3>3 DEF Shifts, NoNote
      <4>2. j - 1 \in 0..Last' /\ j - 1 < i /\ Line'[j - 1] = Line[j]
        BY <1>0, <2>1, <3>1, <3>3, <4>1 DEF Shifts
      <4>3. QED
        BY <3>3, <4>2
    <3>4. QED
      BY <1>1, <2>1, <3>1, <3>2, <3>3 DEF Ended
  <2>3. QED
    BY <1>2, <2>2
<1>7. CASE Looks /\ Kind(0) \in Verdicts
  <2>1. ASSUME NEW i \in 0..Last', Line'[i].kind = "empty" PROVE FALSE
    <3>1. i # 0 /\ i \in 1..Last /\ i \in 0..Last /\ Line[i].kind = "empty" /\ 0 < i
      BY <1>0, <1>7, <2>1 DEF Looks, NoNote
    <3>2. Line[0].kind \in {"pending", "ended", "init"}
      BY <1>0, <1>1, <3>1
    <3>3. QED
      BY <1>7, <3>2 DEF Kind, Verdicts
  <2>2. QED
    BY <1>2, <2>1
<1>8. CASE Watches
  <2>1. Looks
    BY <1>8 DEF Watches
  <2>2. ASSUME NEW i \in 0..Last', Line'[i].kind = "empty" PROVE Told(i)
    <3>1. i # 0 /\ i \in 1..Last /\ i \in 0..Last /\ Line[i].kind = "empty" /\ 0 < i /\ Last' = Last
      BY <1>0, <2>1, <2>2 DEF Looks, NoNote
    <3>2. /\ resume.opening /\ (resume.orphan \/ \E j \in 0..Last : j < i /\ Line[j] = [kind |-> "ended", task |-> -1])
          /\ \A j \in 0..Last : j < i => Line[j].kind \in {"pending", "ended", "init"}
      BY <1>1, <3>1 DEF Ended
    <3>3. Line[0].kind # "output"
      BY <1>0, <3>1, <3>2
    <3>4. /\ resume' = [resume EXCEPT !.orphan = @ \/ (/\ Line[0].kind = "ended" /\ resume.opening
                                                       /\ Line[0].task \notin tasks.pending)]
      BY <1>8, <3>3 DEF Watches, Kind
    <3>5. /\ resume'.opening /\ (resume.orphan => resume'.orphan)
          /\ Line[0] = [kind |-> "ended", task |-> -1] => resume'.orphan
      BY <1>0, <3>2, <3>4 DEF ResumeState
    <3>6. \A j \in 0..Last : j = 0 \/ Line'[j] = Line[j]
      BY <1>0, <2>1 DEF Looks
    <3>7. Line'[0].kind = "pending"
      BY <2>1 DEF Looks, NoNote
    <3>8. resume'.orphan \/ \E j \in 0..Last' : j < i /\ Line'[j] = [kind |-> "ended", task |-> -1]
      <4>1. CASE resume.orphan
        BY <3>5, <4>1
      <4>2. ASSUME NEW j \in 0..Last, j < i, Line[j] = [kind |-> "ended", task |-> -1]
            PROVE  resume'.orphan \/ \E k \in 0..Last' : k < i /\ Line'[k] = [kind |-> "ended", task |-> -1]
        BY <3>1, <3>5, <3>6, <4>2
      <4>3. QED
        BY <3>2, <4>1, <4>2
    <3>9. \A j \in 0..Last' : j < i => Line'[j].kind \in {"pending", "ended", "init"}
      BY <3>1, <3>2, <3>6, <3>7
    <3>10. QED
      BY <3>5, <3>8, <3>9
  <2>3. QED
    BY <1>2, <2>2
<1>9. LoopMoves => \/ UNCHANGED <<Last, Line, resume>> \/ Returns \/ Watches \/ (Looks /\ Kind(0) \in Verdicts)
  BY DEF LoopMoves, Listens, Asks, Gives, Keeps, Demotes, OwnVerdict, Verdicts
<1>10. QED
  BY <1>3, <1>4, <1>5, <1>6, <1>7, <1>8, <1>9

LEMMA UncutAppends ==
    ASSUME ClaudeInv, NEW msg, c_taken' = Append(c_taken, msg)
    PROVE  ~Claude!Uncut \/ msg.op # "steer" => ~Claude!Uncut'
<1>1. c_taken \in Seq(ControlMsgs) /\ DOMAIN c_taken = 1..Len(c_taken) /\ Len(c_taken) \in Nat
  BY DEF ClaudeInv, ClaudeTypes
<1>2. /\ DOMAIN c_taken' = 1..Len(c_taken) + 1 /\ c_taken'[Len(c_taken) + 1] = msg
      /\ \A i \in 1..Len(c_taken) : c_taken'[i] = c_taken[i]
  BY <1>1
<1>3. Len(c_taken) + 1 \in 1..Len(c_taken) + 1 /\ \A i \in 1..Len(c_taken) : i \in 1..Len(c_taken) + 1
  BY <1>1
<1>4. QED
  BY ONLY <1>1, <1>2, <1>3 DEF Claude!Uncut

LEMMA CutByHandStep ==
    ASSUME ClaudeInv, WorkTypes, ChoresAreTold, CutByHand, UNCHANGED part, CliMoves \/ LoopMoves
    PROVE  CutByHand'
<1> USE DEF trackers, outcome, work
<1>0. /\ Last \in Nat /\ 0 \in 0..Last /\ \A m, n \in c_waiting : m = n
  BY LineTypes DEF ClaudeInv, Placed
<1>1. CASE UNCHANGED <<c_taken, c_waiting, demoted>>
  BY <1>1 DEF CutByHand, Claude!Uncut
<1>2. ASSUME NEW msg, Asks(msg) PROVE CutByHand'
  <2>1. ~Claude!Uncut'
    BY <1>2, UncutAppends DEF Asks
  <2>2. QED
    BY <2>1 DEF CutByHand
<1>3. ASSUME NEW msg \in c_ctask \cup c_waiting, Gives(msg) PROVE CutByHand'
  <2>1. CASE c_taken' = Append(c_taken, msg) /\ UNCHANGED <<c_waiting, demoted>>
    BY <2>1, UncutAppends DEF CutByHand
  <2>2. CASE msg \in c_waiting /\ UNCHANGED c_taken
    <3>1. ~Claude!Uncut
      BY <2>2 DEF CutByHand
    <3>2. ~Claude!Uncut'
      BY <2>2, <3>1 DEF Claude!Uncut
    <3>3. QED
      BY <3>2 DEF CutByHand
  <2>3. QED
    BY <1>3, <2>1, <2>2 DEF Gives
<1>4. CASE Demotes
  <2>1. Kind(0) # "empty"
    BY <1>0, <1>4 DEF Demotes, OwnVerdict, ChoresAreTold
  <2>2. demoted' # "empty" /\ c_waiting' = {}
    BY <1>4, <2>1 DEF Demotes, OwnVerdict
  <2>3. QED
    BY <2>2 DEF CutByHand
<1>5. LoopMoves =>
        \/ UNCHANGED <<c_taken, c_waiting, demoted>>
        \/ (\E msg \in c_ctask : Asks(msg)) \/ (\E msg \in c_ctask \cup c_waiting : Gives(msg))
        \/ Demotes
  BY DEF LoopMoves, Listens, Returns, Watches, Keeps
<1>6. CliMoves => UNCHANGED <<c_taken, c_waiting, demoted>>
  BY DEF CliMoves
<1>7. QED
  BY <1>1, <1>2, <1>3, <1>4, <1>5, <1>6

\* AnswersAlternate, of a line and of what the loop and the CLI are at.
Fresh(l, n, w, p)  == w = {} /\ p = "active" /\ \A i \in 0..n : l[i].kind \notin Verdicts
OpenedLast(l, n)   == \E i \in 0..n : l[i].kind = "init" /\ \A j \in 0..n : j > i => l[j].kind \notin Verdicts
Alternates(l, n)   ==
    \A i, j \in 0..n : i < j /\ l[i].kind \in Verdicts /\ l[j].kind \in Verdicts =>
        \E k \in 0..n : i < k /\ k < j /\ l[k].kind = "init"
OpensFirst(l, n)   == \A i \in 0..n : l[i].kind \in Verdicts => \E k \in 0..n : k < i /\ l[k].kind = "init"

LEMMA AlternateParts ==
    /\ AnswersAlternate <=>
         /\ mode \in {"call", "spoke"} => Fresh(Line, Last, window, phase) \/ OpenedLast(Line, Last)
         /\ Alternates(Line, Last)
         /\ window # {} \/ phase = "between" => OpensFirst(Line, Last)
         /\ "steer" \in window => demoted # "empty"
    /\ AnswersAlternate' <=>
         /\ mode' \in {"call", "spoke"} => Fresh(Line', Last', window', phase') \/ OpenedLast(Line', Last')
         /\ Alternates(Line', Last')
         /\ window' # {} \/ phase' = "between" => OpensFirst(Line', Last')
         /\ "steer" \in window' => demoted' # "empty"
  BY DEF AnswersAlternate, Fresh, OpenedLast, Alternates, OpensFirst, Kind, Verdicts

\* One more message, if it is a verdict one of an invocation.
LEMMA AlternateGrows ==
    ASSUME Last \in Nat, NEW note, Comes(note), Alternates(Line, Last)
    PROVE  /\ note.kind \notin Verdicts => Alternates(Line', Last')
           /\ note.kind \notin Verdicts /\ OpensFirst(Line, Last) => OpensFirst(Line', Last')
           /\ note.kind \notin Verdicts /\ OpenedLast(Line, Last) => OpenedLast(Line', Last')
           /\ note.kind \notin Verdicts /\ Fresh(Line, Last, window, phase) => Fresh(Line', Last', window, phase)
           /\ note.kind = "init" => OpenedLast(Line', Last')
           /\ Fresh(Line, Last, window, phase) => Alternates(Line', Last')
           /\ OpenedLast(Line, Last) => Alternates(Line', Last')
           /\ OpenedLast(Line, Last) /\ OpensFirst(Line, Last) => OpensFirst(Line', Last')
<1>1. /\ Last' = Last + 1 /\ Line'[Last + 1] = note /\ Last + 1 \in 0..Last + 1
      /\ \A i \in 0..Last : Line'[i] = Line[i] /\ i \in 0..Last + 1 /\ i < Last + 1 /\ ~(i > Last + 1)
      /\ \A i \in 0..Last + 1 : i \in 0..Last \/ i = Last + 1
      /\ ~(Last + 1 < Last + 1) /\ ~(Last + 1 > Last + 1) /\ \A i \in 0..Last : ~(Last + 1 < i) /\ Last + 1 > i
  BY DEF Comes
<1>2. ASSUME note.kind \notin Verdicts PROVE Alternates(Line', Last')
  <2>1. ASSUME NEW i \in 0..Last + 1, NEW j \in 0..Last + 1, i < j, Line'[i].kind \in Verdicts, Line'[j].kind \in Verdicts
        PROVE  \E k \in 0..Last + 1 : i < k /\ k < j /\ Line'[k].kind = "init"
    <3>1. i \in 0..Last /\ j \in 0..Last /\ Line[i].kind \in Verdicts /\ Line[j].kind \in Verdicts
      BY ONLY <1>1, <1>2, <2>1
    <3>2. QED
      BY ONLY <1>1, <2>1, <3>1, Alternates(Line, Last) DEF Alternates
  <2>2. QED
    BY ONLY <1>1, <2>1 DEF Alternates
<1>3. ASSUME note.kind \notin Verdicts, OpensFirst(Line, Last) PROVE OpensFirst(Line', Last')
  BY ONLY <1>1, <1>3 DEF OpensFirst
<1>4. ASSUME note.kind \notin Verdicts, OpenedLast(Line, Last) PROVE OpenedLast(Line', Last')
  <2>1. PICK i \in 0..Last : Line[i].kind = "init" /\ \A j \in 0..Last : j > i => Line[j].kind \notin Verdicts
    BY <1>4 DEF OpenedLast
  <2>2. i \in 0..Last' /\ Line'[i].kind = "init" /\ \A j \in 0..Last' : j > i => Line'[j].kind \notin Verdicts
    BY ONLY <1>1, <1>4, <2>1
  <2>3. QED
    BY <2>2 DEF OpenedLast
<1>5. ASSUME note.kind \notin Verdicts, Fresh(Line, Last, window, phase) PROVE Fresh(Line', Last', window, phase)
  BY ONLY <1>1, <1>5 DEF Fresh
<1>6. ASSUME note.kind = "init" PROVE OpenedLast(Line', Last')
  <2>1. Line'[Last + 1].kind = "init" /\ \A j \in 0..Last' : ~(j > Last + 1)
    BY ONLY <1>1, <1>6
  <2>2. QED
    BY ONLY <1>1, <2>1 DEF OpenedLast
<1>7. ASSUME Fresh(Line, Last, window, phase) PROVE Alternates(Line', Last')
  BY ONLY <1>1, <1>7 DEF Fresh, Alternates
<1>8. ASSUME OpenedLast(Line, Last) PROVE Alternates(Line', Last')
  <2>1. PICK m \in 0..Last : Line[m].kind = "init" /\ \A j \in 0..Last : j > m => Line[j].kind \notin Verdicts
    BY <1>8 DEF OpenedLast
  <2>2. ASSUME NEW i \in 0..Last + 1, NEW j \in 0..Last + 1, i < j, Line'[i].kind \in Verdicts, Line'[j].kind \in Verdicts
        PROVE  \E k \in 0..Last + 1 : i < k /\ k < j /\ Line'[k].kind = "init"
    <3>1. i \in 0..Last /\ Line[i].kind \in Verdicts
      BY ONLY <1>1, <2>2
    <3>2. CASE j \in 0..Last
      <4>1. Line[j].kind \in Verdicts
        BY ONLY <1>1, <2>2, <3>2
      <4>2. QED
        BY ONLY <1>1, <2>2, <3>1, <3>2, <4>1, Alternates(Line, Last) DEF Alternates
    <3>3. CASE j = Last + 1
      <4>1. i # m /\ ~(i > m)
        BY ONLY <2>1, <3>1 DEF Verdicts
      <4>2. i < m
        BY <3>1, <4>1
      <4>3. QED
        BY ONLY <1>1, <2>1, <3>3, <4>2
    <3>4. QED
      BY ONLY <1>1, <2>2, <3>2, <3>3
  <2>3. QED
    BY ONLY <1>1, <2>2 DEF Alternates
<1>9. ASSUME OpenedLast(Line, Last), OpensFirst(Line, Last) PROVE OpensFirst(Line', Last')
  BY ONLY <1>1, <1>9 DEF OpenedLast, OpensFirst
<1>10. QED
  BY <1>2, <1>3, <1>4, <1>5, <1>6, <1>7, <1>8, <1>9

LEMMA AlternateShifts ==
    ASSUME Last \in Nat, Shifts, Alternates(Line, Last)
    PROVE  /\ Alternates(Line', Last')
           /\ OpensFirst(Line, Last) => OpensFirst(Line', Last')
           /\ OpenedLast(Line, Last) => OpenedLast(Line', Last')
           /\ Fresh(Line, Last, window, phase) => Fresh(Line', Last', window, phase)
<1>1. /\ \A i \in 0..Last' : i + 1 \in 0..Last /\ Line'[i] = Line[i + 1]
      /\ \A i \in 0..Last : i = 0 \/ (i - 1 \in 0..Last' /\ Line'[i - 1] = Line[i])
      /\ \A i, j \in 0..Last' : i < j <=> i + 1 < j + 1
      /\ \A i \in 0..Last : \A j \in 0..Last' : (i < j + 1 <=> i - 1 < j) /\ (j + 1 < i <=> j < i - 1)
      /\ \A i, j \in 0..Last' : i > j <=> i + 1 > j + 1
      /\ \A i \in 0..Last : \A j \in 0..Last' : j + 1 > i <=> j > i - 1
      /\ Line[0].kind \notin Verdicts /\ Line[0].kind # "init"
  BY DEF Shifts, NoNote, Verdicts
<1>2. Alternates(Line', Last')
  <2>1. ASSUME NEW i \in 0..Last', NEW j \in 0..Last', i < j, Line'[i].kind \in Verdicts, Line'[j].kind \in Verdicts
        PROVE  \E k \in 0..Last' : i < k /\ k < j /\ Line'[k].kind = "init"
    <3>1. PICK k \in 0..Last : i + 1 < k /\ k < j + 1 /\ Line[k].kind = "init"
      BY ONLY <1>1, <2>1, Alternates(Line, Last) DEF Alternates
    <3>2. k - 1 \in 0..Last' /\ i < k - 1 /\ k - 1 < j /\ Line'[k - 1].kind = "init"
      BY ONLY <1>1, <3>1, <2>1
    <3>3. QED
      BY ONLY <3>2
  <2>2. QED
    BY ONLY <2>1 DEF Alternates
<1>3. ASSUME OpensFirst(Line, Last), NEW i \in 0..Last', Line'[i].kind \in Verdicts
      PROVE  \E k \in 0..Last' : k < i /\ Line'[k].kind = "init"
  <2>1. PICK k \in 0..Last : k < i + 1 /\ Line[k].kind = "init"
    BY ONLY <1>1, <1>3 DEF OpensFirst
  <2>2. k - 1 \in 0..Last' /\ k - 1 < i /\ Line'[k - 1].kind = "init"
    BY ONLY <1>1, <1>3, <2>1
  <2>3. QED
    BY ONLY <2>2
<1>4. ASSUME OpenedLast(Line, Last) PROVE OpenedLast(Line', Last')
  <2>1. PICK i \in 0..Last : Line[i].kind = "init" /\ \A j \in 0..Last : j > i => Line[j].kind \notin Verdicts
    BY <1>4 DEF OpenedLast
  <2>2. i - 1 \in 0..Last' /\ Line'[i - 1].kind = "init" /\ \A j \in 0..Last' : j > i - 1 => Line'[j].kind \notin Verdicts
    BY ONLY <1>1, <2>1
  <2>3. QED
    BY ONLY <2>2 DEF OpenedLast
<1>5. Fresh(Line, Last, window, phase) => Fresh(Line', Last', window, phase)
  BY ONLY <1>1 DEF Fresh
<1>6. QED
  BY <1>2, <1>3, <1>4, <1>5 DEF OpensFirst

LEMMA AlternateLooks ==
    ASSUME Last \in Nat, Looks, Alternates(Line, Last)
    PROVE  /\ Alternates(Line', Last')
           /\ OpensFirst(Line, Last) /\ Kind(0) # "init" => OpensFirst(Line', Last')
           /\ Kind(0) \in Verdicts => OpensFirst(Line', Last')
           /\ OpensFirst(Line, Last) => Kind(0) \notin Verdicts
           /\ OpenedLast(Line, Last) /\ Kind(0) # "init" => OpenedLast(Line', Last')
           /\ OpenedLast(Line, Last) => OpenedLast(Line', Last') \/ \A i \in 0..Last' : Line'[i].kind \notin Verdicts
           /\ (\A i \in 0..Last : Line[i].kind \notin Verdicts) => \A i \in 0..Last' : Line'[i].kind \notin Verdicts
<1>1. /\ Last' = Last /\ 0 \in 0..Last /\ Line'[0].kind \notin Verdicts /\ Line'[0].kind # "init"
      /\ \A i \in 0..Last : i = 0 \/ (i > 0 /\ 0 < i /\ Line'[i] = Line[i])
      /\ \A i \in 0..Last : ~(i < 0)
      /\ \A i, j \in 0..Last : i < j => j # 0
      /\ \A i, j \in 0..Last : i > j => i # 0
  BY DEF Looks, NoNote, Verdicts
<1>2. Alternates(Line', Last')
  BY ONLY <1>1, Alternates(Line, Last) DEF Alternates
<1>3. OpensFirst(Line, Last) /\ Kind(0) # "init" => OpensFirst(Line', Last')
  BY ONLY <1>1 DEF OpensFirst, Kind
<1>4. Kind(0) \in Verdicts => OpensFirst(Line', Last')
  BY ONLY <1>1, Alternates(Line, Last) DEF Alternates, OpensFirst, Kind
<1>5. OpensFirst(Line, Last) => Kind(0) \notin Verdicts
  BY ONLY <1>1 DEF OpensFirst, Kind
<1>6. ASSUME OpenedLast(Line, Last)
      PROVE  /\ Kind(0) # "init" => OpenedLast(Line', Last')
             /\ OpenedLast(Line', Last') \/ \A i \in 0..Last' : Line'[i].kind \notin Verdicts
  <2>1. PICK i \in 0..Last : Line[i].kind = "init" /\ \A j \in 0..Last : j > i => Line[j].kind \notin Verdicts
    BY <1>6 DEF OpenedLast
  <2>2. i # 0 => OpenedLast(Line', Last')
    BY ONLY <1>1, <2>1 DEF OpenedLast
  <2>3. i = 0 => Kind(0) = "init" /\ \A j \in 0..Last' : Line'[j].kind \notin Verdicts
    BY ONLY <1>1, <2>1 DEF Kind
  <2>4. QED
    BY <2>2, <2>3
<1>7. (\A i \in 0..Last : Line[i].kind \notin Verdicts) => \A i \in 0..Last' : Line'[i].kind \notin Verdicts
  BY ONLY <1>1
<1>8. QED
  BY <1>2, <1>3, <1>4, <1>5, <1>6, <1>7

LEMMA AnswersAlternateStep ==
    ASSUME ClaudeInv, WorkTypes, WorkIsKnown, PromptIsFirst, ChoresAreTold, AnswersAlternate, UNCHANGED part,
           CliMoves \/ LoopMoves
    PROVE  AnswersAlternate'
<1> USE DEF trackers, outcome, work
<1>0. Last \in Nat /\ 0 \in 0..Last
  BY LineTypes DEF ClaudeInv
<1>1. /\ mode \in {"call", "spoke"} => Fresh(Line, Last, window, phase) \/ OpenedLast(Line, Last)
      /\ Alternates(Line, Last)
      /\ window # {} \/ phase = "between" => OpensFirst(Line, Last)
      /\ "steer" \in window => demoted # "empty"
  BY AlternateParts
<1>2. ASSUME mode' \in {"call", "spoke"} => Fresh(Line', Last', window', phase') \/ OpenedLast(Line', Last'),
             Alternates(Line', Last'),
             window' # {} \/ phase' = "between" => OpensFirst(Line', Last'),
             "steer" \in window' => demoted' # "empty"
      PROVE  AnswersAlternate'
  BY <1>2, AlternateParts
<1>3. CASE CliMoves /\ Cleans
  <2>1. /\ Last = 0 /\ Kind(0) = "pending" /\ mode' \notin {"call", "spoke"} /\ Last' = 3 /\ UNCHANGED trackers
        /\ Line'[0] = Line[0]
        /\ Line'[1] = [kind |-> "ended", task |-> -1]
        /\ Line'[2] = [kind |-> "init", task |-> 0]
        /\ Line'[3] = [kind |-> "empty", task |-> 0]
    BY <1>0, <1>3 DEF PromptIsFirst, CliMoves, Cleans
  <2>2. \A i \in 0..Last' : i \in {0, 1, 2, 3}
    BY <2>1
  <2>3. /\ Line'[0].kind \notin Verdicts /\ Line'[1].kind \notin Verdicts /\ Line'[2].kind \notin Verdicts
        /\ Line'[2].kind = "init"
    BY <2>1 DEF Kind, Verdicts
  <2>4. /\ \A i \in 0..Last' : Line'[i].kind \in Verdicts => i = 3
        /\ 2 \in 0..Last' /\ 2 < 3 /\ ~(3 < 3)
    BY <2>1, <2>2, <2>3
  <2>5. OpensFirst(Line', Last') /\ Alternates(Line', Last')
    BY ONLY <2>3, <2>4 DEF OpensFirst, Alternates
  <2>6. QED
    BY <1>1, <1>2, <2>1, <2>5
<1>4. ASSUME CliMoves, NEW note, Comes(note), note.kind \notin Verdicts,
             mode' \in {"call", "spoke"} => mode \in {"call", "spoke"} \/ note.kind = "init"
      PROVE  AnswersAlternate'
  <2>1. UNCHANGED <<window, phase, demoted>>
    BY <1>4 DEF CliMoves
  <2>2. QED
    BY <1>0, <1>1, <1>2, <1>4, <2>1, AlternateGrows
<1>5. CASE CliMoves /\ (Opens \/ Continues \/ Speaks)
  <2>1. PICK kind \in {"init", "tool", "output"} : Comes([kind |-> kind, task |-> 0])
    BY <1>5 DEF Opens, Continues, Speaks
  <2>2. Opens => Comes([kind |-> "init", task |-> 0])
    BY DEF Opens
  <2>3. Continues \/ Speaks => mode \in {"call", "spoke"}
    BY DEF Continues, Speaks
  <2>4. kind \notin Verdicts /\ "init" \notin Verdicts
    BY DEF Verdicts
  <2>5. CASE Opens
    BY <1>4, <1>5, <2>2, <2>4, <2>5
  <2>6. CASE Continues \/ Speaks
    BY <1>4, <1>5, <2>1, <2>3, <2>4, <2>6
  <2>7. QED
    BY <1>5, <2>5, <2>6
<1>6. ASSUME CliMoves, NEW t \in Jobs, Starts(t) \/ EndsJob(t) PROVE AnswersAlternate'
  <2>1. PICK kind \in {"started", "ended"} : Comes([kind |-> kind, task |-> t])
    BY <1>6 DEF Starts, EndsJob
  <2>2. UNCHANGED mode
    BY <1>6 DEF Starts, EndsJob
  <2>3. kind \notin Verdicts
    BY DEF Verdicts
  <2>4. QED
    BY <1>4, <1>6, <2>1, <2>2, <2>3
<1>7. CASE CliMoves /\ Dies
  <2>1. PICK kind \in Ends : Comes([kind |-> kind, task |-> 0])
    BY <1>7 DEF Dies
  <2>2. mode' = "gone" /\ kind \notin Verdicts
    BY <1>7 DEF Dies, Ends, Verdicts
  <2>3. QED
    BY <1>4, <1>7, <2>1, <2>2
<1>8. CASE CliMoves /\ (Concludes \/ IsCut)
  <2>1. /\ mode \in {"call", "spoke"} /\ mode' = "idle" /\ UNCHANGED <<window, phase, demoted>>
        /\ \E kind : Comes([kind |-> kind, task |-> 0])
    BY <1>8 DEF CliMoves, Concludes, IsCut, WorkIsKnown
  <2>2. Alternates(Line', Last')
    BY <1>0, <1>1, <2>1, AlternateGrows
  <2>3. ASSUME window # {} \/ phase = "between" PROVE OpensFirst(Line', Last')
    <3>1. OpenedLast(Line, Last)
      BY <1>1, <2>1, <2>3 DEF Fresh
    <3>2. QED
      BY <1>0, <1>1, <2>1, <2>3, <3>1, AlternateGrows
  <2>4. QED
    BY <1>1, <1>2, <2>1, <2>2, <2>3
<1>9. CASE UNCHANGED <<mode, trackers, Last, Line>>
  BY <1>1, <1>2, <1>9
<1>10. CASE Returns
  BY <1>0, <1>1, <1>2, <1>10, AlternateShifts DEF Returns
<1>11. ASSUME Looks, Kind(0) \in Verdicts, UNCHANGED mode, "steer" \in window' => demoted' # "empty"
       PROVE  AnswersAlternate'
  <2>1. ~Fresh(Line, Last, window, phase) /\ Kind(0) # "init"
    BY <1>0, <1>11 DEF Fresh, Kind, Verdicts
  <2>2. QED
    BY <1>0, <1>1, <1>2, <1>11, <2>1, AlternateLooks
<1>12. ASSUME NEW msg \in c_ctask \cup c_waiting, Gives(msg) PROVE AnswersAlternate'
  <2>1. /\ window' \subseteq window /\ phase' = "active" /\ UNCHANGED mode
        /\ \/ UNCHANGED <<demoted, Last, Line>>
           \/ Kind(0) \in Verdicts /\ Looks /\ UNCHANGED window
    BY <1>12 DEF Gives
  <2>2. CASE UNCHANGED <<demoted, Last, Line>>
    <3>1. Fresh(Line, Last, window, phase) => Fresh(Line', Last', window', phase')
      BY <2>1, <2>2 DEF Fresh
    <3>2. QED
      BY <1>1, <1>2, <2>1, <2>2, <3>1
  <2>3. CASE Kind(0) \in Verdicts /\ Looks /\ UNCHANGED window
    <3>1. "steer" \notin window
      BY <1>0, <1>1, <2>3, AlternateLooks
    <3>2. QED
      BY <1>11, <2>1, <2>3, <3>1
  <2>4. QED
    BY <2>1, <2>2, <2>3
<1>13. CASE Keeps
  <2>1. Looks /\ Kind(0) \in Verdicts /\ UNCHANGED <<mode, demoted>> /\ window' = window \cup {"resume"}
    BY <1>13 DEF Keeps, Verdicts
  <2>2. QED
    BY <1>1, <1>11, <2>1
<1>14. CASE Demotes
  <2>1. Kind(0) # "empty"
    BY <1>0, <1>14 DEF Demotes, OwnVerdict, ChoresAreTold
  <2>2. Looks /\ Kind(0) \in Verdicts /\ UNCHANGED mode /\ demoted' # "empty"
    BY <1>14, <2>1 DEF Demotes, OwnVerdict
  <2>3. QED
    BY <1>11, <2>2
<1>15. CASE Watches
  <2>1. /\ Looks /\ Kind(0) \notin Verdicts /\ UNCHANGED <<mode, demoted>>
        /\ \/ Kind(0) = "init" /\ phase' = "active" /\ window' = {}
           \/ Kind(0) # "init" /\ window' \subseteq window /\ UNCHANGED phase
    BY <1>15 DEF Watches, Verdicts
  <2>2. CASE Kind(0) = "init" /\ phase' = "active" /\ window' = {}
    <3>1. Fresh(Line, Last, window, phase) => Fresh(Line', Last', window', phase')
      BY <1>0, <1>1, <2>1, <2>2, AlternateLooks DEF Fresh
    <3>2. OpenedLast(Line, Last) => Fresh(Line', Last', window', phase') \/ OpenedLast(Line', Last')
      BY <1>0, <1>1, <2>1, <2>2, AlternateLooks DEF Fresh
    <3>3. QED
      BY <1>0, <1>1, <1>2, <2>1, <2>2, <3>1, <3>2, AlternateLooks
  <2>3. CASE Kind(0) # "init" /\ window' \subseteq window /\ UNCHANGED phase
    <3>1. Fresh(Line, Last, window, phase) => Fresh(Line', Last', window', phase')
      BY <1>0, <1>1, <2>1, <2>3, AlternateLooks DEF Fresh
    <3>2. QED
      BY <1>0, <1>1, <1>2, <2>1, <2>3, <3>1, AlternateLooks
  <2>4. QED
    BY <2>1, <2>2, <2>3
<1>16. LoopMoves =>
         \/ UNCHANGED <<mode, trackers, Last, Line>> \/ Returns
         \/ (\E msg \in c_ctask \cup c_waiting : Gives(msg)) \/ Watches \/ Keeps \/ Demotes
  BY DEF LoopMoves, Listens, Asks
<1>17. QED
  BY <1>3, <1>5, <1>6, <1>7, <1>8, <1>9, <1>10, <1>12, <1>13, <1>14, <1>15, <1>16 DEF CliMoves

\* What the loop reads and looks at brings no boundary to the line.
LEMMA BoundariesPass ==
    ASSUME ClaudeTypes, Looks \/ Shifts \/ UNCHANGED <<Last, Line>>, \A i \in 0..Last : ~Boundary(i)
    PROVE  \A i \in 0..Last' : ~(Boundary(i)')
<1> DEFINE S == {note \in CliNotes : note.kind \notin {"init", "tool"}}
<1>1. \A i \in 0..Last : Line[i] \in S
  BY LineTypes DEF Boundary, Kind
<1>2. NoNote \in S
  BY DEF NoNote, CliNotes, NoteKinds
<1> HIDE DEF S
<1>3. \A i \in 0..Last' : Line'[i] \in S
  BY <1>1, <1>2, LineStays
<1>4. QED
  BY <1>3 DEF S, Boundary, Kind

LEMMA MessagesAreKeptStep ==
    ASSUME ClaudeInv, SentIsBounded, WorkTypes, WorkIsKnown, PromptIsFirst, MessagesAreKept, UNCHANGED part,
           CliMoves \/ LoopMoves
    PROVE  MessagesAreKept'
<1> USE DEF trackers, outcome, work
<1> DEFINE some  == \E i \in 0..Last : Boundary(i)
           somep == \E i \in 0..Last' : Boundary(i)'
<1>0. /\ ClaudeTypes /\ Last \in Nat /\ 0 \in 0..Last /\ 0 \notin Jobs /\ Given \cap Jobs = {}
      /\ \A msg \in c_ctask \cup c_waiting : msg.id \in Nat /\ msg.id # 0
      /\ steers \in SteerTracks
  BY LineTypes, MessagesAreNew DEF ClaudeInv, WorkTypes
<1>1. /\ Unheard \subseteq steers.undelivered \cup steers.staged
      /\ 0 \notin queued => Unheard \subseteq steers.undelivered
      /\ 0 \notin queued /\ some => Unheard = {}
  BY DEF MessagesAreKept
<1>2. ASSUME Unheard' \subseteq steers'.undelivered \cup steers'.staged,
             0 \notin queued' => Unheard' \subseteq steers'.undelivered,
             0 \notin queued' /\ somep => Unheard' = {}
      PROVE  MessagesAreKept'
  BY <1>2 DEF MessagesAreKept
<1>3. ASSUME Looks \/ Shifts \/ UNCHANGED <<Last, Line>> PROVE somep => some
  BY <1>0, <1>3, BoundariesPass
<1>4. ASSUME NEW note, Comes(note), note.kind \notin {"init", "tool"} PROVE somep => some
  <2>1. \A i \in 0..Last' : i \in 0..Last \/ i = Last + 1
    BY <1>0, <1>4 DEF Comes
  <2>2. QED
    BY <1>4, <2>1 DEF Comes, Boundary, Kind
<1>5. UNCHANGED c_surfaced => Given' = Given
  BY GivenGrows
<1> HIDE DEF some, somep
<1>6. ASSUME Given' = Given, UNCHANGED unsure, queued' = {} PROVE MessagesAreKept'
  <2>1. Unheard' = {}
    BY <1>6 DEF Unheard
  <2>2. QED
    BY <1>2, <2>1
<1>7. ASSUME UNCHANGED <<c_surfaced, unsure, steers>>, 0 \in queued <=> 0 \in queued', queued' \cap Given \subseteq queued, 0 \notin queued /\ somep => some
      PROVE  MessagesAreKept'
  <2>1. Unheard' \subseteq Unheard
    BY <1>5, <1>7 DEF Unheard
  <2>2. QED
    BY <1>1, <1>2, <1>7, <2>1
<1>8. CASE CliMoves
  <2>0. UNCHANGED <<trackers, outcome>>
    BY <1>8 DEF CliMoves
  <2>1. CASE Cleans
    BY <1>7, <2>0, <2>1 DEF Cleans, PromptIsFirst
  <2>2. CASE Opens \/ Continues
    BY <1>5, <1>6, <2>0, <2>2 DEF Opens, Continues, CarriesAll
  <2>3. ASSUME NEW kind \in {"output", "result", "error", "settle", "end", "crash", "started", "ended"}, NEW t,
               Comes([kind |-> kind, task |-> t]), UNCHANGED queued \/ \E job \in Jobs : queued' = queued \cup {job}
        PROVE  MessagesAreKept'
    <3>1. somep => some
      BY <1>4, <2>3
    <3>2. (0 \in queued <=> 0 \in queued') /\ queued' \cap Given \subseteq queued
      BY <1>0, <2>3
    <3>3. QED
      BY <1>7, <2>0, <3>1, <3>2
  <2>4. CASE Speaks \/ Concludes \/ IsCut \/ Dies
    <3>1. UNCHANGED queued /\ \E kind \in {"output", "result", "error", "settle", "end", "crash"} : Comes([kind |-> kind, task |-> 0])
      BY <2>4 DEF Speaks, Concludes, IsCut, Dies, Ends
    <3>2. QED
      BY <2>3, <3>1
  <2>5. CASE \E t \in Jobs : Starts(t) \/ EndsJob(t)
    <3>1. \E t \in Jobs : (UNCHANGED queued \/ queued' = queued \cup {t}) /\ \E kind \in {"started", "ended"} : Comes([kind |-> kind, task |-> t])
      BY <2>5 DEF Starts, EndsJob
    <3>2. QED
      BY <2>3, <3>1
  <2>6. QED
    BY <1>8, <2>1, <2>2, <2>4, <2>5 DEF CliMoves
<1>9. CASE Listens \/ Returns \/ Keeps \/ Demotes \/ \E msg \in c_ctask : Asks(msg)
  <2>1. UNCHANGED <<c_surfaced, unsure, steers, queued>> /\ (Looks \/ Shifts \/ UNCHANGED <<Last, Line>>)
    BY <1>9 DEF Listens, Returns, Keeps, Demotes, Asks
  <2>2. QED
    BY <1>3, <1>7, <2>1
<1>10. ASSUME NEW msg \in c_ctask \cup c_waiting, Gives(msg) PROVE MessagesAreKept'
  <2> DEFINE id == msg.id
  <2>1. /\ queued' = queued \cup {id} /\ c_surfaced' = Append(c_surfaced, id)
        /\ steers' = [steers EXCEPT !.undelivered = @ \cup {id}]
        /\ unsure' = unsure \cup {id} \/ (unsure' = unsure /\ \A i \in 0..Last : Line'[i].kind \notin {"init", "tool"})
        /\ Looks \/ UNCHANGED <<Last, Line>>
    BY <1>10 DEF Gives
  <2>2. Given' = Given \cup {id} /\ id # 0 /\ id \in Nat
    BY <1>0, <1>10, <2>1, GivenGrows
  <2>3. /\ steers'.undelivered = steers.undelivered \cup {id} /\ steers'.staged = steers.staged
    BY <1>0, <2>1 DEF SteerTracks
  <2>4. somep => some
    BY <1>3, <2>1
  <2>5. 0 \in queued <=> 0 \in queued'
    BY <2>1, <2>2
  <2> HIDE DEF id
  <2>6. CASE unsure' = unsure \cup {id}
    <3>1. Unheard' \subseteq Unheard
      BY <2>1, <2>2, <2>6 DEF Unheard
    <3>2. QED
      BY <1>1, <1>2, <2>3, <2>4, <2>5, <3>1
  <2>7. CASE unsure' = unsure /\ \A i \in 0..Last : Line'[i].kind \notin {"init", "tool"}
    <3>1. ~somep
      <4>1. Last' = Last
        BY <2>1 DEF Looks
      <4>2. QED
        BY <2>7, <4>1 DEF somep, Boundary, Kind
    <3>2. Unheard' \subseteq Unheard \cup {id}
      BY <2>1, <2>2, <2>7 DEF Unheard
    <3>3. QED
      BY <1>1, <1>2, <2>3, <2>5, <3>1, <3>2
  <2>8. QED
    BY <2>1, <2>6, <2>7
<1>11. CASE Watches
  <2>1. UNCHANGED <<queued, c_surfaced, unsure>> /\ Looks /\ steers' = Claude!Steered(Line[0])
    BY <1>11 DEF Watches
  <2>2. Unheard' = Unheard /\ (somep => some)
    BY <1>3, <1>5, <2>1 DEF Unheard
  <2>3. CASE Kind(0) \in {"init", "tool"}
    <3>1. steers'.undelivered = {} /\ steers'.staged = steers.staged \cup steers.undelivered
      BY <2>1, <2>3 DEF Claude!Steered, Kind
    <3>2. some
      BY <1>0, <2>3 DEF some, Boundary
    <3>3. QED
      BY <1>1, <1>2, <2>1, <2>2, <3>1, <3>2
  <2>4. CASE Kind(0) = "output"
    <3>1. steers'.undelivered = steers.undelivered /\ steers'.staged = {}
      BY <1>0, <2>1, <2>4 DEF Claude!Steered, Kind, SteerTracks
    <3>2. 0 \notin queued
      BY <1>0, <2>4 DEF PromptIsFirst, Ends
    <3>3. QED
      BY <1>1, <1>2, <2>1, <2>2, <3>1, <3>2
  <2>5. CASE Kind(0) \notin {"init", "tool", "output"}
    <3>1. UNCHANGED steers
      BY <2>1, <2>5 DEF Claude!Steered, Kind
    <3>2. QED
      BY <1>7, <2>1, <2>2, <3>1
  <2>6. QED
    BY <2>3, <2>4, <2>5
<1>12. QED
  BY <1>8, <1>9, <1>10, <1>11 DEF LoopMoves

LEMMA EndsAreQueuedStep ==
    ASSUME ClaudeInv, EndsAreQueued, CliMoves \/ LoopMoves
    PROVE  EndsAreQueued'
<1> DEFINE S == {note \in CliNotes : note.kind = "ended" => note.task \in {-1} \cup queued' \cup heard'}
<1>0. ClaudeTypes /\ Last \in Nat /\ \A i \in 0..Last : Line[i] \in CliNotes
  BY LineTypes DEF ClaudeInv
<1>1. queued \cup heard \subseteq queued' \cup heard'
  <2>1. CASE CliMoves
    BY <2>1 DEF CliMoves, Cleans, Opens, Continues, Speaks, Concludes, IsCut, Dies, Starts, EndsJob, CarriesAll, work
  <2>2. CASE LoopMoves
    BY <2>2, LoopLines
  <2>3. QED
    BY <2>1, <2>2
<1>2. \A i \in 0..Last : Line[i] \in S
  BY <1>0, <1>1 DEF EndsAreQueued, Kind
<1>3. NoNote \in S
  BY DEF NoNote, CliNotes, NoteKinds
<1>4. ASSUME \A i \in 0..Last' : Line'[i] \in S PROVE EndsAreQueued'
  BY <1>4 DEF EndsAreQueued, Kind
<1>5. CASE CliMoves /\ Cleans
  <2>1. /\ Last' = Last + 3 /\ (\A i \in 0..Last : Line'[i] = Line[i])
        /\ Line'[Last + 1] = [kind |-> "ended", task |-> -1]
        /\ Line'[Last + 2] = [kind |-> "init", task |-> 0]
        /\ Line'[Last + 3] = [kind |-> "empty", task |-> 0]
    BY <1>5 DEF Cleans
  <2>2. \A i \in 0..Last' : i \in 0..Last \/ i \in {Last + 1, Last + 2, Last + 3}
    BY <1>0, <2>1
  <2>3. Line'[Last + 1] \in S /\ Line'[Last + 2] \in S /\ Line'[Last + 3] \in S
    BY <2>1 DEF CliNotes, NoteKinds
  <2> HIDE DEF S
  <2>4. QED
    BY <1>2, <1>4, <2>1, <2>2, <2>3
<1>6. CASE CliMoves /\ ~Cleans
  <2>1. \E note \in S : Comes(note)
    <3>1. PICK kind \in NoteKinds, t \in Jobs \cup {0} : Comes([kind |-> kind, task |-> t])
      BY <1>6, CliTells
    <3>2. t \in Int
      BY ClaudeConstants DEF Jobs
    <3>3. [kind |-> kind, task |-> t] \in CliNotes
      BY <3>2 DEF CliNotes
    <3>4. CASE kind # "ended"
      BY <3>1, <3>3, <3>4
    <3>5. CASE kind = "ended"
      <4>1. ASSUME NEW job \in Jobs, EndsJob(job) PROVE \E note \in S : Comes(note)
        <5>1. Comes([kind |-> "ended", task |-> job]) /\ job \in queued'
          BY <4>1 DEF EndsJob
        <5>2. job \in Int /\ "ended" \in NoteKinds
          BY ClaudeConstants DEF Jobs, NoteKinds
        <5>3. [kind |-> "ended", task |-> job] \in S
          BY <5>1, <5>2 DEF CliNotes
        <5>4. QED
          BY <5>1, <5>3
      <4>2. ASSUME NEW other, NEW job, Comes([kind |-> other, task |-> job]) PROVE other = "ended"
        BY <3>1, <3>5, <4>2 DEF Comes
      <4>3. \E job \in Jobs : EndsJob(job)
        BY <1>6, <4>2 DEF CliMoves, Opens, Continues, Speaks, Concludes, IsCut, Dies, Ends, Starts
      <4>4. QED
        BY <4>1, <4>3
    <3>6. QED
      BY <3>4, <3>5
  <2> HIDE DEF S
  <2>2. QED
    BY <1>0, <1>2, <1>3, <1>4, <2>1, LineStays
<1>7. CASE LoopMoves
  <2> HIDE DEF S
  <2>1. QED
    BY <1>0, <1>2, <1>3, <1>4, <1>7, LineStays, LoopLines
<1>8. QED
  BY <1>5, <1>6, <1>7

\* What is known of a task stays so as a message comes, is read or is looked at.
LEMMA GrowthKeeps ==
    ASSUME Last \in Nat, NEW note, Comes(note), UNCHANGED tasks, NEW t
    PROVE  /\ \A i \in 0..Last + 1 :
                /\ Clear(i) => Clear(i)'
                /\ Runs(t, i) => Runs(t, i)'
                /\ Untold(t, i) => Untold(t, i)'
           /\ \A i \in 0..Last : Opened(i) => Opened(i)'
<1>1. /\ \A j \in 0..Last : j \in 0..Last' /\ Line'[j] = Line[j]
      /\ \A i \in 0..Last + 1 : \A j \in 0..Last' : j < i => j \in 0..Last
  BY DEF Comes
<1>2. ASSUME NEW i \in 0..Last + 1 PROVE Clear(i) => Clear(i)'
  BY ONLY <1>1 DEF Clear, Boundary, Kind
<1>3. ASSUME NEW i \in 0..Last + 1 PROVE Known(t, i) <=> Known(t, i)'
  BY ONLY <1>1, UNCHANGED tasks DEF Known, Started
<1>4. ASSUME NEW i \in 0..Last + 1 PROVE Runs(t, i) => Runs(t, i)'
  BY ONLY <1>1, <1>3 DEF Runs, Ended
<1>5. ASSUME NEW i \in 0..Last + 1, Untold(t, i) PROVE Untold(t, i)'
  <2>1. CASE t \in tasks.undelivered /\ Clear(i)
    BY <1>2, <2>1 DEF Untold
  <2>2. ASSUME NEW j \in 0..Last, j < i, Ended(t, j), Known(t, j), \A k \in 0..Last : j < k /\ k < i => ~Boundary(k)
        PROVE  Untold(t, i)'
    <3>1. j \in 0..Last + 1
      BY <2>2
    <3>2. Known(t, j)' /\ Ended(t, j)'
      BY <1>1, <1>3, <2>2, <3>1 DEF Ended
    <3>3. \A k \in 0..Last' : j < k /\ k < i => ~Boundary(k)'
      BY ONLY <1>1, <2>2 DEF Boundary, Kind
    <3>4. QED
      BY <1>1, <2>2, <3>2, <3>3 DEF Untold
  <2>3. QED
    BY <1>5, <2>1, <2>2 DEF Untold
<1>6. ASSUME NEW i \in 0..Last, Opened(i) PROVE Opened(i)'
  BY ONLY <1>1, <1>6 DEF Opened, Kind
<1>7. QED
  BY <1>2, <1>4, <1>5, <1>6

LEMMA GrowthAdds ==
    ASSUME Last \in Nat, NEW note, Comes(note), UNCHANGED tasks, NEW t
    PROVE  /\ Runs(t, Last + 1) /\ note # [kind |-> "ended", task |-> t] => Runs(t, Last + 1)'
           /\ Untold(t, Last + 1) /\ note.kind \notin {"init", "tool"} => Untold(t, Last + 1)'
           /\ note = [kind |-> "started", task |-> t] /\ (\A j \in 0..Last : ~Ended(t, j)) => Runs(t, Last + 1)'
           /\ note = [kind |-> "ended", task |-> t] /\ Known(t, Last + 1) => Untold(t, Last + 1)'
           /\ note.kind = "init" => \A i \in 0..Last : Opened(i)'
<1>1. PICK m \in Nat : m = Last + 1
  OBVIOUS
<1>2. PICK n \in Nat : n = m + 1
  OBVIOUS
<1>3. /\ Last' = m /\ Line'[m] = note /\ m \in 0..m /\ m \in Nat /\ m < n /\ m \in 0..Last + 1
      /\ \A j \in 0..Last : j \in 0..m /\ Line'[j] = Line[j] /\ j < m /\ j < n
      /\ \A j \in 0..m : j \in 0..Last \/ j = m
      /\ \A j \in 0..Last : ~(m < j)
      /\ \A k \in 0..m : ~(m < k)
  BY <1>1, <1>2 DEF Comes
<1>4. (Last + 1)' = n /\ Last + 1 = m
  BY <1>3, <1>1, <1>2
<1>5. Known(t, m) => Known(t, n)'
  BY ONLY <1>3, UNCHANGED tasks DEF Known, Started
<1>6. ASSUME Runs(t, m), note # [kind |-> "ended", task |-> t] PROVE Runs(t, n)'
  BY ONLY <1>3, <1>5, <1>6 DEF Runs, Ended
<1>7. ASSUME Untold(t, m), note.kind \notin {"init", "tool"} PROVE Untold(t, n)'
  <2>1. CASE t \in tasks.undelivered /\ Clear(m)
    <3>1. Clear(n)'
      BY ONLY <1>3, <1>7, <2>1 DEF Clear, Boundary, Kind
    <3>2. QED
      BY <2>1, <3>1 DEF Untold
  <2>2. ASSUME NEW j \in 0..Last, j < m, Ended(t, j), Known(t, j), \A k \in 0..Last : j < k /\ k < m => ~Boundary(k)
        PROVE  Untold(t, n)'
    <3>1. Ended(t, j)'
      BY ONLY <1>3, <2>2 DEF Ended
    <3>2. Known(t, j)'
      <4>1. \A k \in 0..m : k < j => k \in 0..Last
        BY ONLY <1>3, <2>2
      <4>2. QED
        BY ONLY <1>3, <2>2, <4>1, UNCHANGED tasks DEF Known, Started
    <3>3. \A k \in 0..m : j < k /\ k < n => ~Boundary(k)'
      BY ONLY <1>3, <1>7, <2>2 DEF Boundary, Kind
    <3>4. QED
      BY <1>3, <3>1, <3>2, <3>3 DEF Untold
  <2>3. QED
    BY <1>4, <1>7, <2>1, <2>2 DEF Untold
<1>8. ASSUME note = [kind |-> "started", task |-> t], \A j \in 0..Last : ~Ended(t, j) PROVE Runs(t, n)'
  <2>1. Known(t, n)'
    BY ONLY <1>3, <1>8 DEF Known, Started
  <2>2. \A j \in 0..m : j < n => ~Ended(t, j)'
    BY ONLY <1>3, <1>8 DEF Ended
  <2>3. QED
    BY ONLY <1>3, <2>1, <2>2 DEF Runs
<1>9. ASSUME note = [kind |-> "ended", task |-> t], Known(t, m) PROVE Untold(t, n)'
  <2>1. Known(t, m)'
    BY ONLY <1>3, <1>9, UNCHANGED tasks DEF Known, Started
  <2>2. Ended(t, m)'
    BY ONLY <1>3, <1>9 DEF Ended
  <2>3. \A k \in 0..m : ~(m < k /\ k < n)
    BY <1>3
  <2>4. QED
    BY ONLY <1>3, <2>1, <2>2, <2>3 DEF Untold
<1>10. ASSUME note.kind = "init", NEW i \in 0..Last PROVE Opened(i)'
  <2>1. m > i
    BY <1>3
  <2>2. QED
    BY ONLY <1>3, <1>10, <2>1 DEF Opened, Kind
<1>11. QED
  BY <1>3, <1>4, <1>6, <1>7, <1>8, <1>9, <1>10

LEMMA ShiftKeeps ==
    ASSUME Last \in Nat, Shifts, UNCHANGED tasks, NEW t
    PROVE  /\ \A i \in 0..Last' + 1 :
                /\ Clear(i + 1) => Clear(i)'
                /\ Runs(t, i + 1) => Runs(t, i)'
                /\ Untold(t, i + 1) => Untold(t, i)'
           /\ \A i \in 0..Last' : Opened(i + 1) => Opened(i)'
           /\ Runs(t, Last + 1) => Runs(t, Last + 1)'
           /\ Untold(t, Last + 1) => Untold(t, Last + 1)'
<1>1. /\ \A i \in 0..Last' : i + 1 \in 0..Last /\ Line'[i] = Line[i + 1]
      /\ \A i \in 0..Last : i = 0 \/ (i - 1 \in 0..Last' /\ Line'[i - 1] = Line[i])
      /\ \A i, j \in 0..Last' + 1 : i < j <=> i + 1 < j + 1
      /\ \A i \in 0..Last : \A j \in 0..Last' + 1 : (i < j + 1 <=> i - 1 < j) /\ (i > j + 1 <=> i - 1 > j)
      /\ Line[0] = [kind |-> "pending", task |-> 0]
      /\ \A i \in 0..Last' : i \in 0..Last' + 1
      /\ \A i \in 0..Last : i = 0 \/ i - 1 \in 0..Last' + 1
      /\ Last' + 1 \in 0..Last' + 1 /\ (Last' + 1) + 1 = Last + 1
  BY DEF Shifts, NoNote
<1>2. ASSUME NEW i \in 0..Last' + 1, Clear(i + 1) PROVE Clear(i)'
  BY ONLY <1>1, <1>2 DEF Clear, Boundary, Kind
<1>3. ASSUME NEW i \in 0..Last' + 1, Known(t, i + 1) PROVE Known(t, i)'
  <2>1. CASE t \in tasks.pending
    BY ONLY <2>1, UNCHANGED tasks DEF Known
  <2>2. ASSUME NEW j \in 0..Last, j < i + 1, Started(t, j) PROVE Known(t, i)'
    <3>1. j # 0
      BY ONLY <1>1, <2>2 DEF Started
    <3>2. j - 1 \in 0..Last' /\ j - 1 < i /\ Started(t, j - 1)'
      BY ONLY <1>1, <1>3, <2>2, <3>1 DEF Started
    <3>3. QED
      BY ONLY <3>2 DEF Known
  <2>3. QED
    BY <1>3, <2>1, <2>2 DEF Known
<1>4. ASSUME NEW i \in 0..Last' + 1, Runs(t, i + 1) PROVE Runs(t, i)'
  <2>1. \A j \in 0..Last' : j < i => ~Ended(t, j)'
    BY ONLY <1>1, <1>4 DEF Runs, Ended
  <2>2. QED
    BY <1>3, <1>4, <2>1 DEF Runs
<1>5. ASSUME NEW i \in 0..Last' + 1, Untold(t, i + 1) PROVE Untold(t, i)'
  <2>1. CASE t \in tasks.undelivered /\ Clear(i + 1)
    BY <1>2, <2>1 DEF Untold
  <2>2. ASSUME NEW j \in 0..Last, j < i + 1, Ended(t, j), Known(t, j),
               \A k \in 0..Last : j < k /\ k < i + 1 => ~Boundary(k)
        PROVE  Untold(t, i)'
    <3>1. j # 0
      BY ONLY <1>1, <2>2 DEF Ended
    <3>2. PICK h \in 0..Last' : h = j - 1
      BY ONLY <1>1, <2>2, <3>1
    <3>3. j = h + 1 /\ h < i /\ h \in 0..Last' + 1
      BY <1>1, <2>2, <3>2
    <3>4. Ended(t, h)'
      BY ONLY <1>1, <2>2, <3>3 DEF Ended
    <3>5. Known(t, h)'
      BY <1>3, <2>2, <3>3
    <3>6. \A k \in 0..Last' : h < k /\ k < i => ~Boundary(k)'
      BY ONLY <1>1, <2>2, <3>3 DEF Boundary, Kind
    <3>7. QED
      BY ONLY <3>2, <3>3, <3>4, <3>5, <3>6 DEF Untold
  <2>3. QED
    BY <1>5, <2>1, <2>2 DEF Untold
<1>6. ASSUME NEW i \in 0..Last', Opened(i + 1) PROVE Opened(i)'
  <2>1. PICK k \in 0..Last : k > i + 1 /\ Line[k].kind = "init"
    BY <1>6 DEF Opened, Kind
  <2>2. k - 1 \in 0..Last' /\ k - 1 > i /\ Line'[k - 1].kind = "init"
    BY ONLY <1>1, <1>6, <2>1
  <2>3. QED
    BY ONLY <2>2 DEF Opened, Kind
<1>7. PICK m \in 0..Last' + 1 : m = Last' + 1
  BY <1>1
<1>8. /\ Runs(t, Last + 1) => Runs(t, m)'
      /\ Untold(t, Last + 1) => Untold(t, m)'
  <2>1. m + 1 = Last + 1
    BY <1>1, <1>7
  <2>2. /\ Runs(t, m + 1) => Runs(t, m)'
        /\ Untold(t, m + 1) => Untold(t, m)'
    BY <1>4, <1>5
  <2>3. QED
    BY <2>1, <2>2
<1>9. QED
  BY <1>2, <1>4, <1>5, <1>6, <1>7, <1>8

LEMMA LookKeeps ==
    ASSUME ClaudeTypes, WorkTypes, Last \in Nat, Looks, tasks' = Claude!Tracked(Line[0]), NEW t,
           \A i, j \in 0..Last : Ended(t, i) /\ Ended(t, j) => i = j
    PROVE  /\ \A i \in 1..Last + 1 :
                /\ Clear(i) => Clear(i)'
                /\ Runs(t, i) => Runs(t, i)'
                /\ Untold(t, i) => Untold(t, i)'
           /\ \A i \in 0..Last : Opened(i) => Opened(i)'
           /\ Runs(t, Last + 1) => Runs(t, Last + 1)'
           /\ Untold(t, Last + 1) => Untold(t, Last + 1)'
           /\ \A i, j \in 0..Last' : Ended(t, i)' /\ Ended(t, j)' => i = j
<1>1. /\ Last' = Last /\ 0 \in 0..Last /\ Line'[0] = [kind |-> "pending", task |-> 0]
      /\ \A i \in 0..Last : i = 0 \/ (i \in 1..Last + 1 /\ 0 < i /\ Line'[i] = Line[i])
      /\ \A i \in 1..Last + 1 : 0 < i /\ i # 0 /\ ~(i < 0)
      /\ Last + 1 \in 1..Last + 1
      /\ \A i, j \in 0..Last : i < j => j # 0
      /\ \A i, j \in 0..Last : i > j => i # 0
  BY DEF Looks, NoNote
<1>2. tasks \in TaskTracks
  BY DEF WorkTypes
<1>3. /\ Kind(0) \notin {"init", "tool"} => tasks.undelivered \subseteq tasks'.undelivered
      /\ ~Ended(t, 0) /\ t \in tasks.pending => t \in tasks'.pending
      /\ Started(t, 0) => t \in tasks'.pending
      /\ Ended(t, 0) /\ t \in tasks.pending => t \in tasks'.undelivered
  <2>1. CASE Kind(0) \in {"init", "tool", "output"}
    <3>1. /\ tasks'.pending = tasks.pending
          /\ Kind(0) = "output" => tasks'.undelivered = tasks.undelivered
      BY <1>2, <2>1 DEF Claude!Tracked, Kind, TaskTracks
    <3>2. ~Ended(t, 0) /\ ~Started(t, 0)
      BY <2>1 DEF Ended, Started, Kind
    <3>3. QED
      BY <2>1, <3>1, <3>2
  <2>2. CASE Kind(0) = "started"
    <3>1. tasks' = [tasks EXCEPT !.pending = @ \cup {Line[0].task}]
      BY <2>2 DEF Claude!Tracked, Kind
    <3>2. tasks'.pending = tasks.pending \cup {Line[0].task} /\ tasks'.undelivered = tasks.undelivered
      BY <1>2, <3>1 DEF TaskTracks
    <3>3. ~Ended(t, 0) /\ (Started(t, 0) => t = Line[0].task)
      BY <2>2 DEF Ended, Started, Kind
    <3>4. QED
      BY <3>2, <3>3
  <2>3. CASE Kind(0) = "ended" /\ Line[0].task \in tasks.pending
    <3>1. tasks' = [tasks EXCEPT !.pending = @ \ {Line[0].task}, !.undelivered = @ \cup {Line[0].task}]
      BY <2>3 DEF Claude!Tracked, Kind
    <3>2. tasks'.pending = tasks.pending \ {Line[0].task} /\ tasks'.undelivered = tasks.undelivered \cup {Line[0].task}
      BY <1>2, <3>1 DEF TaskTracks
    <3>3. ~Started(t, 0) /\ (Ended(t, 0) => t = Line[0].task)
      BY <2>3 DEF Ended, Started, Kind
    <3>4. ~Ended(t, 0) => t # Line[0].task \/ Line[0] # [kind |-> "ended", task |-> t]
      BY DEF Ended
    <3>5. t = Line[0].task => Line[0] = [kind |-> "ended", task |-> t]
      <4>1. Line[0] \in CliNotes
        BY LineTypes
      <4>2. QED
        BY <2>3, <4>1 DEF Kind, CliNotes
    <3>6. QED
      BY <3>2, <3>3, <3>4, <3>5
  <2>4. CASE Kind(0) \notin {"init", "tool", "output", "started"} /\ ~(Kind(0) = "ended" /\ Line[0].task \in tasks.pending)
    <3>1. tasks' = tasks
      BY <2>4 DEF Claude!Tracked, Kind
    <3>2. ~Started(t, 0) /\ (Ended(t, 0) => t \notin tasks.pending)
      BY <2>4 DEF Ended, Started, Kind
    <3>3. QED
      BY <3>1, <3>2
  <2>5. QED
    BY <2>1, <2>2, <2>3, <2>4
<1>4. ASSUME NEW i \in 1..Last + 1, Clear(i) PROVE Clear(i)' /\ Kind(0) \notin {"init", "tool"}
  BY ONLY <1>1, <1>4 DEF Clear, Boundary, Kind
<1>5. ASSUME NEW i \in 1..Last + 1, Known(t, i), ~Ended(t, 0) PROVE Known(t, i)'
  BY ONLY <1>1, <1>3, <1>5 DEF Known, Started
<1>6. ASSUME NEW i \in 1..Last + 1, Runs(t, i) PROVE Runs(t, i)'
  <2>1. ~Ended(t, 0)
    BY ONLY <1>1, <1>6 DEF Runs
  <2>2. \A j \in 0..Last' : j < i => ~Ended(t, j)'
    BY ONLY <1>1, <1>6 DEF Runs, Ended
  <2>3. QED
    BY <1>5, <1>6, <2>1, <2>2 DEF Runs
<1>7. ASSUME NEW i \in 1..Last + 1, Untold(t, i) PROVE Untold(t, i)'
  <2>1. CASE t \in tasks.undelivered /\ Clear(i)
    BY <1>3, <1>4, <2>1 DEF Untold
  <2>2. ASSUME NEW j \in 0..Last, j < i, Ended(t, j), Known(t, j), \A k \in 0..Last : j < k /\ k < i => ~Boundary(k)
        PROVE  Untold(t, i)'
    <3>1. CASE j = 0
      <4>1. t \in tasks.pending
        BY ONLY <1>1, <2>2, <3>1 DEF Known
      <4>2. t \in tasks'.undelivered
        BY <1>3, <2>2, <3>1, <4>1
      <4>3. Clear(i)'
        BY ONLY <1>1, <2>2, <3>1 DEF Clear, Boundary, Kind
      <4>4. QED
        BY <4>2, <4>3 DEF Untold
    <3>2. CASE j # 0
      <4>1. ~Ended(t, 0) /\ j \in 1..Last + 1 /\ j \in 0..Last' /\ Ended(t, j)'
        BY <1>1, <2>2, <3>2 DEF Ended
      <4>2. Known(t, j)'
        BY <1>5, <2>2, <4>1
      <4>3. \A k \in 0..Last' : j < k /\ k < i => ~Boundary(k)'
        BY ONLY <1>1, <2>2 DEF Boundary, Kind
      <4>4. QED
        BY ONLY <2>2, <4>1, <4>2, <4>3 DEF Untold
    <3>3. QED
      BY <3>1, <3>2
  <2>3. QED
    BY <1>7, <2>1, <2>2 DEF Untold
<1>8. ASSUME NEW i \in 0..Last, Opened(i) PROVE Opened(i)'
  BY ONLY <1>1, <1>8 DEF Opened, Kind
<1>9. PICK m \in 1..Last + 1 : m = Last + 1
  BY <1>1
<1>10. (Runs(t, m) => Runs(t, m)') /\ (Untold(t, m) => Untold(t, m)') /\ m = Last' + 1
  BY <1>1, <1>6, <1>7, <1>9
<1>11. \A i, j \in 0..Last' : Ended(t, i)' /\ Ended(t, j)' => i = j
  <2>1. \A i \in 0..Last' : Ended(t, i)' => Ended(t, i)
    BY ONLY <1>1 DEF Ended
  <2>2. QED
    BY <1>1, <2>1
<1>12. QED
  BY <1>4, <1>6, <1>7, <1>8, <1>9, <1>10, <1>11

\* A step of the CLI keeps what is known of the tasks.
LEMMA CliKeepsTasks ==
    ASSUME ClaudeInv, SentIsBounded, WorkTypes, WorkIsKnown, EndsAreQueued, PromptIsFirst, MessagesAreKept, TasksAreKept,
           UNCHANGED part, CliMoves, mode' # "gone", unsure = {}
    PROVE  TasksAreKept'
<1> USE DEF trackers, outcome, work
<1> DEFINE K1 == \A t \in live' : Runs(t, Last + 1)'
           K2 == \A t \in queued' \cap Jobs : Untold(t, Last + 1)'
           K3 == \A t \in Jobs : \A i, j \in 0..Last' : Ended(t, i)' /\ Ended(t, j)' => i = j
           W(i) == \/ \E t \in Jobs : Runs(t, i)' \/ Untold(t, i)'
                   \/ Rests' /\ queued' = {}
                   \/ steers'.undelivered # {} /\ Clear(i)' /\ (Rests' \/ Opened(i)')
           K4 == \A i \in 0..Last' : Line'[i].kind = "result" => W(i)
           K5 == "steer" \in window' /\ demoted' = "result" => Rests' \/ \E i \in 0..Last' : Line'[i].kind = "init"
<1>0. /\ ClaudeTypes /\ Last \in Nat /\ 0 \in 0..Last /\ Jobs' = Jobs /\ live \subseteq Jobs
      /\ UNCHANGED <<trackers, outcome>> /\ -1 \notin Jobs
  BY LineTypes, ClaudeConstants DEF ClaudeInv, WorkTypes, Jobs, CliMoves
<1>1. ASSUME K1, K2, K3, K4, K5 PROVE TasksAreKept'
  BY <1>0, <1>1 DEF TasksAreKept, Kind
<1>2. CASE Cleans
  <2>1. /\ Last = 0 /\ Kind(0) = "pending" /\ live' = {} /\ queued' \cap Jobs = {} /\ Last' = 3
        /\ Line'[0] = Line[0]
        /\ Line'[1] = [kind |-> "ended", task |-> -1]
        /\ Line'[2] = [kind |-> "init", task |-> 0]
        /\ Line'[3] = [kind |-> "empty", task |-> 0]
    BY <1>0, <1>2 DEF PromptIsFirst, Cleans
  <2>2. \A i \in 0..Last' : i \in {0, 1, 2, 3}
    BY <2>1
  <2>3. /\ Line'[0].kind = "pending" /\ Line'[1].kind = "ended" /\ Line'[2].kind = "init" /\ Line'[3].kind = "empty"
        /\ Line'[1].task = -1 /\ 2 \in 0..Last'
    BY <2>1 DEF Kind
  <2>4. K3
    <3>1. ASSUME NEW t \in Jobs, NEW i \in 0..Last', Line'[i] = [kind |-> "ended", task |-> t] PROVE FALSE
      <4>1. Line'[i].kind = "ended" /\ Line'[i].task # -1
        BY <1>0, <3>1
      <4>2. QED
        BY ONLY <2>2, <2>3, <4>1
    <3>2. QED
      BY <3>1 DEF Ended
  <2>5. K1 /\ K2
    BY <2>1
  <2> HIDE DEF W
  <2>6. K4 /\ K5
    BY ONLY <2>2, <2>3
  <2>7. QED
    BY ONLY <1>1, <2>4, <2>5, <2>6
<1> HIDE DEF K1, K2, K3, K4, K5, W
\* All other steps tell one thing.
<1> DEFINE Passes(i) ==
             /\ Clear(i) => Clear(i)'
             /\ \A t : (Runs(t, i) => Runs(t, i)') /\ (Untold(t, i) => Untold(t, i)')
<1>3. ASSUME NEW note, Comes(note)
      PROVE  /\ \A t : Runs(t, Last + 1) /\ note # [kind |-> "ended", task |-> t] => Runs(t, Last + 1)'
             /\ \A t : Untold(t, Last + 1) /\ note.kind \notin {"init", "tool"} => Untold(t, Last + 1)'
             /\ \A t : note = [kind |-> "started", task |-> t] /\ (\A j \in 0..Last : ~Ended(t, j)) => Runs(t, Last + 1)'
             /\ \A t : note = [kind |-> "ended", task |-> t] /\ Known(t, Last + 1) => Untold(t, Last + 1)'
             /\ note.kind = "init" => \A i \in 0..Last : Opened(i)'
             /\ \A i \in 0..Last : Opened(i) => Opened(i)'
             /\ \A i \in 0..Last + 1 : Passes(i)
             /\ Last' = Last + 1 /\ Line'[Last + 1] = note /\ Last + 1 \in 0..Last' /\ Last + 1 \in 0..Last + 1
             /\ \A i \in 0..Last : Line'[i] = Line[i] /\ i \in 0..Last' /\ i \in 0..Last + 1
             /\ \A i \in 0..Last' : i \in 0..Last \/ i = Last + 1
  <2>1. ASSUME NEW t
        PROVE  /\ Runs(t, Last + 1) /\ note # [kind |-> "ended", task |-> t] => Runs(t, Last + 1)'
               /\ Untold(t, Last + 1) /\ note.kind \notin {"init", "tool"} => Untold(t, Last + 1)'
               /\ note = [kind |-> "started", task |-> t] /\ (\A j \in 0..Last : ~Ended(t, j)) => Runs(t, Last + 1)'
               /\ note = [kind |-> "ended", task |-> t] /\ Known(t, Last + 1) => Untold(t, Last + 1)'
               /\ note.kind = "init" => \A i \in 0..Last : Opened(i)'
    BY <1>0, <1>3, GrowthAdds
  <2>2. ASSUME NEW t
        PROVE  /\ \A i \in 0..Last + 1 :
                    /\ Clear(i) => Clear(i)'
                    /\ (Runs(t, i) => Runs(t, i)') /\ (Untold(t, i) => Untold(t, i)')
               /\ \A i \in 0..Last : Opened(i) => Opened(i)'
    BY <1>0, <1>3, GrowthKeeps
  <2>3. \A i \in 0..Last + 1 : Passes(i)
    BY ONLY <2>2
  <2> HIDE DEF Passes
  <2>4. /\ Last' = Last + 1 /\ Line'[Last + 1] = note /\ Last + 1 \in 0..Last' /\ Last + 1 \in 0..Last + 1
        /\ \A i \in 0..Last : Line'[i] = Line[i] /\ i \in 0..Last' /\ i \in 0..Last + 1
        /\ \A i \in 0..Last' : i \in 0..Last \/ i = Last + 1
    BY <1>0, <1>3 DEF Comes
  <2>5. (note.kind = "init" => \A i \in 0..Last : Opened(i)') /\ \A i \in 0..Last : Opened(i) => Opened(i)'
    BY ONLY <2>1, <2>2
  <2>6. QED
    BY ONLY <2>1, <2>3, <2>4, <2>5
\* The last result is one that is not on the line yet.
<1>4. PICK n : n = Last + 1
  OBVIOUS
<1>5. ASSUME NEW note, Comes(note), note.kind # "result" \/ W(n),
             Rests => note.kind = "init", ~(Rests /\ queued = {})
      PROVE  K4 /\ K5
  <2>1. ASSUME NEW i \in 0..Last, Line[i].kind = "result" PROVE W(i)
    <3>1. \/ \E t \in Jobs : Runs(t, i) \/ Untold(t, i)
          \/ steers.undelivered # {} /\ Clear(i) /\ (Rests \/ Opened(i))
      BY <1>5, <2>1 DEF TasksAreKept, Kind
    <3>2. i \in 0..Last + 1
      BY <1>0
    <3>3. CASE \E t \in Jobs : Runs(t, i) \/ Untold(t, i)
      <4>1. \E t \in Jobs : Runs(t, i)' \/ Untold(t, i)'
        <5>1. \A t : (Runs(t, i) => Runs(t, i)') /\ (Untold(t, i) => Untold(t, i)')
          BY ONLY <1>3, <1>5, <3>2
        <5>2. QED
          BY ONLY <3>3, <5>1
      <4>2. QED
        BY ONLY <4>1 DEF W
    <3>4. CASE steers.undelivered # {} /\ Clear(i) /\ (Rests \/ Opened(i))
      <4>1. Clear(i)' /\ Opened(i)'
        BY ONLY <1>3, <1>5, <2>1, <3>2, <3>4
      <4>2. UNCHANGED steers
        BY <1>0
      <4>3. QED
        BY ONLY <3>4, <4>1, <4>2 DEF W
    <3>5. QED
      BY <3>1, <3>3, <3>4
  <2>2. K4
    BY ONLY <1>3, <1>5, <1>4, <2>1 DEF K4
  <2>3. K5
    <3>1. ASSUME "steer" \in window', demoted' = "result" PROVE \E i \in 0..Last' : Line'[i].kind = "init"
      <4>1. Rests \/ \E i \in 0..Last : Line[i].kind = "init"
        BY <1>0, <3>1 DEF TasksAreKept, Kind
      <4>2. QED
        BY ONLY <1>3, <1>5, <4>1
    <3>2. QED
      BY <3>1 DEF K5
  <2>4. QED
    BY <2>2, <2>3
<1>6. ASSUME NEW note, Comes(note), \A t \in Jobs : note # [kind |-> "ended", task |-> t] PROVE K3
  <2>1. ASSUME NEW t \in Jobs, NEW i \in 0..Last', Ended(t, i)' PROVE i \in 0..Last /\ Ended(t, i)
    BY ONLY <1>3, <1>6, <2>1 DEF Ended
  <2>2. QED
    BY <2>1 DEF K3, TasksAreKept
<1>7. ASSUME NEW kind, NEW t, Comes([kind |-> kind, task |-> t]), kind \notin {"ended", "result"},
             UNCHANGED live, queued' = {} \/ (queued' = queued /\ kind \notin {"init", "tool"}),
             Rests => kind = "init", ~(Rests /\ queued = {})
      PROVE  TasksAreKept'
  <2> DEFINE note == [kind |-> kind, task |-> t]
  <2>1. /\ \A job : note # [kind |-> "ended", task |-> job]
        /\ note.kind = kind /\ Comes(note)
    BY <1>7
  <2> HIDE DEF note
  <2>2. K1
    <3>1. \A job \in live' : Runs(job, Last + 1)
      BY <1>7 DEF TasksAreKept
    <3>2. QED
      BY ONLY <1>3, <2>1, <3>1 DEF K1
  <2>3. K2
    <3>1. \A job \in queued \cap Jobs : Untold(job, Last + 1)
      BY DEF TasksAreKept
    <3>2. QED
      BY ONLY <1>3, <1>7, <2>1, <3>1 DEF K2
  <2>4. K3
    BY <1>6, <2>1
  <2>5. K4 /\ K5
    BY <1>5, <1>7, <2>1
  <2>6. QED
    BY <1>1, <2>2, <2>3, <2>4, <2>5
<1>8. CASE Opens
  <2>1. Comes([kind |-> "init", task |-> 0]) /\ UNCHANGED live /\ queued' = {} /\ queued # {}
    BY <1>8 DEF Opens, CarriesAll
  <2>2. QED
    BY <1>7, <2>1
<1>9. CASE Continues \/ Speaks \/ IsCut
  <2>1. /\ UNCHANGED live /\ ~Rests
        /\ \/ queued' = {} /\ Comes([kind |-> "tool", task |-> 0])
           \/ queued' = queued /\ \E kind \in {"output", "settle"} : Comes([kind |-> kind, task |-> 0])
    BY <1>9 DEF Continues, Speaks, IsCut, CarriesAll, WorkIsKnown, Rests
  <2>2. QED
    BY <1>7, <2>1
<1>10. CASE Concludes
  <2>1. PICK kind \in {"result", "error"} : Comes([kind |-> kind, task |-> 0])
    BY <1>10 DEF Concludes
  <2>2. /\ mode = "spoke" /\ mode' = "idle" /\ UNCHANGED <<queued, live>> /\ ~Rests /\ 0 \notin queued
    BY <1>10 DEF Concludes, PromptIsFirst, Rests
  <2>3. CASE kind = "error"
    BY <1>7, <2>1, <2>2, <2>3
  <2>4. CASE kind = "result"
    <3> DEFINE note == [kind |-> "result", task |-> 0]
    <3>1. /\ \A job : note # [kind |-> "ended", task |-> job]
          /\ note.kind = "result" /\ Comes(note)
      BY <2>1, <2>4
    <3> HIDE DEF note
    <3>2. K1
      <4>1. \A job \in live' : Runs(job, Last + 1)
        BY <2>2 DEF TasksAreKept
      <4>2. QED
        BY ONLY <1>3, <3>1, <4>1 DEF K1
    <3>3. K2
      <4>1. \A job \in queued' \cap Jobs : Untold(job, Last + 1)
        BY <2>2 DEF TasksAreKept
      <4>2. QED
        BY ONLY <1>3, <3>1, <4>1 DEF K2
    <3>4. K3
      BY <1>6, <3>1
    <3>5. W(n)
      <4>1. CASE live # {}
        <5>1. \E job \in Jobs : Runs(job, Last + 1)
          BY <1>0, <4>1 DEF TasksAreKept
        <5>2. n \in 0..Last + 1 /\ \E job \in Jobs : Runs(job, n)
          BY <1>3, <1>4, <3>1, <5>1
        <5>3. \E job \in Jobs : Runs(job, n)'
          BY ONLY <1>3, <3>1, <5>2
        <5>4. QED
          BY ONLY <5>3 DEF W
      <4>2. CASE queued \cap Jobs # {}
        <5>1. \E job \in Jobs : Untold(job, Last + 1)
          BY <4>2 DEF TasksAreKept
        <5>2. n \in 0..Last + 1 /\ \E job \in Jobs : Untold(job, n)
          BY <1>3, <1>4, <3>1, <5>1
        <5>3. \E job \in Jobs : Untold(job, n)'
          BY ONLY <1>3, <3>1, <5>2
        <5>4. QED
          BY ONLY <5>3 DEF W
      <4>3. CASE live = {} /\ queued \cap Jobs = {}
        <5>1. Rests'
          BY <1>0, <2>2, <4>3 DEF Rests
        <5>2. CASE queued = {}
          BY <2>2, <5>1, <5>2 DEF W
        <5>3. CASE queued # {}
          <6>1. Unheard # {}
            BY <2>2, <4>3, <5>3 DEF Unheard, WorkIsKnown
          <6>2. steers'.undelivered # {} /\ \A k \in 0..Last : ~Boundary(k)
            BY <1>0, <2>2, <6>1 DEF MessagesAreKept
          <6>3. n \in 0..Last + 1 /\ Clear(n)
            BY <1>3, <1>4, <3>1, <6>2 DEF Clear
          <6>4. Clear(n)'
            BY ONLY <1>3, <3>1, <6>3
          <6>5. QED
            BY ONLY <5>1, <6>2, <6>4 DEF W
        <5>4. QED
          BY <5>2, <5>3
      <4>4. QED
        BY <4>1, <4>2, <4>3
    <3>6. K4 /\ K5
      BY <1>5, <2>2, <3>1, <3>5
    <3>7. QED
      BY <1>1, <3>2, <3>3, <3>4, <3>6
  <2>5. QED
    BY <2>3, <2>4
<1>11. ASSUME NEW t \in Jobs, \A j \in 0..Last : ~Ended(t, j), Starts(t) PROVE TasksAreKept'
  <2> DEFINE note == [kind |-> "started", task |-> t]
  <2>1. /\ mode = "spoke" /\ live' = live \cup {t} /\ UNCHANGED queued /\ Comes(note) /\ ~Rests
    BY <1>11 DEF Starts, Rests
  <2>2. note.kind = "started" /\ (\A job : note # [kind |-> "ended", task |-> job]) /\ note = [kind |-> "started", task |-> t]
    OBVIOUS
  <2> HIDE DEF note
  <2>3. K1
    <3>1. \A job \in live : Runs(job, Last + 1)
      BY DEF TasksAreKept
    <3>2. QED
      BY ONLY <1>3, <1>11, <2>1, <2>2, <3>1 DEF K1
  <2>4. K2
    <3>1. \A job \in queued' \cap Jobs : Untold(job, Last + 1)
      BY <2>1 DEF TasksAreKept
    <3>2. QED
      BY ONLY <1>3, <2>1, <2>2, <3>1 DEF K2
  <2>5. K3
    BY <1>6, <2>1, <2>2
  <2>6. K4 /\ K5
    BY <1>5, <2>1, <2>2
  <2>7. QED
    BY <1>1, <2>3, <2>4, <2>5, <2>6
<1>12. ASSUME NEW t \in Jobs, \A j \in 0..Last : ~Ended(t, j), EndsJob(t) PROVE TasksAreKept'
  <2> DEFINE note == [kind |-> "ended", task |-> t]
  <2>1. /\ t \in live /\ live' = live \ {t} /\ queued' = queued \cup {t} /\ Comes(note) /\ ~Rests
    BY <1>12 DEF EndsJob, Rests
  <2>2. note.kind = "ended" /\ (\A job : job # t => note # [kind |-> "ended", task |-> job]) /\ note = [kind |-> "ended", task |-> t]
    <3>1. note.task = t /\ \A job : [kind |-> "ended", task |-> job].task = job
      OBVIOUS
    <3>2. QED
      BY <3>1
  <2> HIDE DEF note
  <2>3. K1
    <3>1. \A job \in live' : job # t /\ Runs(job, Last + 1)
      BY <2>1 DEF TasksAreKept
    <3>2. QED
      BY ONLY <1>3, <2>1, <2>2, <3>1 DEF K1
  <2>4. K2
    <3>1. (\A job \in queued \cap Jobs : Untold(job, Last + 1)) /\ Known(t, Last + 1)
      BY <2>1 DEF TasksAreKept, Runs
    <3>2. QED
      BY ONLY <1>3, <2>1, <2>2, <3>1 DEF K2
  <2>5. K3
    <3>1. ASSUME NEW job \in Jobs, NEW i \in 0..Last', Ended(job, i)'
          PROVE  \/ i \in 0..Last /\ Ended(job, i)
                 \/ i = Last + 1 /\ job = t
      BY ONLY <1>3, <2>1, <2>2, <3>1 DEF Ended
    <3>2. \A job \in Jobs : \A i, j \in 0..Last : Ended(job, i) /\ Ended(job, j) => i = j
      BY DEF TasksAreKept
    <3>3. QED
      BY ONLY <1>12, <3>1, <3>2 DEF K3
  <2>6. K4 /\ K5
    BY <1>5, <2>1, <2>2
  <2>7. QED
    BY <1>1, <2>3, <2>4, <2>5, <2>6
<1>13. ASSUME NEW t \in Jobs, Starts(t) \/ EndsJob(t) PROVE \A j \in 0..Last : ~Ended(t, j)
  <2>1. t \notin queued \cup heard /\ t # -1
    BY <1>0, <1>13 DEF Starts, EndsJob, WorkIsKnown
  <2>2. QED
    BY <2>1 DEF EndsAreQueued, Ended, Kind
<1>14. ~Dies
  BY DEF Dies
<1>15. QED
  BY <1>2, <1>8, <1>9, <1>10, <1>11, <1>12, <1>13, <1>14 DEF CliMoves

\* A step of the loop keeps what is known of the tasks.
LEMMA LoopKeepsTasks ==
    ASSUME ClaudeInv, SentIsBounded, WorkTypes, AnswersAlternate, TasksAreKept, UNCHANGED part, LoopMoves, unsure' = {}
    PROVE  TasksAreKept'
<1> USE DEF trackers, outcome, work
<1> DEFINE K1 == \A t \in live' : Runs(t, Last + 1)'
           K2 == \A t \in queued' \cap Jobs : Untold(t, Last + 1)'
           K3 == \A t \in Jobs : \A i, j \in 0..Last' : Ended(t, i)' /\ Ended(t, j)' => i = j
           W(i) == \/ \E t \in Jobs : Runs(t, i)' \/ Untold(t, i)'
                   \/ Rests' /\ queued' = {}
                   \/ steers'.undelivered # {} /\ Clear(i)' /\ (Rests' \/ Opened(i)')
           K4 == \A i \in 0..Last' : Line'[i].kind = "result" => W(i)
           K5 == "steer" \in window' /\ demoted' = "result" => Rests' \/ \E i \in 0..Last' : Line'[i].kind = "init"
           Waits(i) == \/ \E t \in Jobs : Runs(t, i) \/ Untold(t, i)
                       \/ Rests /\ queued = {}
                       \/ steers.undelivered # {} /\ Clear(i) /\ (Rests \/ Opened(i))
           Jobless == \E id : id \notin Jobs /\ queued' = queued \cup {id}
                              /\ steers' = [steers EXCEPT !.undelivered = @ \cup {id}]
                              /\ \A i \in 0..Last' : ~(Boundary(i)')
           Still == UNCHANGED queued /\ steers'.undelivered = steers.undelivered
           Moot  == UNCHANGED queued /\ Boundary(0)
<1>0. /\ ClaudeTypes /\ Last \in Nat /\ 0 \in 0..Last /\ Jobs' = Jobs /\ UNCHANGED <<mode, live>>
      /\ \A msg \in c_ctask \cup c_waiting : msg.id \notin Jobs
      /\ tasks \in TaskTracks /\ steers \in SteerTracks
  BY LineTypes, LoopLines, MessagesAreNew DEF ClaudeInv, WorkTypes, Jobs
<1>1. ASSUME K1, K2, K3, K4, K5 PROVE TasksAreKept'
  BY <1>0, <1>1 DEF TasksAreKept, Kind
<1>2. /\ \A t \in live : Runs(t, Last + 1)
      /\ \A t \in queued \cap Jobs : Untold(t, Last + 1)
      /\ \A t \in Jobs : \A i, j \in 0..Last : Ended(t, i) /\ Ended(t, j) => i = j
      /\ \A i \in 0..Last : Line[i].kind = "result" => Waits(i)
      /\ "steer" \in window /\ demoted = "result" => Rests \/ \E i \in 0..Last : Line[i].kind = "init"
  BY DEF TasksAreKept, Kind
<1>3. /\ Still \/ Moot => Rests' = Rests
      /\ Jobless => (Rests => Rests') /\ steers'.undelivered # {} /\ queued' \cap Jobs = queued \cap Jobs
  <2>1. Still \/ Moot => Rests' = Rests
    BY <1>0 DEF Rests
  <2>2. ASSUME Jobless PROVE (Rests => Rests') /\ steers'.undelivered # {} /\ queued' \cap Jobs = queued \cap Jobs
    <3>1. PICK id : /\ id \notin Jobs /\ queued' = queued \cup {id}
                    /\ steers' = [steers EXCEPT !.undelivered = @ \cup {id}]
      BY <2>2
    <3>2. steers'.undelivered = steers.undelivered \cup {id}
      BY <1>0, <3>1 DEF SteerTracks
    <3>3. QED
      BY <1>0, <3>1, <3>2 DEF Rests
  <2>3. QED
    BY <2>1, <2>2
\* What is waited for at place h before the step is waited for at place i after it.
<1>4. ASSUME NEW h, NEW i \in 0..Last', Waits(h), Still \/ Jobless \/ (Moot /\ ~Clear(h)),
             Clear(h) => Clear(i)', Opened(h) => Opened(i)',
             \A t \in Jobs : (Runs(t, h) => Runs(t, i)') /\ (Untold(t, h) => Untold(t, i)')
      PROVE  W(i)
  <2>1. CASE \E t \in Jobs : Runs(t, h) \/ Untold(t, h)
    <3>1. \E t \in Jobs : Runs(t, i)' \/ Untold(t, i)'
      BY ONLY <1>4, <2>1
    <3>2. QED
      BY ONLY <3>1
  <2>2. CASE Jobless /\ ((Rests /\ queued = {}) \/ (steers.undelivered # {} /\ Clear(h) /\ (Rests \/ Opened(h))))
    <3>1. Clear(i)'
      BY <2>2 DEF Clear
    <3>2. Rests' \/ Opened(i)'
      BY <1>3, <1>4, <2>2
    <3>3. QED
      BY ONLY <1>3, <2>2, <3>1, <3>2
  <2>3. CASE (Still \/ Moot) /\ Rests /\ queued = {}
    BY <1>3, <2>3
  <2>4. CASE Still /\ steers.undelivered # {} /\ Clear(h) /\ (Rests \/ Opened(h))
    BY ONLY <1>3, <1>4, <2>4
  <2>5. QED
    BY ONLY <1>4, <2>1, <2>2, <2>3, <2>4
<1>5. Still \/ Jobless \/ Moot => queued' \cap Jobs = queued \cap Jobs
  BY <1>3
<1> HIDE DEF W, Waits, Still, Jobless, Moot, K1, K2, K3, K4, K5
\* The line is as it was.
<1>6. ASSUME UNCHANGED <<tasks, Last, Line>>, Still \/ Jobless, K5 PROVE TasksAreKept'
  <2>1. /\ \A t, i : (Runs(t, i) => Runs(t, i)') /\ (Untold(t, i) => Untold(t, i)')
        /\ \A i : (Clear(i) => Clear(i)') /\ (Opened(i) => Opened(i)')
        /\ \A t : Runs(t, Last + 1) => Runs(t, Last + 1)'
        /\ \A t : Untold(t, Last + 1) => Untold(t, Last + 1)'
        /\ \A t, i : Ended(t, i)' => Ended(t, i)
    BY <1>6 DEF Runs, Untold, Clear, Opened, Known, Started, Ended, Boundary, Kind
  <2>2. K1 /\ K2
    BY ONLY <1>0, <1>2, <1>5, <1>6, <2>1 DEF K1, K2
  <2>3. K3
    BY ONLY <1>2, <1>6, <2>1 DEF K3
  <2>4. ASSUME NEW i \in 0..Last', Line'[i].kind = "result" PROVE W(i)
    <3>1. Waits(i)
      BY ONLY <1>2, <1>6, <2>4
    <3>2. QED
      BY ONLY <1>4, <1>6, <2>1, <2>4, <3>1
  <2>5. QED
    BY ONLY <1>1, <1>6, <2>2, <2>3, <2>4 DEF K4
<1>7. CASE Returns
  <2>1. Shifts /\ UNCHANGED <<tasks, steers, queued, window, demoted>>
    BY <1>7 DEF Returns
  <2>2. ASSUME NEW t
        PROVE  /\ \A i \in 0..Last' + 1 :
                    /\ Clear(i + 1) => Clear(i)'
                    /\ (Runs(t, i + 1) => Runs(t, i)') /\ (Untold(t, i + 1) => Untold(t, i)')
               /\ \A i \in 0..Last' : Opened(i + 1) => Opened(i)'
               /\ Runs(t, Last + 1) => Runs(t, Last + 1)'
               /\ Untold(t, Last + 1) => Untold(t, Last + 1)'
    BY <1>0, <2>1, ShiftKeeps
  <2>3. /\ \A i \in 0..Last' : i + 1 \in 0..Last /\ Line'[i] = Line[i + 1] /\ i \in 0..Last' + 1
        /\ \A i, j \in 0..Last' : i + 1 = j + 1 => i = j
        /\ \A i \in 0..Last : i = 0 \/ (i - 1 \in 0..Last' /\ Line'[i - 1] = Line[i])
        /\ Line[0].kind = "pending"
    BY <1>0, <2>1 DEF Shifts, NoNote
  <2>4. K1 /\ K2
    BY ONLY <1>0, <1>2, <2>1, <2>2 DEF K1, K2
  <2>5. K3
    BY ONLY <1>2, <2>3 DEF K3, Ended
  <2>6. Still
    BY <2>1 DEF Still
  <2>7. ASSUME NEW i \in 0..Last', Line'[i].kind = "result" PROVE W(i)
    <3>1. PICK h : h = i + 1
      OBVIOUS
    <3>2. Waits(h)
      BY ONLY <1>2, <2>3, <2>7, <3>1
    <3>3. (Clear(h) => Clear(i)') /\ (Opened(h) => Opened(i)')
      BY ONLY <2>2, <2>3, <2>7, <3>1
    <3>4. \A t \in Jobs : (Runs(t, h) => Runs(t, i)') /\ (Untold(t, h) => Untold(t, i)')
      BY ONLY <2>2, <2>3, <2>7, <3>1
    <3>5. QED
      BY ONLY <1>4, <2>6, <2>7, <3>2, <3>3, <3>4
  <2>8. K5
    BY ONLY <1>2, <1>3, <2>1, <2>3, <2>6 DEF K5
  <2>9. QED
    BY ONLY <1>1, <2>4, <2>5, <2>7, <2>8 DEF K4
\* The loop looks at a message.
<1>8. ASSUME Looks, tasks' = Claude!Tracked(Line[0]), Still \/ Jobless \/ Moot, K5 PROVE TasksAreKept'
  <2>1. ASSUME NEW t \in Jobs
        PROVE  /\ \A i \in 1..Last + 1 :
                    /\ Clear(i) => Clear(i)'
                    /\ (Runs(t, i) => Runs(t, i)') /\ (Untold(t, i) => Untold(t, i)')
               /\ Runs(t, Last + 1) => Runs(t, Last + 1)'
               /\ Untold(t, Last + 1) => Untold(t, Last + 1)'
               /\ \A i, j \in 0..Last' : Ended(t, i)' /\ Ended(t, j)' => i = j
    BY <1>0, <1>2, <1>8, LookKeeps
  <2>2. \A i \in 1..Last + 1 : Clear(i) => Clear(i)'
    BY <1>0, <1>8 DEF Looks, Clear, Boundary, Kind, NoNote
  <2>3. \A i \in 0..Last : Opened(i) => Opened(i)'
    BY <1>0, <1>8 DEF Looks, Opened, Kind
  <2>4. /\ Last' = Last /\ Line'[0].kind = "pending" /\ live \subseteq Jobs
        /\ \A i \in 0..Last : i = 0 \/ (i \in 1..Last + 1 /\ Line'[i] = Line[i])
    BY <1>0, <1>8 DEF Looks, NoNote, WorkTypes
  <2>5. K1 /\ K2
    BY ONLY <1>0, <1>2, <1>5, <1>8, <2>1, <2>4 DEF K1, K2
  <2>6. K3
    BY ONLY <2>1 DEF K3
  <2>7. ASSUME NEW i \in 0..Last', Line'[i].kind = "result" PROVE W(i)
    <3>1. i \in 1..Last + 1 /\ i \in 0..Last /\ Waits(i)
      BY ONLY <1>2, <2>4, <2>7
    <3>2. (Clear(i) => Clear(i)') /\ (Opened(i) => Opened(i)')
      BY ONLY <2>2, <2>3, <3>1
    <3>3. \A t \in Jobs : (Runs(t, i) => Runs(t, i)') /\ (Untold(t, i) => Untold(t, i)')
      BY ONLY <2>1, <3>1
    <3>4. Moot => ~Clear(i)
      <4>1. 0 \in 0..Last /\ 0 < i
        BY <1>0, <3>1
      <4>2. QED
        BY ONLY <4>1 DEF Moot, Clear
    <3>5. QED
      BY ONLY <1>4, <1>8, <2>7, <3>1, <3>2, <3>3, <3>4
  <2>8. QED
    BY ONLY <1>1, <1>8, <2>5, <2>6, <2>7 DEF K4
<1>9. Kind(0) \in Verdicts => Claude!Tracked(Line[0]) = tasks
  BY DEF Kind, Verdicts, Claude!Tracked
<1>10. ASSUME Looks PROVE \A i \in 0..Last : Line[i].kind = "init" /\ i # 0 => i \in 0..Last' /\ Line'[i].kind = "init"
  BY <1>0, <1>10 DEF Looks
<1>11. CASE Listens \/ \E msg \in c_ctask : Asks(msg)
  <2>1. UNCHANGED <<tasks, Last, Line, queued, steers, window, demoted>>
    BY <1>11 DEF Listens, Asks
  <2>2. Still
    BY <2>1 DEF Still
  <2>3. K5
    BY ONLY <1>2, <1>3, <2>1, <2>2 DEF K5
  <2>4. QED
    BY <1>6, <2>1, <2>2, <2>3
<1>12. ASSUME NEW msg \in c_ctask \cup c_waiting, Gives(msg) PROVE TasksAreKept'
  <2>1. ~("steer" \in window') /\ \A i \in 0..Last : Line'[i].kind \notin {"tool", "init", "error", "settle"}
    <3>1. unsure' # unsure \cup {msg.id}
      OBVIOUS
    <3>2. QED
      BY <1>12, <3>1 DEF Gives
  <2>2. /\ queued' = queued \cup {msg.id} /\ steers' = [steers EXCEPT !.undelivered = @ \cup {msg.id}]
        /\ UNCHANGED tasks /\ msg.id \notin Jobs
        /\ UNCHANGED <<Last, Line>> \/ (Kind(0) \in Verdicts /\ Looks)
    BY <1>0, <1>12 DEF Gives
  <2>3. \A i \in 0..Last' : ~(Boundary(i)')
    <3>1. Last' = Last
      BY <2>2 DEF Looks
    <3>2. QED
      BY <2>1, <3>1 DEF Boundary, Kind
  <2>4. Jobless
    BY <2>2, <2>3 DEF Jobless
  <2>5. K5
    BY <2>1 DEF K5
  <2>6. QED
    BY <1>6, <1>8, <1>9, <2>2, <2>4, <2>5
<1>13. CASE Keeps
  <2>1. Looks /\ Kind(0) \in Verdicts /\ UNCHANGED <<tasks, steers, queued, demoted>> /\ window' = window \cup {"resume"}
    BY <1>13 DEF Keeps, Verdicts
  <2>2. Still /\ Kind(0) # "init"
    BY <2>1 DEF Still, Verdicts
  <2>3. K5
    BY <1>2, <1>3, <1>10, <2>1, <2>2 DEF K5, Kind
  <2>4. QED
    BY <1>8, <1>9, <2>1, <2>2, <2>3
<1>14. CASE Demotes
  <2>1. Looks /\ Kind(0) \in Verdicts /\ UNCHANGED <<tasks, steers, queued>> /\ demoted' = Kind(0)
    BY <1>14 DEF Demotes, OwnVerdict
  <2>2. Still
    BY <2>1 DEF Still
  <2>3. ASSUME "steer" \in window', Kind(0) = "result" PROVE Rests' \/ \E i \in 0..Last' : Line'[i].kind = "init"
    <3>1. Claude!TasksWait = "no"
      <4>1. "steer" \notin window
        BY <1>0, <2>1 DEF AnswersAlternate
      <4>2. QED
        BY <1>14, <2>3, <4>1 DEF Demotes
    <3>2. tasks.pending = {} /\ tasks.undelivered = {}
      BY <3>1 DEF Claude!TasksWait
    <3>3. \A t : ~Runs(t, 0) /\ ~Untold(t, 0)
      <4>1. \A j \in 0..Last : ~(j < 0)
        BY <1>0
      <4>2. QED
        BY ONLY <3>2, <4>1 DEF Runs, Untold, Known
    <3>4. Rests \/ Opened(0)
      BY <1>0, <1>2, <2>3, <3>3 DEF Waits, Kind
    <3>5. CASE Rests
      BY <1>3, <2>2, <3>5
    <3>6. CASE Opened(0)
      <4>1. PICK k \in 0..Last : k > 0 /\ Line[k].kind = "init"
        BY <3>6 DEF Opened, Kind
      <4>2. QED
        BY <1>10, <2>1, <4>1
    <3>7. QED
      BY <3>4, <3>5, <3>6
  <2>4. K5
    BY <2>1, <2>3 DEF K5
  <2>5. QED
    BY <1>8, <1>9, <2>1, <2>2, <2>4
<1>15. CASE Watches
  <2>1. /\ Looks /\ tasks' = Claude!Tracked(Line[0]) /\ steers' = Claude!Steered(Line[0]) /\ UNCHANGED <<queued, demoted>>
        /\ window' \subseteq window /\ (Kind(0) = "init" => window' = {})
    BY <1>15 DEF Watches
  <2>2. K5
    <3>1. Rests' = Rests
      BY <1>0, <2>1 DEF Rests
    <3>2. QED
      BY <1>2, <1>10, <2>1, <3>1 DEF K5, Kind
  <2>3. CASE Kind(0) \in {"init", "tool"}
    BY <1>8, <2>1, <2>2, <2>3 DEF Moot, Boundary
  <2>4. CASE Kind(0) \notin {"init", "tool"}
    <3>1. steers'.undelivered = steers.undelivered
      BY <1>0, <2>1, <2>4 DEF Claude!Steered, Kind, SteerTracks
    <3>2. QED
      BY <1>8, <2>1, <2>2, <3>1 DEF Still
  <2>5. QED
    BY <2>3, <2>4
<1>16. QED
  BY <1>7, <1>11, <1>12, <1>13, <1>14, <1>15 DEF LoopMoves

LEMMA TasksAreKeptStep ==
    ASSUME ClaudeInv, SentIsBounded, Going, UNCHANGED part, CliMoves \/ LoopMoves, mode' # "gone", unsure' = {}
    PROVE  TasksAreKept'
<1> USE DEF work, outcome, trackers
<1>1. /\ WorkTypes /\ WorkIsKnown /\ EndsAreQueued /\ PromptIsFirst /\ AnswersAlternate /\ MessagesAreKept
      /\ mode # "gone" /\ unsure = {} => TasksAreKept
  BY DEF Going
<1>2. CASE CliMoves
  <2>1. unsure = {} /\ mode # "gone"
    BY <1>1, <1>2 DEF CliMoves, Cleans, Opens, Continues, Speaks, Concludes, IsCut, Dies, Starts, EndsJob, CarriesAll, WorkIsKnown
  <2>2. QED
    BY <1>1, <1>2, <2>1, CliKeepsTasks
<1>3. CASE LoopMoves
  <2>1. mode # "gone"
    BY <1>3, LoopLines
  <2>2. \A msg : Gives(msg) => unsure \subseteq unsure'
    BY DEF Gives
  <2>3. unsure = {}
    BY <1>3, <2>2 DEF LoopMoves, Listens, Returns, Asks, Watches, Keeps, Demotes
  <2>4. QED
    BY <1>1, <1>3, <2>1, <2>3, LoopKeepsTasks
<1>4. QED
  BY <1>2, <1>3

LEMMA GoingStep ==
    ASSUME ClaudeInv, SentIsBounded, Going, UNCHANGED part, CliMoves \/ LoopMoves
    PROVE  Going'
<1>1. /\ WorkTypes /\ WorkIsKnown /\ EndsAreQueued /\ PromptIsFirst /\ ChoresAreTold /\ CutByHand
      /\ AnswersAlternate /\ MessagesAreKept
  BY DEF Going
<1>2. WorkTypes' /\ WorkIsKnown' /\ EndsAreQueued'
  BY <1>1, WorkTypesStep, WorkIsKnownStep, EndsAreQueuedStep
<1>3. PromptIsFirst' /\ ChoresAreTold' /\ CutByHand'
  BY <1>1, PromptIsFirstStep, ChoresAreToldStep, CutByHandStep
<1>4. AnswersAlternate' /\ MessagesAreKept'
  BY <1>1, AnswersAlternateStep, MessagesAreKeptStep
<1>5. mode' # "gone" /\ unsure' = {} => TasksAreKept'
  BY TasksAreKeptStep
<1>6. QED
  BY <1>2, <1>3, <1>4, <1>5 DEF Going

-----------------------------------------------------------------------------
(* The end of the turn.                                                    *)

\* The body of ClaudeEndsRight.
EndsRight == Claude!PromptIsAnswered /\ Claude!TasksAreAwaited /\ Claude!MessagesAreHeard

\* A turn goes on as it should, and ends right.
TurnInv ==
    part \in {"claude", "talked"} =>
        SentIsBounded /\ (c_pc = "loop" => Going) /\ EndsRight

\* The prompt was in a call, unless an operator interrupted; no message waits
\* but an unsure one; and no task runs or is to be reported.
LEMMA SuccessIsEarned ==
    ASSUME ClaudeInv, SentIsBounded, Going, NEW r, Succeeds(r)
    PROVE  /\ Claude!Uncut => 0 \in heard
           /\ mode # "gone" => Unheard = {}
           /\ mode # "gone" /\ unsure = {} /\ ~gaveUp' => live = {} /\ queued \cap Jobs = {}
<1> USE DEF Going
<1>0. Last \in Nat /\ 0 \in 0..Last /\ \A j \in 0..Last : ~(j < 0)
  BY LineTypes DEF ClaudeInv
<1>1. demoted \in {"result", "empty"} /\ c_waiting = {} => (Claude!Uncut => 0 \in heard)
  BY DEF CutByHand, PromptIsFirst, WorkIsKnown
<1>2. CASE OwnVerdict /\ Kind(0) \notin {"error", "settle"} /\ Claude!TasksWait = "no" /\ ~Claude!SteersWait
  <2>1. Kind(0) = "result"
    BY <1>0, <1>2 DEF OwnVerdict, ChoresAreTold, Verdicts
  <2>2. 0 \in heard /\ 0 \notin queued
    BY <1>0, <2>1 DEF PromptIsFirst, WorkIsKnown, Ends
  <2>3. /\ tasks.pending = {} /\ tasks.undelivered = {}
        /\ steers.undelivered = {} /\ steers.staged = {}
    BY <1>2 DEF Claude!TasksWait, Claude!SteersWait
  <2>4. Unheard = {}
    BY <2>3 DEF MessagesAreKept
  <2>5. ASSUME mode # "gone", unsure = {} PROVE live = {} /\ queued \cap Jobs = {}
    <3>1. TasksAreKept
      BY <2>5
    <3>2. \A t : ~Runs(t, 0) /\ ~Untold(t, 0)
      BY ONLY <1>0, <2>3 DEF Runs, Untold, Known
    <3>3. Rests
      BY <1>0, <2>1, <2>3, <3>1, <3>2 DEF TasksAreKept
    <3>4. QED
      BY <3>3 DEF Rests
  <2>6. QED
    BY <2>2, <2>4, <2>5
<1>3. CASE /\ demoted \in {"result", "empty"} /\ c_waiting = {} /\ Last = 0 /\ Kind(0) = "pending"
           /\ (mode \in {"idle", "gone"} => queued \subseteq unsure)
           /\ "steer" \in window \/ (phase # "active" /\ gaveUp')
  <2>1. \A i \in 0..Last : Kind(i) # "init"
    BY <1>3
  <2>2. mode \notin {"call", "spoke"}
    BY <1>3, <2>1 DEF AnswersAlternate
  <2>3. queued \subseteq unsure
    BY <1>3, <2>2 DEF WorkTypes
  <2>4. Unheard = {}
    BY <2>3 DEF Unheard
  <2>5. ASSUME mode # "gone", unsure = {}, ~gaveUp' PROVE live = {} /\ queued \cap Jobs = {}
    <3>1. TasksAreKept
      BY <2>5
    <3>2. "steer" \in window /\ demoted = "result"
      BY <1>3, <2>5 DEF AnswersAlternate
    <3>3. Rests
      BY <2>1, <3>1, <3>2 DEF TasksAreKept
    <3>4. QED
      BY <3>3 DEF Rests
  <2>6. QED
    BY <1>1, <1>3, <2>4, <2>5
<1>4. CASE demoted \in {"result", "empty"} /\ Kind(0) \in Ends
  <2>1. mode = "gone"
    BY <1>0, <1>4, LineTypes DEF ClaudeInv, GoneIsTold, Kind
  <2>2. demoted = "empty" => ~Claude!Uncut
    BY DEF CutByHand
  <2>3. demoted = "result" => 0 \in heard
    BY DEF PromptIsFirst, WorkIsKnown
  <2>4. QED
    BY <1>4, <2>1, <2>2, <2>3
<1>5. QED
  BY <1>2, <1>3, <1>4 DEF Succeeds

LEMMA EndsWell ==
    ASSUME ClaudeInv, SentIsBounded, Going, UNCHANGED part,
           \A r \in c_result' : r.subtype = "success" => Succeeds(r)
    PROVE  EndsRight'
<1> USE DEF work, outcome
<1>1. ASSUME NEW r \in c_result', r.subtype = "success"
      PROVE  /\ Claude!Uncut' => 0 \in heard'
             /\ ~gaveUp' /\ unsure' = {} /\ mode' # "gone" => live' = {} /\ queued' \cap ClaudeTasks = {}
             /\ mode' # "gone" => Claude!Delivered' \subseteq heard' \cup unsure'
  <2>1. Succeeds(r)
    BY <1>1
  <2>2. UNCHANGED <<mode, queued, heard, live, c_surfaced, c_taken, unsure>>
    BY <2>1 DEF Succeeds
  <2>3. /\ Claude!Uncut => 0 \in heard
        /\ mode # "gone" => Unheard = {}
        /\ mode # "gone" /\ unsure = {} /\ ~gaveUp' => live = {} /\ queued \cap Jobs = {}
    BY <2>1, SuccessIsEarned
  <2>4. Claude!Uncut' = Claude!Uncut /\ Claude!Delivered' = Given
    BY <2>2 DEF Claude!Uncut, Claude!Delivered, Given
  <2>5. {0} \cup Given \subseteq queued \cup heard /\ queued \subseteq {0} \cup Given \cup Jobs
    BY DEF Going, WorkIsKnown
  <2>6. mode # "gone" => Given \subseteq heard \cup unsure
    BY <2>3, <2>5 DEF Unheard
  <2>7. 0 \notin ClaudeTasks
    BY HarnessAssumption DEF Claude!ClaudeTurnAssumption
  <2>8. ASSUME ~gaveUp', unsure = {}, mode # "gone" PROVE live = {} /\ queued \cap ClaudeTasks = {}
    <3>1. queued \cap Given = {}
      BY <2>6, <2>8 DEF Going, WorkIsKnown
    <3>2. QED
      BY <2>3, <2>5, <2>7, <2>8, <3>1
  <2>9. QED
    BY <2>2, <2>3, <2>4, <2>6, <2>8
<1>2. QED
  BY <1>1 DEF EndsRight, Claude!PromptIsAnswered, Claude!TasksAreAwaited, Claude!MessagesAreHeard

LEMMA SentIsBoundedStep ==
    ASSUME ClaudeInv, SentIsBounded, UNCHANGED part,
           \/ part = "claude" /\ Claude!OperatorSends
           \/ part = "talked" /\ Talked!OperatorSends
           \/ UNCHANGED c_sent
    PROVE  SentIsBounded'
<1>1. c_sent \in Nat
  BY DEF ClaudeInv, Placed
<1>2. ClaudeMsgs \in Nat /\ TalkedMsgs \in Nat
  BY HarnessAssumption DEF Claude!ClaudeTurnAssumption, Talked!ClaudeTurnAssumption
<1>3. CASE part = "claude" /\ Claude!OperatorSends
  BY <1>1, <1>2, <1>3 DEF SentIsBounded, Claude!OperatorSends
<1>4. CASE part = "talked" /\ Talked!OperatorSends
  BY <1>1, <1>2, <1>4 DEF SentIsBounded, Talked!OperatorSends
<1>5. CASE UNCHANGED c_sent
  BY <1>5 DEF SentIsBounded
<1>6. QED
  BY <1>3, <1>4, <1>5

LEMMA HarnessSendsNothing == Claude!Harness => UNCHANGED c_sent
  BY DEF Claude!Harness, Claude!StreamRead, Claude!ControlRead, Claude!TakeSteer, Claude!TakeInterrupt, Claude!TakeInterruptBetween,
         Claude!TakeEvent, Claude!TakeSettle, Claude!TakeHousekeeping, Claude!TakeResult, Claude!InterruptTimeout,
         Claude!SteerTimeout, Claude!ResumeTimeout, Claude!TaskTimeout, Claude!TakeGone

LEMMA GoingFirst ==
    ASSUME Claude!Init
    PROVE  SentIsBounded /\ Going /\ EndsRight
<1>1. /\ c_pc = "loop" /\ mode = "idle" /\ cutting = FALSE /\ queued = {0} /\ heard = {} /\ live = {} /\ c_wire = <<>>
      /\ c_stask = [kind |-> "pending", task |-> 0] /\ c_sent = 0 /\ phase = "active"
      /\ tasks = [pending |-> {}, undelivered |-> {}, staged |-> {}]
      /\ steers = [undelivered |-> {}, staged |-> {}]
      /\ window = {} /\ c_waiting = {} /\ demoted = "none" /\ c_surfaced = <<>> /\ c_result = {} /\ unsure = {}
  BY DEF Claude!Init
<1>2. resume \in ResumeState /\ (chores => resume.opening)
  <2>1. \E resumed \in BOOLEAN : /\ resume = [opening |-> resumed, orphan |-> FALSE, awaiting |-> FALSE]
                                 /\ chores => resumed
    BY DEF Claude!Init
  <2>2. QED
    BY <2>1 DEF ResumeState
<1>3. /\ ClaudeMsgs \in Nat /\ TalkedMsgs \in Nat /\ 0 \notin Jobs
  BY HarnessAssumption DEF Claude!ClaudeTurnAssumption, Talked!ClaudeTurnAssumption, Jobs
<1>4. Last = 0 /\ Given = {} /\ DOMAIN c_surfaced = {}
  BY <1>1 DEF Last, Given
<1>5. Line[0] = [kind |-> "pending", task |-> 0] /\ \A i \in 0..Last : i = 0
  BY <1>1, <1>4 DEF Line
<1>6. \A i \in 0..Last : Kind(i) = "pending"
  BY <1>5 DEF Kind
<1>7. SentIsBounded
  BY <1>1, <1>3 DEF SentIsBounded
<1>8. WorkTypes
  BY <1>1, <1>2, <1>6 DEF WorkTypes, TaskTracks, SteerTracks
<1>9. WorkIsKnown
  BY <1>1, <1>4 DEF WorkIsKnown
<1>10. EndsAreQueued /\ ChoresAreTold /\ CutByHand
  BY <1>1, <1>6 DEF EndsAreQueued, ChoresAreTold, CutByHand
<1>11. PromptIsFirst
  BY <1>1, <1>2, <1>3, <1>4, <1>6 DEF PromptIsFirst
<1>12. AnswersAlternate
  BY <1>1, <1>6 DEF AnswersAlternate, Verdicts
<1>13. MessagesAreKept
  BY <1>1, <1>4 DEF MessagesAreKept, Unheard
<1>14. TasksAreKept
  <2>1. \A t : \A i \in 0..Last : ~Ended(t, i)
    BY <1>6 DEF Ended, Kind
  <2>2. QED
    BY <1>1, <1>3, <1>6, <2>1 DEF TasksAreKept
<1>15. EndsRight
  BY <1>1 DEF EndsRight, Claude!PromptIsAnswered, Claude!TasksAreAwaited, Claude!MessagesAreHeard
<1>16. QED
  BY <1>7, <1>8, <1>9, <1>10, <1>11, <1>12, <1>13, <1>14, <1>15 DEF Going

LEMMA TurnRests == TurnInv /\ UNCHANGED <<part, claude>> => TurnInv'
<1> SUFFICES ASSUME TurnInv, UNCHANGED <<part, claude>> PROVE TurnInv'
  OBVIOUS
<1>1. UNCHANGED <<part, c_pc, mode, cutting, queued, heard, live, chores, c_wire, c_stask, c_sent, phase, tasks, steers,
                  resume, window, c_waiting, demoted, c_surfaced, c_result, c_taken, unsure, gaveUp>>
  BY DEF claude
<1>2. Last' = Last /\ Line' = Line /\ Given' = Given /\ Jobs' = Jobs
  BY <1>1 DEF Last, Line, Given, Jobs
<1>3. /\ SentIsBounded' = SentIsBounded /\ EndsRight' = EndsRight
      /\ WorkTypes' = WorkTypes /\ WorkIsKnown' = WorkIsKnown /\ EndsAreQueued' = EndsAreQueued
      /\ PromptIsFirst' = PromptIsFirst /\ ChoresAreTold' = ChoresAreTold /\ CutByHand' = CutByHand
  BY <1>1, <1>2 DEF SentIsBounded, EndsRight, WorkTypes, WorkIsKnown, EndsAreQueued, PromptIsFirst, ChoresAreTold, CutByHand,
       Kind, Ended, TaskTracks, SteerTracks, ResumeState, Verdicts, Ends, Claude!Uncut, Claude!PromptIsAnswered,
       Claude!TasksAreAwaited, Claude!MessagesAreHeard, Claude!Delivered
<1>4. AnswersAlternate' = AnswersAlternate /\ MessagesAreKept' = MessagesAreKept
  BY <1>1, <1>2 DEF AnswersAlternate, MessagesAreKept, Unheard, Boundary, Kind, Verdicts
<1>5. TasksAreKept' = TasksAreKept
  BY <1>1, <1>2 DEF TasksAreKept, Runs, Untold, Known, Clear, Opened, Rests, Started, Ended, Boundary, Kind
<1>6. Going' = Going
  BY <1>1, <1>3, <1>4, <1>5 DEF Going
<1>7. QED
  BY <1>1, <1>3, <1>6 DEF TurnInv

LEMMA TurnSteps ==
    ASSUME ClaudeInv, ClaudeInv', TurnInv, [Next]_vars
    PROVE  TurnInv'
<1>1. CASE UNCHANGED <<part, claude>>
  BY <1>1, TurnRests
<1>2. CASE part \in {"claude", "talked"} /\ Next
  <2>1. /\ UNCHANGED part /\ part \in {"claude", "talked"} /\ SentIsBounded /\ (c_pc = "loop" => Going)
    BY <1>2 DEF Next, TurnInv
  <2>2. (part = "claude" /\ Claude!Next) \/ (part = "talked" /\ Talked!Next)
    BY <1>2 DEF Next
  <2>3. c_pc' # "done" => EndsRight'
    <3>1. c_pc' # "done" => c_result' = {}
      BY DEF ClaudeInv, ClaudeTypes
    <3>2. QED
      BY <3>1 DEF EndsRight, Claude!PromptIsAnswered, Claude!TasksAreAwaited, Claude!MessagesAreHeard
  <2>4. CASE \/ Claude!CliWorks \/ Claude!CliGone \/ Claude!CliTool \/ Talked!CliTool
             \/ part = "claude" /\ \E t \in ClaudeTasks : Claude!CliStartsTask(t) \/ Claude!CliEndsTask(t)
    <3>1. c_pc = "loop" /\ CliMoves
      BY <2>1, <2>4, CliStepMoves DEF ClaudeInv
    <3>2. UNCHANGED <<c_pc, c_sent>>
      BY <3>1 DEF CliMoves
    <3>3. Going' /\ SentIsBounded'
      BY <2>1, <3>1, <3>2, GoingStep, SentIsBoundedStep
    <3>4. QED
      BY <2>3, <3>1, <3>2, <3>3 DEF TurnInv
  <2>5. CASE Claude!Harness \/ (part = "claude" /\ Claude!OperatorSends) \/ (part = "talked" /\ Talked!OperatorSends)
    <3>1. /\ c_pc = "loop"
          /\ \/ c_pc' = "loop" /\ LoopMoves
             \/ c_pc' # "loop" /\ \A r \in c_result' : r.subtype = "success" => Succeeds(r)
      BY <2>5, LoopStepMoves DEF ClaudeInv
    <3>2. SentIsBounded'
      BY <2>1, <2>5, HarnessSendsNothing, SentIsBoundedStep
    <3>3. CASE c_pc' = "loop" /\ LoopMoves
      BY <2>1, <2>3, <3>1, <3>2, <3>3, GoingStep DEF TurnInv
    <3>4. CASE c_pc' # "loop" /\ \A r \in c_result' : r.subtype = "success" => Succeeds(r)
      BY <2>1, <3>1, <3>2, <3>4, EndsWell DEF TurnInv
    <3>5. QED
      BY <3>1, <3>3, <3>4
  <2>6. QED
    BY <2>2, <2>4, <2>5, TalkedIsClaude DEF Claude!Next, Talked!Next
<1>3. CASE part \notin {"claude", "talked"} /\ Next
  <2>1. UNCHANGED part
    BY <1>3 DEF Next
  <2>2. QED
    BY <1>3, <2>1 DEF TurnInv
<1>4. UNCHANGED vars => UNCHANGED <<part, claude>>
  BY DEF vars
<1>5. QED
  BY <1>1, <1>2, <1>3, <1>4

LEMMA TurnIsKept == Spec => []TurnInv
<1>1. Init => TurnInv
  BY GoingFirst DEF Init, TurnInv
<1>2. ClaudeInv /\ ClaudeInv' /\ TurnInv /\ [Next]_vars => TurnInv'
  BY TurnSteps
<1>3. QED
  BY <1>1, <1>2, ClaudeInvariant, PTL DEF Spec

\* A Claude Code turn that succeeds answered its prompt, waited for the
\* background tasks and told the model of their ends, and gave it every
\* message of the operator but those of the recorded races - for any number of
\* tasks, messages and calls, and whatever order the CLI's messages, the
\* operator's, the deadlines and the CLI's death come in.
THEOREM ClaudeEnds == Spec => []ClaudeEndsRight
<1>1. TurnInv => ClaudeEndsRight
  BY DEF TurnInv, EndsRight, ClaudeEndsRight
<1>2. QED
  BY <1>1, TurnIsKept, PTL

-----------------------------------------------------------------------------
(* The types of all four components. What the invariants above leave out   *)
(* is a turn of Claude Code that is over; HarnessProofs types the others.  *)

\* The channel holds what the operator may send, the steer tracker messages
\* that were given to the CLI, and a turn that is over keeps what it had.
SteersIn(st) == st.undelivered \cup st.staged
OpsAreGiven ==
    /\ \A i \in 1..Len(c_inbox) : c_inbox[i].op \in ClaudeOps
    /\ \A m \in c_ctask \cup c_waiting : m.op \in ClaudeOps
WorkIsTyped ==
    /\ mode \in {"idle", "call", "spoke", "gone"} /\ phase \in {"active", "between"}
    /\ live \subseteq Jobs /\ tasks.pending \cup tasks.undelivered \cup tasks.staged \subseteq Jobs
    /\ window \subseteq {"tasks", "steer", "resume"} /\ demoted \in {"none"} \cup Verdicts
    /\ queued \cup heard \subseteq {0} \cup Given \cup Jobs
TurnIsTyped ==
    part \in {"claude", "talked"} =>
        /\ OpsAreGiven /\ SteersIn(steers) \subseteq Given /\ WorkIsTyped
        /\ c_pc = "done" => c_result # {}

LEMMA SeqOfParts ==
    ASSUME NEW S, NEW T, NEW s \in Seq(T), \A i \in 1..Len(s) : s[i] \in S
    PROVE  s \in Seq(S)
<1>1. Len(s) \in Nat /\ s = [i \in 1..Len(s) |-> s[i]]
  BY LenProperties
<1>2. QED
  BY <1>1

\* What the loop does to the channel, to the messages and when it ends.
LEMMA HarnessMoves ==
    ASSUME Claude!Harness
    PROVE  /\ \/ /\ c_inbox # <<>> /\ c_ctask' = {Head(c_inbox)} /\ c_inbox' = Tail(c_inbox) /\ UNCHANGED c_waiting
              \/ UNCHANGED c_inbox /\ c_ctask' \subseteq c_ctask /\ c_waiting' \subseteq c_waiting \cup c_ctask
           /\ \/ UNCHANGED c_surfaced /\ SteersIn(steers') \subseteq SteersIn(steers)
              \/ \E msg \in c_ctask \cup c_waiting :
                   /\ c_surfaced' = Append(c_surfaced, msg.id)
                   /\ steers' = [steers EXCEPT !.undelivered = @ \cup {msg.id}]
           /\ c_pc' # "loop" => /\ c_pc' = "done" => c_result' # {}
                                /\ window' \subseteq window
                                /\ UNCHANGED <<mode, live, queued, heard, c_surfaced, phase, demoted, tasks>>
<1> USE DEF Claude!TakesNote, Claude!TakesControl, Claude!TimesOut, Claude!Finish, Claude!Deliver
<1> USE DEF SteersIn
<1>1. CASE Claude!StreamRead \/ Claude!ControlRead
  BY <1>1 DEF Claude!StreamRead, Claude!ControlRead
<1>2. ASSUME NEW msg \in c_ctask, Claude!TakeSteer(msg) \/ Claude!TakeInterrupt(msg)
      PROVE  /\ UNCHANGED <<c_pc, c_inbox>> /\ c_pc = "loop" /\ c_ctask' = {} /\ c_waiting' \in {c_waiting, {msg}}
             /\ \/ UNCHANGED <<c_surfaced, steers>>
                \/ /\ c_surfaced' = Append(c_surfaced, msg.id)
                   /\ steers' = [steers EXCEPT !.undelivered = @ \cup {msg.id}]
  BY <1>2 DEF Claude!TakeSteer, Claude!TakeInterrupt
<1>3. ASSUME NEW msg \in c_ctask, Claude!TakeInterruptBetween(msg)
      PROVE  /\ UNCHANGED <<c_inbox, c_waiting>> /\ c_pc = "loop" /\ c_ctask' = {}
             /\ \/ /\ UNCHANGED <<c_surfaced, steers, mode, live, queued, heard, c_surfaced, phase, demoted, tasks, window>>
                   /\ c_result' # {}
                \/ /\ UNCHANGED c_pc /\ c_surfaced' = Append(c_surfaced, msg.id)
                   /\ steers' = [steers EXCEPT !.undelivered = @ \cup {msg.id}]
  BY <1>3 DEF Claude!TakeInterruptBetween
<1>4. CASE Claude!TakeEvent
  <2>1. /\ UNCHANGED <<c_pc, c_inbox, c_ctask, c_waiting, c_surfaced>> /\ c_pc = "loop" /\ steers' = Claude!Steered(c_stask)
    BY <1>4 DEF Claude!TakeEvent
  <2>2. SteersIn(steers') \subseteq SteersIn(steers)
    BY <2>1 DEF Claude!Steered
  <2>3. QED
    BY <2>1, <2>2
<1>5. CASE Claude!TakeSettle \/ Claude!InterruptTimeout
  <2>1. PICK msg \in c_waiting :
                   /\ UNCHANGED <<c_inbox, c_ctask>> /\ c_pc = "loop" /\ c_waiting' = {}
                   /\ \/ /\ UNCHANGED <<c_surfaced, steers, mode, live, queued, heard, c_surfaced, phase, demoted, tasks, window>>
                         /\ c_result' # {}
                      \/ /\ UNCHANGED c_pc /\ c_surfaced' = Append(c_surfaced, msg.id)
                         /\ steers' = [steers EXCEPT !.undelivered = @ \cup {msg.id}]
    BY <1>5 DEF Claude!TakeSettle, Claude!InterruptTimeout
  <2>2. QED
    BY <2>1
<1>6. CASE Claude!TakeHousekeeping
  BY <1>6 DEF Claude!TakeHousekeeping
<1>7. CASE Claude!TakeResult
  <2>1. /\ UNCHANGED <<c_inbox, c_ctask, c_waiting, c_surfaced, steers, mode, live, queued, heard, tasks>> /\ c_pc = "loop"
    BY <1>7 DEF Claude!TakeResult
  <2>2. UNCHANGED c_pc \/ (c_result' # {} /\ window' \subseteq window /\ UNCHANGED <<phase, demoted>>)
    BY <1>7 DEF Claude!TakeResult, Claude!Demote
  <2>3. QED
    BY <2>1, <2>2
<1>8. CASE Claude!SteerTimeout \/ Claude!ResumeTimeout \/ Claude!TaskTimeout
  <2>1. /\ UNCHANGED <<c_inbox, c_ctask, c_waiting, c_surfaced, mode, live, queued, heard, phase, demoted, tasks>>
        /\ c_result' # {} /\ window' \subseteq window
        /\ UNCHANGED steers \/ steers' = [undelivered |-> {}, staged |-> {}]
    BY <1>8 DEF Claude!SteerTimeout, Claude!ResumeTimeout, Claude!TaskTimeout
  <2>2. QED
    BY <2>1
<1>9. CASE Claude!TakeGone
  <2>1. UNCHANGED <<c_inbox, c_ctask, c_waiting, c_surfaced, steers, mode, live, queued, heard, phase, demoted, tasks, window>>
    BY <1>9 DEF Claude!TakeGone
  <2>2. c_pc' = "done" => c_result' # {}
    BY <1>9 DEF Claude!TakeGone
  <2>3. QED
    BY <2>1, <2>2
<1>10. QED
  <2>1. ASSUME NEW msg \in c_ctask, Claude!TakeSteer(msg) \/ Claude!TakeInterrupt(msg) \/ Claude!TakeInterruptBetween(msg)
        PROVE  /\ UNCHANGED c_inbox /\ c_ctask' \subseteq c_ctask /\ c_waiting' \subseteq c_waiting \cup c_ctask
               /\ \/ UNCHANGED <<c_surfaced, steers>>
                  \/ /\ c_surfaced' = Append(c_surfaced, msg.id)
                     /\ steers' = [steers EXCEPT !.undelivered = @ \cup {msg.id}]
               /\ c_pc' # "loop" => /\ c_pc' = "done" => c_result' # {}
                                    /\ window' \subseteq window
                                    /\ UNCHANGED <<mode, live, queued, heard, c_surfaced, phase, demoted, tasks>>
    BY <1>2, <1>3, <2>1
  <2>2. CASE \E msg \in c_ctask : Claude!TakeSteer(msg) \/ Claude!TakeInterrupt(msg) \/ Claude!TakeInterruptBetween(msg)
    BY <2>1, <2>2
  <2>3. QED
    BY <1>1, <1>4, <1>5, <1>6, <1>7, <1>8, <1>9, <2>2 DEF Claude!Harness

LEMMA TurnIsTypedStep ==
    ASSUME ClaudeInv, ClaudeInv', TurnInv, TurnInv', TurnIsTyped, [Next]_vars
    PROVE  TurnIsTyped'
<1>0. ASSUME part \in {"claude", "talked"}, UNCHANGED part, c_pc' = "loop" PROVE WorkIsTyped'
  <2>1. Going'
    BY <1>0 DEF TurnInv
  <2>2. WorkTypes' /\ WorkIsKnown'
    BY <2>1 DEF Going
  <2>3. QED
    BY <2>2 DEF WorkTypes, WorkIsKnown, WorkIsTyped, TaskTracks
<1>1. CASE UNCHANGED <<part, claude>>
  <2>1. UNCHANGED <<part, c_pc, mode, queued, heard, live, c_ctask, c_inbox, phase, tasks, steers, window, c_waiting, demoted,
                    c_surfaced, c_result>>
    BY <1>1 DEF claude
  <2>2. Jobs' = Jobs /\ Given' = Given
    BY <2>1 DEF Jobs, Given
  <2>3. QED
    BY <2>1, <2>2 DEF TurnIsTyped, OpsAreGiven, WorkIsTyped, SteersIn
<1>2. CASE part \notin {"claude", "talked"} /\ Next
  BY <1>2 DEF Next, TurnIsTyped
<1>3. CASE part \in {"claude", "talked"} /\ Next
  <2>1. /\ UNCHANGED part /\ part \in {"claude", "talked"} /\ OpsAreGiven /\ SteersIn(steers) \subseteq Given /\ WorkIsTyped
        /\ c_inbox \in Seq(ControlMsgs)
    BY <1>3 DEF Next, TurnIsTyped, ClaudeInv, Placed
  <2>2. (part = "claude" /\ Claude!Next) \/ (part = "talked" /\ Talked!Next)
    BY <1>3 DEF Next
  <2>3. CASE \/ Claude!CliWorks \/ Claude!CliGone \/ Claude!CliTool \/ Talked!CliTool
             \/ part = "claude" /\ \E t \in ClaudeTasks : Claude!CliStartsTask(t) \/ Claude!CliEndsTask(t)
    <3>1. c_pc = "loop" /\ UNCHANGED <<c_pc, c_ctask, c_inbox, c_waiting, c_surfaced, steers>>
      BY <2>3 DEF Claude!CliWorks, Claude!CliTool, Talked!CliTool, Claude!CliGone, Claude!CliStartsTask, Claude!CliEndsTask,
           Claude!CliChores, Claude!CliInit, Claude!CliOutput, Claude!CliResult, Claude!CliSettles, Claude!Cli, Talked!Cli
    <3>2. WorkIsTyped' /\ OpsAreGiven' /\ Given' = Given
      BY <1>0, <2>1, <3>1 DEF OpsAreGiven, Given
    <3>3. QED
      BY <2>1, <3>1, <3>2 DEF TurnIsTyped, SteersIn
  <2>4. CASE Claude!OperatorSends \/ Talked!OperatorSends
    <3>1. PICK op \in ClaudeOps : c_inbox' = Append(c_inbox, [id |-> c_sent + 1, op |-> op])
      BY <2>4 DEF Claude!OperatorSends, Talked!OperatorSends
    <3>2. c_pc = "loop" /\ UNCHANGED <<c_pc, c_ctask, c_waiting, c_surfaced, steers>>
      BY <2>4 DEF Claude!OperatorSends, Talked!OperatorSends
    <3>3. \A i \in 1..Len(c_inbox') : c_inbox'[i].op \in ClaudeOps
      <4> DEFINE m == [id |-> c_sent + 1, op |-> op]
      <4>1. m.op \in ClaudeOps
        OBVIOUS
      <4> HIDE DEF m
      <4>2. m \in ControlMsgs
        BY ClaudeConstants DEF m, ControlMsgs, ClaudeInv, Placed
      <4>3. /\ Len(c_inbox) \in Nat /\ Len(c_inbox') = Len(c_inbox) + 1 /\ c_inbox'[Len(c_inbox) + 1] = m
            /\ \A i \in 1..Len(c_inbox) : c_inbox'[i] = c_inbox[i]
        BY <2>1, <3>1, <4>2, AppendProperties, LenProperties DEF m
      <4>4. QED
        BY <2>1, <4>1, <4>3 DEF OpsAreGiven
    <3>4. WorkIsTyped' /\ OpsAreGiven' /\ Given' = Given
      BY <1>0, <2>1, <3>2, <3>3 DEF OpsAreGiven, Given
    <3>5. QED
      BY <2>1, <3>2, <3>4 DEF TurnIsTyped, SteersIn
  <2>5. CASE Claude!Harness
    <3>1. OpsAreGiven'
      <4>1. CASE c_inbox # <<>> /\ c_ctask' = {Head(c_inbox)} /\ c_inbox' = Tail(c_inbox) /\ UNCHANGED c_waiting
        <5>1. Len(c_inbox) \in Nat /\ Len(c_inbox) > 0 /\ Head(c_inbox) = c_inbox[1] /\ Len(c_inbox') = Len(c_inbox) - 1
              /\ \A i \in 1..Len(c_inbox') : c_inbox'[i] = c_inbox[i + 1]
          BY <2>1, <4>1, HeadTailProperties, LenProperties, EmptySeq
        <5>2. 1 \in 1..Len(c_inbox) /\ \A i \in 1..Len(c_inbox') : i + 1 \in 1..Len(c_inbox)
          BY <5>1
        <5>3. QED
          BY <2>1, <4>1, <5>1, <5>2 DEF OpsAreGiven
      <4>2. CASE UNCHANGED c_inbox /\ c_ctask' \subseteq c_ctask /\ c_waiting' \subseteq c_waiting \cup c_ctask
        BY <2>1, <4>2 DEF OpsAreGiven
      <4>3. QED
        BY <2>5, <4>1, <4>2, HarnessMoves
    <3>2. SteersIn(steers') \subseteq Given'
      <4>1. CASE UNCHANGED c_surfaced /\ SteersIn(steers') \subseteq SteersIn(steers)
        BY <2>1, <4>1 DEF Given
      <4>2. ASSUME NEW msg \in c_ctask \cup c_waiting, c_surfaced' = Append(c_surfaced, msg.id),
                   steers' = [steers EXCEPT !.undelivered = @ \cup {msg.id}]
            PROVE  SteersIn(steers') \subseteq Given'
        <5>1. msg.id \in Nat
          BY <4>2 DEF ClaudeInv, Placed, ControlMsgs
        <5>2. Given' = Given \cup {msg.id}
          BY <4>2, <5>1, GivenGrows
        <5>3. SteersIn(steers') \subseteq SteersIn(steers) \cup {msg.id}
          BY <4>2 DEF SteersIn
        <5>4. QED
          BY <2>1, <5>2, <5>3
      <4>3. QED
        BY <2>5, <4>1, <4>2, HarnessMoves
    <3>3. CASE c_pc' = "loop"
      BY <1>0, <2>1, <3>1, <3>2, <3>3 DEF TurnIsTyped
    <3>4. CASE c_pc' # "loop"
      <4>1. /\ c_pc' = "done" => c_result' # {}
            /\ window' \subseteq window
            /\ UNCHANGED <<mode, live, queued, heard, c_surfaced, phase, demoted, tasks>>
        BY <2>5, <3>4, HarnessMoves
      <4>2. Jobs' = Jobs /\ Given' = Given
        BY <2>1, <4>1 DEF Jobs, Given
      <4>3. WorkIsTyped'
        BY <2>1, <4>1, <4>2 DEF WorkIsTyped
      <4>4. QED
        BY <2>1, <3>1, <3>2, <4>1, <4>3 DEF TurnIsTyped
    <3>5. QED
      BY <3>3, <3>4
  <2>6. QED
    BY <2>2, <2>3, <2>4, <2>5, TalkedIsClaude DEF Claude!Next, Talked!Next
<1>4. QED
  <2>1. UNCHANGED vars => UNCHANGED <<part, claude>>
    BY DEF vars
  <2>2. QED
    BY <1>1, <1>2, <1>3, <2>1

LEMMA ClaudeTyped ==
    ASSUME ClaudeInv, TurnInv, TurnIsTyped
    PROVE  /\ part = "claude" => Claude!TypeOK
           /\ part = "talked" => Talked!TypeOK
<1> SUFFICES ASSUME part \in {"claude", "talked"}
             PROVE  /\ part = "claude" => Claude!TypeOK
                    /\ part = "talked" => Talked!TypeOK
  OBVIOUS
<1> DEFINE most == IF part = "claude" THEN ClaudeMsgs ELSE TalkedMsgs
<1>1. OpsAreGiven /\ SteersIn(steers) \subseteq Given /\ WorkIsTyped /\ (c_pc = "done" => c_result # {}) /\ ClaudeTypes
  BY DEF TurnIsTyped, ClaudeInv
<1>2. c_sent \in Nat /\ most \in Nat /\ c_sent <= most
  BY ClaudeConstants DEF TurnInv, SentIsBounded, ClaudeInv, Placed
<1>3. /\ c_inbox \in Seq(ControlMsgs) /\ c_surfaced \in Seq(Nat) /\ c_ctask \subseteq ControlMsgs /\ c_waiting \subseteq ControlMsgs
      /\ Len(c_inbox) \in Nat /\ Len(c_inbox) <= c_sent
      /\ \A i \in 1..Len(c_inbox) : c_inbox[i].id = c_sent - Len(c_inbox) + i
      /\ \A m \in c_ctask : m.id = c_sent - Len(c_inbox)
      /\ TakenOf(c_inbox, c_sent, c_ctask) \in Int /\ TakenOf(c_inbox, c_sent, c_ctask) <= c_sent
      /\ \A m \in c_waiting : m.id <= TakenOf(c_inbox, c_sent, c_ctask)
      /\ \A i \in 1..Len(c_surfaced) : c_surfaced[i] \in 1..TakenOf(c_inbox, c_sent, c_ctask)
  <2>1. Placed(c_inbox, c_sent, c_ctask, c_waiting, c_surfaced, {})
    BY DEF ClaudeInv
  <2>2. c_inbox \in Seq(ControlMsgs) /\ c_surfaced \in Seq(Nat) /\ Len(c_inbox) \in Nat
    BY <2>1, LenProperties DEF Placed
  <2>3. TakenOf(c_inbox, c_sent, c_ctask) \in Int /\ TakenOf(c_inbox, c_sent, c_ctask) <= c_sent
    BY <1>2, <2>2 DEF TakenOf
  <2>4. QED
    BY <2>1, <2>2, <2>3 DEF Placed
<1> DEFINE Msgs == [id : 1..most, op : ClaudeOps]
<1> HIDE DEF most
<1>4. \A m \in ControlMsgs : m.id <= c_sent /\ m.op \in ClaudeOps => m \in Msgs
  <2> SUFFICES ASSUME NEW m \in ControlMsgs, m.id <= c_sent, m.op \in ClaudeOps PROVE m \in Msgs
    OBVIOUS
  <2>1. m.id \in Nat \ {0} /\ m = [id |-> m.id, op |-> m.op]
    BY DEF ControlMsgs
  <2>2. m.id \in 1..most
    BY <1>2, <2>1
  <2>3. QED
    BY <2>1, <2>2
<1>5. c_ctask \subseteq Msgs /\ c_waiting \subseteq Msgs
  <2>1. \A m \in c_ctask \cup c_waiting : m \in ControlMsgs /\ m.id \in Nat /\ m.op \in ClaudeOps
    BY <1>1, <1>3 DEF OpsAreGiven, ControlMsgs
  <2>2. \A m \in c_ctask \cup c_waiting : m.id <= c_sent
    BY <1>2, <1>3, <2>1
  <2>3. QED
    BY <1>4, <2>1, <2>2
<1>6. c_inbox \in Seq(Msgs)
  <2>1. \A i \in 1..Len(c_inbox) : c_inbox[i] \in ControlMsgs /\ c_inbox[i].op \in ClaudeOps
    BY <1>1, <1>3 DEF OpsAreGiven
  <2>2. \A i \in 1..Len(c_inbox) : c_inbox[i].id <= c_sent
    <3>1. \A i \in 1..Len(c_inbox) : c_sent - Len(c_inbox) + i <= c_sent
      BY <1>2, <1>3
    <3>2. QED
      BY <1>3, <3>1
  <2>3. \A i \in 1..Len(c_inbox) : c_inbox[i] \in Msgs
    BY <1>4, <2>1, <2>2
  <2> HIDE DEF Msgs
  <2>4. QED
    BY <1>3, <2>3, SeqOfParts
<1>7. Given \subseteq 0..most
  <2>1. DOMAIN c_surfaced = 1..Len(c_surfaced)
    BY <1>3, LenProperties
  <2>2. \A i \in 1..Len(c_surfaced) : c_surfaced[i] \in 0..most
    BY <1>2, <1>3
  <2>3. QED
    BY <2>1, <2>2 DEF Given
<1>8. queued \cup heard \subseteq Jobs \cup 0..most
  <2>1. 0 \in 0..most
    BY <1>2
  <2>2. QED
    BY <1>1, <1>7, <2>1 DEF WorkIsTyped
<1>9. /\ c_pc \in {"loop", "done", "bare", "raised"} /\ (c_pc = "done" <=> c_result # {})
      /\ steers.undelivered \cup steers.staged \subseteq Given
  BY <1>1 DEF ClaudeTypes, SteersIn
<1>10. part = "claude" => Claude!TypeOK
  <2> SUFFICES ASSUME part = "claude" PROVE Claude!TypeOK
    OBVIOUS
  <2>1. Jobs = ClaudeTasks /\ Msgs = Claude!Msgs /\ most = ClaudeMsgs /\ Given = Claude!Delivered
    BY DEF Jobs, most, Claude!Msgs, Given, Claude!Delivered
  <2> HIDE DEF Msgs
  <2>2. QED
    BY <1>1, <1>5, <1>6, <1>8, <1>9, <2>1 DEF Claude!TypeOK, WorkIsTyped, Verdicts, Claude!Results
<1>11. part = "talked" => Talked!TypeOK
  <2> SUFFICES ASSUME part = "talked" PROVE Talked!TypeOK
    OBVIOUS
  <2>1. Jobs = {} /\ Msgs = Talked!Msgs /\ most = TalkedMsgs /\ Given = Talked!Delivered
    BY DEF Jobs, most, Talked!Msgs, Given, Talked!Delivered
  <2> HIDE DEF Msgs
  <2>2. QED
    BY <1>1, <1>5, <1>6, <1>8, <1>9, <2>1 DEF Talked!TypeOK, WorkIsTyped, Verdicts, Talked!Results
<1>12. QED
  BY <1>10, <1>11

\* Every component's variables have their types, for all values of the
\* constants: no counter passes its bound, nothing is waited for that was not
\* sent, and no tracker holds what was not given to it.
THEOREM TypesKept == Spec => []TypesHold
<1>1. Init => SpendIsBounded /\ TurnIsTyped
  <2> SUFFICES ASSUME Init PROVE SpendIsBounded /\ TurnIsTyped
    OBVIOUS
  <2>1. SpendIsBounded
    <3>1. /\ turn = 0 /\ l_calls = 0 /\ charged = 0 /\ spent = [t \in Subs |-> 0] /\ l_result = {}
      BY DEF Init, Ledger!Init, Ledger!None, Subs
    <3>2. LedgerTurns \in Nat /\ Spend \in Nat
      <4>1. Ledger!CodexLedgerAssumption /\ FaultyLedger!CodexLedgerAssumption
        BY HarnessAssumption
      <4>2. QED
        BY <4>1 DEF Ledger!CodexLedgerAssumption, FaultyLedger!CodexLedgerAssumption, Spend
    <3>3. QED
      BY <3>1, <3>2 DEF SpendIsBounded
  <2>2. TurnIsTyped
    <3>1. Claude!Init
      BY DEF Init
    <3>2. /\ c_inbox = <<>> /\ c_ctask = {} /\ c_waiting = {} /\ steers = [undelivered |-> {}, staged |-> {}] /\ c_pc = "loop"
      BY <3>1 DEF Claude!Init
    <3>3. OpsAreGiven /\ SteersIn(steers) = {}
      BY <3>2 DEF OpsAreGiven, SteersIn
    <3>4. WorkTypes /\ WorkIsKnown
      BY <3>1, GoingFirst DEF Going
    <3>5. WorkIsTyped
      BY <3>4 DEF WorkTypes, WorkIsKnown, WorkIsTyped, TaskTracks
    <3>6. QED
      BY <3>2, <3>3, <3>5 DEF TurnIsTyped
  <2>3. QED
    BY <2>1, <2>2
<1>2. LedgerInv /\ SpendIsBounded /\ [Next]_vars => SpendIsBounded'
  BY SpendIsBoundedStep
<1>3. ClaudeInv /\ ClaudeInv' /\ TurnInv /\ TurnInv' /\ TurnIsTyped /\ [Next]_vars => TurnIsTyped'
  BY TurnIsTypedStep
<1>4. CodexInv /\ LedgerInv /\ SpendIsBounded /\ ClaudeInv /\ TurnInv /\ TurnIsTyped /\ ProxyInv => TypesHold
  BY CodexTyped, LedgerTyped, ClaudeTyped, ProxyTyped DEF TypesHold
<1>5. Spec => []TurnInv
  BY TurnIsKept
<1>6. QED
  BY <1>1, <1>2, <1>3, <1>4, <1>5, CodexInvariant, LedgerInvariant, ClaudeInvariant, ProxyInvariant, PTL DEF Spec

=============================================================================
