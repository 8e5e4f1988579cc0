----------------------------- MODULE TurnStream -----------------------------
(***************************************************************************)
(* How the events of one turn reach the client that runs it                *)
(* (runtime/sandbox: worker.py, stream.py and _stream_turn of backend.py). *)
(*                                                                         *)
(* In the worker, the turn's thread and the memory sampler's thread each   *)
(* surface an event in two steps: on the live record that /events serves,  *)
(* then on the queue of the mirror writer, a third thread that stores      *)
(* batches in the bucket and swallows storage errors. The terminal result  *)
(* takes the steps in the other order: stored first, visible after.        *)
(* The client polls /events; when the sandbox is gone or cannot be reached *)
(* it goes on from the mirror, skipping as many lines as it has seen. At   *)
(* the end it deletes the sandbox, after storing the result itself if the  *)
(* worker said that it could not.                                          *)
(***************************************************************************)
EXTENDS Naturals, Sequences, SequencesExt

CONSTANTS
    MaxEvents,    \* events the turn emits before its result, at most
    MaxFailures   \* DIRECT_MAX_FAILURES: failed polls in a row before the mirror

ASSUME StreamAssumption ==
    /\ MaxEvents \in Nat
    /\ MaxFailures \in Nat \ {0}

\* The events of a turn: those of its harness are numbered.
Pressure == 0               \* the sampler's memory_pressure warning
Result   == MaxEvents + 1   \* the terminal result
Events   == 0..Result

VARIABLES
    \* the worker, while its sandbox lives
    alive,
    record,    \* TurnRecord.events: what /events serves
    done,      \* TurnRecord.done
    queue,     \* lines handed to the mirror writer and not yet stored
    surfacer,  \* where the turn's thread stands
    emitted,   \* events its harness has emitted
    ack,       \* the writer's answer about the result
    sampler,   \* where the sampler's thread stands
    \* the bucket
    mirror,
    lost,      \* who could not store a line
    \* the client
    mode,      \* where _stream_turn stands
    yielded,   \* lines of the live record it has seen
    failures,  \* failed polls in a row
    skip,      \* lines of the mirror still to be skipped
    poll,      \* how the last look at the mirror went
    listed,    \* lines of the mirror which that look found
    tailed,    \* lines of the mirror it has read
    delivered, \* the events the run got
    verdict    \* how the stream ended

worker == <<alive, record, done, queue, surfacer, emitted, ack, sampler>>
bucket == <<mirror, lost>>
client == <<mode, yielded, failures, skip, poll, listed, tailed, delivered, verdict>>
tail   == <<poll, listed, tailed>>
vars   == <<worker, bucket, client>>

Init ==
    /\ alive = TRUE /\ record = <<>> /\ done = FALSE /\ queue = <<>>
    /\ surfacer = "running" /\ emitted = 0 /\ ack = "none" /\ sampler = "watching"
    /\ mirror = <<>> /\ lost = {}
    /\ mode = "direct" /\ yielded = 0 /\ failures = 0 /\ skip = 0
    /\ poll = "none" /\ listed = 0 /\ tailed = 0
    /\ delivered = <<>> /\ verdict = "none"

-----------------------------------------------------------------------------
(* The worker's turn thread: run_turn with surface.                        *)

\* surface, first step: the harness's next event on the live record.
Emit ==
    /\ alive /\ surfacer = "running" /\ emitted < MaxEvents
    /\ emitted' = emitted + 1
    /\ record' = Append(record, emitted + 1)
    /\ surfacer' = "recorded"
    /\ UNCHANGED <<alive, done, queue, ack, sampler, bucket, client>>

\* surface, second step: the same event for the mirror.
EmitToMirror ==
    /\ alive /\ surfacer = "recorded"
    /\ queue' = Append(queue, emitted)
    /\ surfacer' = "running"
    /\ UNCHANGED <<alive, record, done, emitted, ack, sampler, bucket, client>>

\* Visible before durable.
EmitResultAtOnce ==
    /\ alive /\ surfacer = "running"
    /\ queue' = Append(queue, Result)
    /\ record' = Append(record, Result)
    /\ ack' = "stored"
    /\ surfacer' = "over"
    /\ UNCHANGED <<alive, done, emitted, sampler, bucket, client>>

\* surface of the result: the mirror first, waiting for the writer.
EmitResult ==
    /\ alive /\ surfacer = "running"
    /\ queue' = Append(queue, Result)
    /\ surfacer' = "storing"
    /\ UNCHANGED <<alive, record, done, emitted, ack, sampler, bucket, client>>

\* The writer has answered, or RESULT_MIRROR_WAIT_S passed: the live copy says
\* "worker" or "failed".
ShowResult ==
    /\ alive /\ surfacer = "storing"
    /\ ack' = IF ack = "stored" THEN ack ELSE "failed"
    /\ record' = Append(record, Result)
    /\ surfacer' = "over"
    /\ UNCHANGED <<alive, done, queue, emitted, sampler, bucket, client>>

\* _turn_thread's finally clause: after the result, or after a harness that
\* ended (or a thread that died) without one.
FinishRecord ==
    /\ alive /\ surfacer \in {"running", "over"}
    /\ done' = TRUE
    /\ surfacer' = "finished"
    /\ UNCHANGED <<alive, record, queue, emitted, ack, sampler, bucket, client>>

\* The sampler's thread surfaces one warning while the turn runs.
Warn ==
    /\ alive /\ sampler = "watching" /\ surfacer # "finished"
    /\ record' = Append(record, Pressure)
    /\ sampler' = "recorded"
    /\ UNCHANGED <<alive, done, queue, surfacer, emitted, ack, bucket, client>>

WarnToMirror ==
    /\ alive /\ sampler = "recorded"
    /\ queue' = Append(queue, Pressure)
    /\ sampler' = "warned"
    /\ UNCHANGED <<alive, record, done, surfacer, emitted, ack, bucket, client>>

\* MirrorStream._flush: a batch is stored, or the error is swallowed.
Flush(k) ==
    LET batch == SubSeq(queue, 1, k)
        Acked(answer) == IF surfacer = "storing" /\ Contains(batch, Result) THEN answer ELSE ack
    IN  /\ alive /\ k \in 1..Len(queue)
        /\ queue' = SubSeq(queue, k + 1, Len(queue))
        /\ \/ /\ mirror' = mirror \o batch
              /\ ack' = Acked("stored")
              /\ UNCHANGED lost
           \/ /\ lost' = lost \cup {"worker"}
              /\ ack' = Acked("failed")
              /\ UNCHANGED mirror
        /\ UNCHANGED <<alive, record, done, surfacer, emitted, sampler, client>>

\* The sandbox disappears, with whatever its writer had not stored: out of
\* memory, or its TTL.
Vanish ==
    /\ alive
    /\ alive' = FALSE
    /\ queue' = <<>>
    /\ UNCHANGED <<record, done, surfacer, emitted, ack, sampler, bucket, client>>

-----------------------------------------------------------------------------
(* The client: _stream_turn.                                               *)

End(how) == mode' = "ended" /\ verdict' = how

\* /events: a page of the lines not yet seen, empty when the worker waited in
\* vain for one, and "done" once the caller has seen them all.
Answers(k) == k \in yielded..Len(record) /\ (k = yielded => k = Len(record))
AnswersDone(k) == done /\ k = Len(record)

\* The page is yielded, up to the result, which ends the stream.
Poll(k) ==
    LET page == SubSeq(record, yielded + 1, k)
    IN  /\ mode = "direct" /\ alive
        /\ Answers(k)
        /\ \A i \in (yielded + 1)..(k - 1) : record[i] # Result
        /\ failures' = 0
        /\ yielded' = k
        /\ delivered' = delivered \o page
        /\ IF Contains(page, Result)
           THEN End("live")
           ELSE IF AnswersDone(k)
                THEN End("resultless")
                ELSE UNCHANGED <<mode, verdict>>
        /\ UNCHANGED <<skip, tail, worker, bucket>>

\* Going over to the mirror forgets what was seen.
PollFailsAndForgets ==
    /\ mode = "direct"
    /\ failures' = failures + 1
    /\ mode' = IF failures + 1 >= MaxFailures THEN "tail" ELSE mode
    /\ UNCHANGED <<skip, yielded, tail, delivered, verdict, worker, bucket>>

\* One failure more than the limit.
PollFailsOnceMore ==
    /\ mode = "direct"
    /\ failures' = failures + 1
    /\ IF failures >= MaxFailures
       THEN mode' = "tail" /\ skip' = yielded
       ELSE UNCHANGED <<mode, skip>>
    /\ UNCHANGED <<yielded, tail, delivered, verdict, worker, bucket>>

\* Any other answer to a poll; after MaxFailures in a row, the mirror.
PollFails ==
    /\ mode = "direct"
    /\ failures' = failures + 1
    /\ IF failures + 1 >= MaxFailures
       THEN mode' = "tail" /\ skip' = yielded
       ELSE UNCHANGED <<mode, skip>>
    /\ UNCHANGED <<yielded, tail, delivered, verdict, worker, bucket>>

\* A sandbox that is gone treated like a failed poll, which is retried.
RetryTheGone ==
    /\ mode = "direct" /\ ~alive
    /\ failures' = 0
    /\ UNCHANGED <<mode, skip, yielded, tail, delivered, verdict, worker, bucket>>

\* SandboxGone: the mirror, for GONE_GRACE_S at most.
PollFindsGone ==
    /\ mode = "direct" /\ ~alive
    /\ mode' = "tail"
    /\ skip' = yielded
    /\ UNCHANGED <<yielded, failures, tail, delivered, verdict, worker, bucket>>

\* tail_stream lists the mirror and reads what it has not read yet.
TailPoll ==
    /\ mode = "tail" /\ tailed = listed
    /\ poll' = "complete"
    /\ listed' = Len(mirror)
    /\ UNCHANGED <<mode, yielded, failures, skip, tailed, delivered, verdict, worker, bucket>>

\* The bucket cannot be listed, or a listed object cannot be read: what is
\* left waits for the next look.
TailBlip ==
    /\ mode = "tail"
    /\ poll' = "failed"
    /\ listed' = tailed
    /\ UNCHANGED <<mode, yielded, failures, skip, tailed, delivered, verdict, worker, bucket>>

\* The next line. The tail stops at a result, also at one that _stream_turn
\* skips; then the run is told that there was none.
TailLine ==
    /\ mode = "tail" /\ tailed < listed
    /\ LET line == mirror[tailed + 1]
       IN  /\ tailed' = tailed + 1
           /\ IF skip > 0
              THEN /\ skip' = skip - 1
                   /\ UNCHANGED delivered
                   /\ IF line = Result THEN End("unreachable") ELSE UNCHANGED <<mode, verdict>>
              ELSE /\ delivered' = Append(delivered, line)
                   /\ UNCHANGED skip
                   /\ IF line = Result THEN End("mirrored") ELSE UNCHANGED <<mode, verdict>>
    /\ UNCHANGED <<yielded, failures, poll, listed, worker, bucket>>

\* The tail's time is up in the middle of what it has listed.
TailGivesUpUnread ==
    /\ mode = "tail" /\ poll # "none"
    /\ End("unreachable")
    /\ UNCHANGED <<yielded, failures, skip, tail, delivered, worker, bucket>>

\* The tail's time is up, between two looks.
TailGivesUp ==
    /\ mode = "tail" /\ poll # "none" /\ tailed = listed
    /\ End("unreachable")
    /\ UNCHANGED <<yielded, failures, skip, tail, delivered, worker, bucket>>

\* Too many failures in a row: the run fails with the storage error.
TailFails ==
    /\ mode = "tail" /\ poll = "failed"
    /\ End("failed")
    /\ UNCHANGED <<yielded, failures, skip, tail, delivered, worker, bucket>>

\* The run is complete (_on_complete, release): the sandbox is deleted, best
\* effort, once the client has stored a result whose live copy says "failed".
Complete ==
    /\ mode = "ended"
    /\ mode' = "released"
    /\ IF verdict = "live" /\ ack = "failed"
       THEN \/ mirror' = Append(mirror, Result) /\ UNCHANGED lost
            \/ lost' = lost \cup {"client"} /\ UNCHANGED mirror
       ELSE UNCHANGED bucket
    /\ \/ alive' = FALSE /\ queue' = <<>>
       \/ UNCHANGED <<alive, queue>>
    /\ UNCHANGED <<record, done, surfacer, emitted, ack, sampler>>
    /\ UNCHANGED <<yielded, failures, skip, tail, delivered, verdict>>

-----------------------------------------------------------------------------

Working == Emit \/ EmitToMirror \/ EmitResult \/ ShowResult \/ FinishRecord \/ Warn \/ WarnToMirror

Streaming ==
    \/ \E k \in 0..Len(record) : Poll(k)
    \/ PollFails \/ PollFindsGone \/ TailPoll \/ TailBlip \/ TailLine \/ TailGivesUp \/ TailFails \/ Complete

Next ==
    \/ Working
    \/ \E k \in 1..Len(queue) : Flush(k)
    \/ Vanish
    \/ Streaming

Spec == Init /\ [][Next]_vars

\* Every call of the client has a timeout and its loop goes on; max_wait_s ends
\* the tail between two looks (strong fairness: it is between them again and
\* again); a sandbox has a TTL. Nothing is assumed of the harness, which may
\* hang.
FairSpec == Spec /\ WF_vars(Streaming) /\ SF_vars(TailGivesUp) /\ WF_vars(Vanish)

-----------------------------------------------------------------------------
(* Correctness.                                                            *)

\* Every variable has its type.
TypeOK ==
    /\ alive \in BOOLEAN /\ done \in BOOLEAN
    /\ record \in Seq(Events) /\ queue \in Seq(Events) /\ mirror \in Seq(Events)
    /\ delivered \in Seq(Events)
    /\ surfacer \in {"running", "recorded", "storing", "over", "finished"}
    /\ sampler \in {"watching", "recorded", "warned"}
    /\ ack \in {"none", "stored", "failed"}
    /\ emitted \in 0..MaxEvents
    /\ lost \subseteq {"worker", "client"}
    /\ mode \in {"direct", "tail", "ended", "released"}
    /\ verdict \in {"none", "live", "mirrored", "resultless", "unreachable", "failed"}
    /\ yielded \in 0..Len(record)
    /\ failures \in 0..MaxFailures
    /\ skip \in 0..yielded
    /\ poll \in {"none", "complete", "failed"}
    /\ listed \in 0..Len(mirror)
    /\ tailed \in 0..listed

\* The mirror and the live record have the same lines, as far as both go.
Agree == IsPrefix(mirror, record) \/ IsPrefix(record, mirror)

\* While the mirror agrees with the live record, switching from one to the
\* other neither repeats nor leaves out an event, wherever in the turn the
\* polls failed: the run gets a prefix of what the turn surfaced.
SwitchIsSeamless ==
    Agree => IsPrefix(delivered, record) \/ IsPrefix(delivered, mirror)

\* While they agree, no run is told that there is no result when the last look
\* at the mirror showed one: what was skipped cannot have been the result.
EndsTruthfully ==
    [][Agree /\ verdict = "none" /\ verdict' = "unreachable"
         => ~Contains(SubSeq(mirror, 1, listed), Result)]_vars

\* The record of a turn shows that it ended before the sandbox of a run that
\* saw its end is deleted: by the worker's write, or by the client's if the
\* worker's failed or was too late; only when both fail does it not.
ResultIsRecorded ==
    mode = "released" /\ verdict \in {"live", "mirrored"} /\ "client" \notin lost
        => Contains(mirror, Result)

\* The stream of every turn ends, and its run gives the sandbox up.
StreamEnds == <>(mode = "released")

\* _stream_turn says that it ends with the mirror's terminal result.
EndsWithTheMirrorsResult ==
    [][verdict = "none" /\ verdict' = "unreachable"
         => ~Contains(SubSeq(mirror, 1, listed), Result)]_vars

\* _stream_turn says that it skips the events already delivered.
NothingTwice == \A i, j \in 1..Len(delivered) : delivered[i] = delivered[j] => i = j

=============================================================================
