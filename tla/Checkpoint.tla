----------------------------- MODULE Checkpoint -----------------------------
(***************************************************************************)
(* The checkpoint of a session and the turns that resume from it: the      *)
(* workspace snapshot (checkpoint/workspace.py over ports/blobstore.py),   *)
(* the conversation of either harness (codex.py's rollout objects, the     *)
(* transcript Claude Code appends to), the preparation of the workspace in *)
(* both runtimes and the Git credentials that must not be archived.  Any   *)
(* store operation may fail and the process may die between two of them.   *)
(*                                                                         *)
(* A turn is its number.  The files of a workspace are the turns whose     *)
(* edits it has, a conversation is the turns the model remembers.          *)
(***************************************************************************)
EXTENDS Integers, FiniteSets

CONSTANTS Harnesses,   \* of {"claude", "codex"}
          Places,      \* where turns run, of {"sandbox", "local", "owned"}:
                       \* a new machine, the session's directory, the caller's
          RepoRefs,    \* spec.repos, of {"none", "branch", "commit"}
          MaxTurns,    \* bound: turns of the session
          MaxFaults    \* bound: failures and crashes

\* What the constants have to satisfy.
CheckpointAssumption ==
  /\ Harnesses \subseteq {"claude", "codex"} /\ Places \subseteq {"sandbox", "local", "owned"}
  /\ RepoRefs \subseteq {"none", "branch", "commit"}
  /\ MaxTurns \in Nat \ {0} /\ MaxFaults \in Nat

VARIABLES
  setup,       \* the session: [harness, place, store, repos]
  turn, phase, \* the turn and where it is
  resumed,     \* by send() on the idle session, not by run()
  dir,         \* the workspace on disk: [edits, repo, token]
  memory,      \* what the model of this turn remembers
  thread,      \* codex: the thread, named after the turn that started it
  snap,        \* the workspace object: [state, edits, repo, token]
  transcript,  \* claude: the turns in the session store
  meta,        \* codex: the thread meta.json names, 0: none
  rollout,     \* codex: rollout.jsonl, [of, memory], of = 0: none
  ready,       \* {} or {the workspace_ready event}
  kept,        \* what finalizing has stored: [conversation, workspace]
  end,         \* how the last turn ended
  saved,       \* history: the last turn that reported checkpoint_saved
  faults,
  unsafe,      \* codex: the path in meta.json points out of the sessions
  lost         \* history: the turns that are not whole in the transcript

blobs == <<snap, transcript, meta, rollout, unsafe>>
agent == <<memory, thread>>
vars  == <<setup, turn, phase, resumed, dir, agent, blobs, ready, kept, end,
           saved, faults, lost>>

Empty  == [edits |-> {}, repo |-> FALSE, token |-> FALSE]
NoTree == [state |-> "none", edits |-> {}, repo |-> FALSE, token |-> FALSE]

Setups ==
  {s \in [harness : Harnesses, place : Places, store : {"gcs", "file"}, repos : RepoRefs] :
     /\ s.place = "sandbox" => s.store = "gcs"
     /\ s.place = "owned" => s.repos = "none"}   \* _reject_repos_in_chosen_workspace

Init ==
  /\ setup \in Setups /\ turn = 0 /\ phase = "idle" /\ resumed = FALSE
  /\ dir = Empty /\ memory = {} /\ thread = 0
  /\ snap = NoTree /\ transcript = {} /\ meta = 0 /\ rollout = [of |-> 0, memory |-> {}]
  /\ ready = {} /\ kept = [conversation |-> TRUE, workspace |-> TRUE] /\ end = "none"
  /\ saved = 0 /\ faults = 0 /\ unsafe = FALSE /\ lost = {}

Fault == faults < MaxFaults /\ faults' = faults + 1

Fails(why) == phase' = "idle" /\ end' = why

----------------------------------------------------------------------------
(* A turn begins and prepares its workspace.                               *)

Begin ==
  /\ phase = "idle" /\ turn < MaxTurns /\ turn' = turn + 1 /\ phase' = "prepare"
  /\ resumed' \in BOOLEAN
  /\ dir' = IF setup.place = "sandbox" THEN Empty ELSE dir
  /\ memory' = {} /\ thread' = 0 /\ ready' = {} /\ end' = "none"
  /\ kept' = [conversation |-> TRUE, workspace |-> TRUE]
  /\ UNCHANGED <<setup, blobs, saved, faults, lost>>

Moves ==     \* the engine's workdir is gone (a new pod), its store is not
  /\ phase = "idle" /\ setup.place = "local" /\ setup.store = "gcs" /\ dir # Empty
  /\ dir' = Empty
  /\ UNCHANGED <<setup, turn, phase, resumed, agent, blobs, ready, kept, end, saved, faults, lost>>

Restores == resumed /\ setup.place # "owned"

Pristine == dir.edits = {} /\ ~dir.repo

\* reauth_repos embeds the token again when the turn was given the secret.
Restored ==
  /\ phase = "prepare" /\ Restores /\ snap.state = "good"
  /\ \E token \in BOOLEAN :
       /\ token => snap.repo
       /\ dir' = [edits |-> dir.edits \cup snap.edits, repo |-> dir.repo \/ snap.repo,
                  token |-> token]
  /\ ready' = {[restored |-> TRUE, error |-> FALSE]} /\ phase' = "start"
  /\ UNCHANGED <<setup, turn, resumed, agent, blobs, kept, end, saved, faults, lost>>

NothingToRestore ==
  /\ phase = "prepare" /\ (~Restores \/ snap.state = "none")
  /\ ready' = {[restored |-> FALSE, error |-> FALSE]} /\ phase' = "stage"
  /\ UNCHANGED <<setup, turn, resumed, dir, agent, blobs, kept, end, saved, faults, lost>>

\* What was extracted is removed again from a directory that had nothing.
RestoreFails ==
  /\ phase = "prepare" /\ Restores
  /\ \/ snap.state = "broken" /\ UNCHANGED faults
     \/ snap.state = "good" /\ Fault
  /\ \E some \in SUBSET snap.edits, repo \in {FALSE, snap.repo} :
       dir' = IF Pristine THEN Empty
              ELSE [dir EXCEPT !.edits = @ \cup some, !.repo = @ \/ repo]
  /\ ready' = {[restored |-> FALSE, error |-> TRUE]} /\ phase' = "stage"
  /\ UNCHANGED <<setup, turn, resumed, agent, blobs, kept, end, saved, lost>>

\* provision_repos.  A clone into a directory that is there fails; for a
\* commit pin the directory is then removed and cloned in full.
Stage ==
  /\ phase = "stage"
  /\ \/ setup.repos = "none" /\ phase' = "start" /\ UNCHANGED <<dir, end, faults>>
     \/ /\ setup.repos # "none" /\ (dir.repo => setup.repos = "commit")
        /\ \E token \in BOOLEAN : dir' = [edits |-> IF dir.repo THEN {} ELSE dir.edits,
                                          repo |-> TRUE, token |-> token]
        /\ phase' = "start" /\ UNCHANGED <<end, faults>>
     \/ setup.repos = "branch" /\ dir.repo /\ Fails("exists") /\ UNCHANGED <<dir, faults>>
     \/ setup.repos # "none" /\ Fault /\ Fails("clone") /\ UNCHANGED dir
  /\ UNCHANGED <<setup, turn, resumed, agent, blobs, ready, kept, saved, lost>>

----------------------------------------------------------------------------
(* The harness starts, with the conversation so far or a new one.          *)

StartClaude ==
  /\ phase = "start" /\ setup.harness = "claude" /\ phase' = "work"
  /\ memory' = IF resumed THEN transcript ELSE {}
  /\ UNCHANGED <<setup, turn, resumed, dir, thread, blobs, ready, kept, end, saved, faults, lost>>

\* Also beside a checkpoint that names an unsafe path, with a warning logged.
StartFresh ==
  /\ phase = "start" /\ setup.harness = "codex" /\ (~resumed \/ meta = 0 \/ unsafe)
  /\ thread' = turn /\ memory' = {} /\ phase' = "work"
  /\ UNCHANGED <<setup, turn, resumed, dir, blobs, ready, kept, end, saved, faults, lost>>

ResumeThreadOrFresh ==   \* an unreadable checkpoint taken for an absent one
  /\ phase = "start" /\ setup.harness = "codex" /\ resumed /\ meta # 0 /\ ~unsafe /\ phase' = "work"
  /\ \/ rollout.of # 0 /\ thread' = meta /\ memory' = rollout.memory /\ UNCHANGED faults
     \/ Fault /\ thread' = turn /\ memory' = {}
  /\ UNCHANGED <<setup, turn, resumed, dir, blobs, ready, kept, end, saved, lost>>

ResumeThread ==
  /\ phase = "start" /\ setup.harness = "codex" /\ resumed /\ meta # 0 /\ ~unsafe /\ rollout.of # 0
  /\ thread' = meta /\ memory' = rollout.memory /\ phase' = "work"
  /\ UNCHANGED <<setup, turn, resumed, dir, blobs, ready, kept, end, saved, faults, lost>>

ResumeRaises ==          \* the rollout is not there, or one of the two unreadable
  /\ phase = "start" /\ setup.harness = "codex" /\ resumed
  /\ \/ meta # 0 /\ ~unsafe /\ rollout.of = 0 /\ UNCHANGED faults
     \/ Fault
  /\ Fails("conversation")
  /\ UNCHANGED <<setup, turn, resumed, dir, agent, blobs, ready, kept, saved, lost>>

\* Claude Code flushes its transcript as it goes. An append that fails is told
\* to the SDK's stream alone, whose message the harness passes over.
Work ==
  /\ phase = "work"
  /\ memory' = memory \cup {turn} /\ dir' = [dir EXCEPT !.edits = @ \cup {turn}]
  /\ \/ /\ setup.harness = "codex" /\ phase' = "meta"
        /\ UNCHANGED <<transcript, lost, faults>>
     \/ /\ setup.harness = "claude" /\ phase' = "scrub"
        /\ transcript' = transcript \cup {turn} /\ UNCHANGED <<lost, faults>>
     \/ /\ setup.harness = "claude" /\ phase' = "scrub"
        /\ Fault /\ lost' = lost \cup {turn} /\ UNCHANGED transcript
  /\ UNCHANGED <<setup, turn, resumed, thread, snap, meta, rollout, unsafe, ready, kept, end,
                 saved>>

\* What the agent runs, or left running, edits meta.json: the run's token may.
EditMeta ==
  /\ setup.harness = "codex" /\ meta # 0 /\ ~unsafe
  /\ phase \in {"idle", "meta", "rollout", "scrub", "snapshot", "report"}
  /\ Fault /\ unsafe' = TRUE
  /\ UNCHANGED <<setup, turn, phase, resumed, dir, agent, snap, transcript, meta, rollout, ready,
                 kept, end, saved, lost>>

----------------------------------------------------------------------------
(* The checkpoint, before the result is yielded.                           *)

PersistMeta ==
  /\ phase = "meta"
  /\ \/ meta' = thread /\ unsafe' = FALSE /\ phase' = "rollout" /\ UNCHANGED <<kept, faults>>
     \/ /\ Fault /\ kept' = [kept EXCEPT !.conversation = FALSE] /\ phase' = "scrub"
        /\ UNCHANGED <<meta, unsafe>>
  /\ UNCHANGED <<setup, turn, resumed, dir, agent, snap, transcript, rollout, ready, end, saved, lost>>

PersistRollout ==
  /\ phase = "rollout" /\ phase' = "scrub"
  /\ \/ rollout' = [of |-> thread, memory |-> memory] /\ UNCHANGED <<kept, faults>>
     \/ Fault /\ kept' = [kept EXCEPT !.conversation = FALSE] /\ UNCHANGED rollout
  /\ UNCHANGED <<setup, turn, resumed, dir, agent, snap, transcript, meta, unsafe, ready, end, saved, lost>>

\* scrub_repo_tokens raises on a config it cannot rewrite: nothing is then
\* archived.  A directory of the caller's is left alone.
Scrub ==
  /\ phase = "scrub"
  /\ \/ setup.place = "owned" /\ phase' = "report" /\ UNCHANGED <<dir, kept, faults>>
     \/ /\ setup.place # "owned" /\ dir' = [dir EXCEPT !.token = FALSE]
        /\ phase' = "snapshot" /\ UNCHANGED <<kept, faults>>
     \/ /\ setup.place # "owned" /\ Fault
        /\ kept' = [kept EXCEPT !.workspace = FALSE] /\ phase' = "report" /\ UNCHANGED dir
  /\ UNCHANGED <<setup, turn, resumed, agent, blobs, ready, end, saved, lost>>

Tree(d) == [state |-> "good", edits |-> d.edits, repo |-> d.repo, token |-> d.token]

\* A file store writes the archive in place, GCS when it is whole.
HalfWritten == IF setup.store = "file" THEN [NoTree EXCEPT !.state = "broken"] ELSE snap

Snapshot ==
  /\ phase = "snapshot" /\ phase' = "report"
  /\ \/ snap' = Tree(dir) /\ UNCHANGED <<kept, faults>>
     \/ Fault /\ snap' = HalfWritten /\ kept' = [kept EXCEPT !.workspace = FALSE]
  /\ UNCHANGED <<setup, turn, resumed, dir, agent, transcript, meta, rollout, unsafe, ready, end, saved, lost>>

Report ==    \* checkpoint_saved, or checkpoint_error when either part failed
  /\ phase = "report" /\ phase' = "idle" /\ end' = "result"
  /\ saved' = IF kept.conversation /\ kept.workspace THEN turn ELSE saved
  /\ UNCHANGED <<setup, turn, resumed, dir, agent, blobs, ready, kept, faults, lost>>

Crash ==     \* the process dies, or the run is cancelled
  /\ phase # "idle" /\ Fault /\ Fails("crashed")
  /\ snap' = IF phase = "snapshot" THEN HalfWritten ELSE snap
  /\ UNCHANGED <<setup, turn, resumed, dir, agent, transcript, meta, rollout, unsafe, ready, kept, saved, lost>>

Next ==
  \/ Begin \/ Moves \/ Restored \/ NothingToRestore \/ RestoreFails \/ Stage
  \/ StartClaude \/ StartFresh \/ ResumeThread \/ ResumeRaises \/ Work \/ EditMeta
  \/ PersistMeta \/ PersistRollout \/ Scrub \/ Snapshot \/ Report \/ Crash

Spec == Init /\ [][Next]_vars

----------------------------------------------------------------------------
Turns == 1 .. MaxTurns

TypeOK ==
  /\ setup \in Setups /\ turn \in 0 .. MaxTurns /\ faults \in 0 .. MaxFaults
  /\ phase \in {"idle", "prepare", "stage", "start", "work", "meta", "rollout", "scrub",
                "snapshot", "report"}
  /\ dir \in [edits : SUBSET Turns, repo : BOOLEAN, token : BOOLEAN]
  /\ snap \in [state : {"none", "broken", "good"}, edits : SUBSET Turns, repo : BOOLEAN,
               token : BOOLEAN]
  /\ memory \subseteq Turns /\ transcript \subseteq Turns /\ thread \in 0 .. MaxTurns
  /\ meta \in 0 .. MaxTurns /\ rollout \in [of : 0 .. MaxTurns, memory : SUBSET Turns]
  /\ Cardinality(ready) <= 1 /\ saved \in 0 .. MaxTurns /\ unsafe \in BOOLEAN /\ lost \subseteq Turns

(* A turn that reported checkpoint_saved has stored both its files and its *)
(* conversation, under one thread (codex's _finalize, finalize_checkpoint) *)
(* - unless an append to Claude Code's transcript failed, which nobody is  *)
(* told.                                                                   *)
SavedIsWhole ==
  (phase = "idle" /\ end = "result" /\ saved = turn) =>
    /\ setup.place # "owned" => turn \in snap.edits
    /\ setup.harness = "claude" => turn \in transcript \cup lost
    /\ setup.harness = "codex" => rollout = [of |-> meta, memory |-> memory] /\ turn \in memory

(* A turn that resumes right after one that reported its checkpoint saved  *)
(* remembers it, on any machine, or does not run (an existing checkpoint   *)
(* must not lose its history silently), but for a lost append and for a    *)
(* path that was edited; and it has its files, or says in workspace_ready  *)
(* that the restore failed.                                                *)
SavedTurnIsResumed ==
  (phase = "work" /\ resumed /\ turn > 1 /\ saved = turn - 1) =>
    /\ ~unsafe => turn - 1 \in memory \cup lost
    /\ (\A e \in ready : ~e.error) => turn - 1 \in dir.edits

(* No snapshot holds a push token, whichever step of the checkpoint or of  *)
(* an earlier restore failed (scrub_repo_tokens).                          *)
NoTokenInSnapshot == ~snap.token

(* What a sandbox stages skills and clones into after a failed restore is  *)
(* a fresh directory, not a half-restored one (restore).                   *)
CleanFallback == (phase = "stage" /\ setup.place = "sandbox") => dir = Empty

----------------------------------------------------------------------------
(* What the comments say and the code does not do.                         *)

(* checkpoint_saved: the conversation is resumable on another worker       *)
(* (build_options, finalize_checkpoint).                                   *)
SavedIsInTheStore ==
  (phase = "idle" /\ end = "result" /\ saved = turn /\ setup.harness = "claude") =>
    turn \in transcript

(* A failed restore leaves no half-extracted files behind, so the fresh    *)
(* path can clone into the directory.                                      *)
FreshPathCanClone == end = "exists" => \A e \in ready : ~e.error

(* An existing checkpoint must not lose its history silently: the thread a *)
(* turn resumes is the one whose rollout it wrote back.                    *)
ThreadHasItsRollout ==
  (phase = "work" /\ resumed /\ setup.harness = "codex" /\ thread # turn)
    => thread = rollout.of
=============================================================================
