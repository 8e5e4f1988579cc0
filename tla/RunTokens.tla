----------------------------- MODULE RunTokens ------------------------------
(***************************************************************************)
(* The two bearer tokens of a sandbox turn over time (backend.py           *)
(* _mint_tokens .. _stop_refresh, scoped_gcs.py, model_token.py, and the   *)
(* metadata server of worker.py): the process that follows the turn mints  *)
(* them again and again; the worker reads its storage token back from the  *)
(* bucket with the one it has, and the CLI takes its model token from the  *)
(* worker.  A process may detach and another adopt the turn.  Time is in   *)
(* minutes, and passes only when whatever is due has been done.            *)
(***************************************************************************)
EXTENDS Integers

CONSTANTS Lifetime,      \* of a token
          Cadence,       \* TOKEN_REFRESH_S
          Retry,         \* TOKEN_REFRESH_RETRY_S
          Horizon,       \* REFRESH_HORIZON
          RetrySoon,     \* retry_soon
          Early,         \* google-auth refreshes this long before the expiry it is shown
          CliEarly,      \* the CLI asks again when this little is left
          MaxDispatch,   \* bound: minutes from the mint to the worker's start
          MayDetach,     \* the process may detach, or die
          AdoptWithin,   \* minutes until the turn it left is adopted
          Sampling,      \* the resource sampler writes to the mirror all the time
          StorageFaults, ModelFaults, ReadFaults,  \* failures of each kind, at most
          MaxTime        \* bound

\* What the constants have to satisfy.
RunTokensAssumption ==
  /\ {Lifetime, Cadence, Retry, Horizon, RetrySoon, MaxTime} \subseteq Nat \ {0}
  /\ {Early, CliEarly, MaxDispatch, AdoptWithin, StorageFaults, ModelFaults, ReadFaults} \subseteq Nat
  /\ {MayDetach, Sampling} \subseteq BOOLEAN
  /\ RetrySoon <= Horizon

VARIABLES
  now,
  turn,      \* "dispatching", "accepted" or "running"
  follower,  \* "owner", "nobody" or "adopter"
  since,     \* when it was detached
  due, step, \* of the refresher: when it wakes, and what it does next
  minted,    \* expiry of the tokens of the turn's body
  record,    \* expiry of the token in the token record
  held,      \* expiry of the worker's storage token
  shown,     \* the expiry its credentials show to google-auth
  asked,     \* when the worker last tried to replace it
  served,    \* expiry of the token the metadata server gives, 0 for none
  cli,       \* expiry of the CLI's token
  faults     \* failures so far, by kind

vars == <<now, turn, follower, since, due, step, minted, record, held, shown, asked, served, cli, faults>>

LowerOf(a, b) == IF a < b THEN a ELSE b

StartRefresh(at) == at + Cadence   \* the thread waits before its first round

MintTokens == Lifetime             \* both, at time 0, and the record is written

Init ==
  /\ now = 0 /\ turn = "dispatching" /\ follower = "owner" /\ since = 0
  /\ minted = MintTokens /\ record = MintTokens
  /\ due = StartRefresh(0) /\ step = "storage"
  /\ held = 0 /\ shown = 0 /\ asked = 0 /\ served = 0 /\ cli = 0
  /\ faults = [storage |-> 0, model |-> 0, read |-> 0]

Fails(kind, limit) ==
  /\ faults[kind] < limit /\ faults' = [faults EXCEPT ![kind] = @ + 1]

WithinHorizon(when) == LowerOf(when, now + Horizon)

----------------------------------------------------------------------------
(* The worker.                                                             *)

AcceptTurn ==    \* run_turn binds the storage credentials first
  /\ turn = "dispatching" /\ turn' = "accepted"
  /\ held' = minted /\ shown' = WithinHorizon(minted) /\ asked' = now
  /\ UNCHANGED <<now, follower, since, due, step, minted, record, served, cli, faults>>

ServeToken ==    \* the metadata server, and the CLI's first fetch from it
  /\ turn = "accepted" /\ turn' = "running"
  /\ served' = minted /\ cli' = minted
  /\ UNCHANGED <<now, follower, since, due, step, minted, record, held, shown, asked, faults>>

Stale == turn # "dispatching" /\ now >= shown - Early

RefreshHandler ==    \* before a request: the record is read with the token held
  /\ Stale /\ asked < now /\ asked' = now
  /\ \/ held > now /\ held' = record /\ shown' = WithinHorizon(record) /\ UNCHANGED faults
     \/ held <= now /\ shown' = now + RetrySoon /\ UNCHANGED <<held, faults>>
     \/ Fails("read", ReadFaults) /\ shown' = now + RetrySoon /\ UNCHANGED held
  /\ UNCHANGED <<now, turn, follower, since, due, step, minted, record, served, cli>>

CliStale == turn = "running" /\ cli - now < CliEarly

CliFetches ==
  /\ CliStale /\ cli # served /\ cli' = served
  /\ UNCHANGED <<now, turn, follower, since, due, step, minted, record, held, shown, asked, served, faults>>

----------------------------------------------------------------------------
(* The refresh thread of the process that follows the turn.                *)

Wakes == follower # "nobody" /\ now >= due

RefreshStorage ==
  /\ Wakes /\ step = "storage" /\ step' = "model"
  /\ \/ record' = now + Lifetime /\ UNCHANGED faults
     \/ Fails("storage", StorageFaults) /\ UNCHANGED record
  /\ UNCHANGED <<now, turn, follower, since, due, minted, held, shown, asked, served, cli>>

NextRoundLate(ok) == now + Cadence

NextRound(ok) == now + (IF ok THEN Cadence ELSE Retry)

RefreshModelToken ==    \* no worker yet, and a worker that refuses, count as done
  /\ Wakes /\ step = "model" /\ step' = "storage"
  /\ \/ /\ turn = "running" /\ served' = now + Lifetime
        /\ due' = NextRound(TRUE) /\ UNCHANGED faults
     \/ turn # "running" /\ due' = NextRound(TRUE) /\ UNCHANGED <<served, faults>>
     \/ /\ turn # "dispatching" /\ Fails("model", ModelFaults)
        /\ due' = NextRound(FALSE) /\ UNCHANGED served
  /\ UNCHANGED <<now, turn, follower, since, minted, record, held, shown, asked, cli>>

Detach ==        \* or the process dies: the record stays
  /\ MayDetach /\ follower = "owner" /\ turn = "running"
  /\ follower' = "nobody" /\ since' = now
  /\ UNCHANGED <<now, turn, due, step, minted, record, held, shown, asked, served, cli, faults>>

Attach ==
  /\ follower = "nobody" /\ follower' = "adopter"
  /\ due' = StartRefresh(now) /\ step' = "storage"
  /\ UNCHANGED <<now, turn, since, minted, record, held, shown, asked, served, cli, faults>>

Tick ==
  /\ now < MaxTime /\ ~Wakes /\ turn # "accepted" /\ (turn = "dispatching" => now < MaxDispatch)
  /\ Sampling /\ Stale => asked = now
  /\ CliStale => cli = served
  /\ follower = "nobody" => now < since + AdoptWithin
  /\ now' = now + 1
  /\ UNCHANGED <<turn, follower, since, due, step, minted, record, held, shown, asked, served, cli, faults>>

Next ==
  \/ AcceptTurn \/ ServeToken \/ RefreshHandler \/ CliFetches \/ RefreshStorage
  \/ RefreshModelToken \/ Detach \/ Attach \/ Tick

Spec == Init /\ [][Next]_vars

----------------------------------------------------------------------------
TypeOK ==
  /\ now \in 0 .. MaxTime /\ turn \in {"dispatching", "accepted", "running"}
  /\ follower \in {"owner", "nobody", "adopter"} /\ step \in {"storage", "model"}
  /\ {record, held, served, cli} \subseteq 0 .. MaxTime + Lifetime
  /\ shown <= now + Horizon /\ asked <= now

(* While the turn runs the worker's storage token works: it fetches each   *)
(* replacement with a live one, whatever single failure the refresher and  *)
(* its own reads meet (worker_credentials, _start_refresh).                *)
StorageLives == turn = "running" => held > now

(* While the turn runs the CLI's model token works, through several failed *)
(* pushes in a row (_refresh_model_token, served_model_token).             *)
ModelLives == turn = "running" => cli > now

(* A turn adopted within the time detach() names keeps both tokens.        *)
AdoptedInTime == turn = "running" => held > now /\ cli > now
=============================================================================
