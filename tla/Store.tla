-------------------------------- MODULE Store -------------------------------
(***************************************************************************)
(* What the parts of the node share: the tables of Postgres                *)
(* (mevshare/database.go), the cancellation and replacement caches in      *)
(* Redis (mevshare/cancellation_cache.go, adapters/redis/replacement.go),  *)
(* the hint channel, the queue as its users see it, and the block number.  *)
(* Each operation is one step of the database or of Redis.                 *)
(***************************************************************************)
EXTENDS Integers, FiniteSets

CONSTANTS
  Request,      \* the mev_sendBundle requests: a function from names to records
  MaxBlock      \* bound: last block of the chain

(***************************************************************************)
(* A request has the hash of its transactions, the blocks it asks for, the *)
(* replacement uuid and the hash of the bundle it backruns, which may be   *)
(* Absent, and whether it shares its hash as a hint, pays no priority fee, *)
(* and goes to an external builder that is delayed by a block.  A          *)
(* validated backrun shares nothing.  All requests have the same signer.   *)
(***************************************************************************)
Absent      == ""
Submissions == DOMAIN Request
Hashes      == {Request[s].hash : s \in Submissions}
UUIDs       == {Request[s].uuid : s \in Submissions} \ {Absent}
Blocks      == 0 .. MaxBlock

\* A body hash of a backrun is the hash of a bundle, or the matching hash that
\* is derived from it and differs from every hash of a bundle.
BundleHash(h)   == <<"bundle", h>>
MatchingHash(h) == <<"matching", h>>

ASSUME StoreAssumption ==
  /\ MaxBlock \in Nat \ {0}
  /\ \A s \in Submissions :
       /\ Request[s].block \in Blocks /\ Request[s].maxBlock \in Blocks
       /\ Request[s].block <= Request[s].maxBlock
       /\ Request[s].match \in Hashes \cup {Absent}
       /\ Request[s].match # Absent => ~Request[s].hint
       /\ Request[s].hint \in BOOLEAN /\ Request[s].zeroFee \in BOOLEAN
       /\ Request[s].delayed \in BOOLEAN
  /\ Absent \notin Hashes /\ Absent \notin Submissions

VARIABLES
  bundle,       \* what the node has made of each request: see Submission
  sbundle,      \* table sbundle: a row or NoRow for each hash
  builderTable, \* table sbundle_builder: the block of each hash, or 0
  hintHistory,  \* table sbundle_hint_history: rows for each hash
  published,    \* messages of each hash on the hint channel
  cancelSet,    \* the hashes in the cancellation cache
  nonces,       \* the replacement nonce of each uuid
  queue,        \* the queued items: a submission and the block to simulate for
  block,        \* the latest block
  faults,       \* bound: the calls of Postgres, Redis and the nodes that may still fail
  statsFailed   \* history: hashes for which InsertBundleForStats failed, and not as known

dbVars    == <<sbundle, builderTable, hintHistory, statsFailed>>
redisVars == <<cancelSet, nonces, published>>
storeVars == <<bundle, dbVars, redisVars, queue, block, faults>>

NoRow == [body |-> Absent]
Known(h) == sbundle[h] # NoRow

StoreInit(maxFaults) ==
  /\ sbundle = [h \in Hashes |-> NoRow]
  /\ builderTable = [h \in Hashes |-> 0]
  /\ hintHistory = [h \in Hashes |-> 0]
  /\ published = [h \in Hashes |-> 0]
  /\ cancelSet = {}
  /\ nonces = [u \in UUIDs |-> 0]
  /\ queue = {}
  /\ block = 1
  /\ faults = maxFaults
  /\ statsFailed = {}

Fault == faults > 0 /\ faults' = faults - 1

-----------------------------------------------------------------------------
\* sim_success of a known bundle after another simulation.
SimSuccess(row, success) == IF row.success THEN row.success ELSE success

\* The columns that the update of a known bundle sets; cancelled and
\* allow_matching stay what they are.
UpdatedRow_ResetsCancelled(row, s, success) ==
  [row EXCEPT !.success = SimSuccess(row, success), !.cancelled = FALSE, !.body = s]
UpdatedRow(row, s, success) ==
  [row EXCEPT !.success = SimSuccess(row, success), !.body = s]

\* The row of a new bundle.
NewRow_WithoutMatching(s, success) ==
  [success |-> success, cancelled |-> FALSE, matchable |-> FALSE, body |-> s]
NewRow(s, success) ==
  [success |-> success, cancelled |-> FALSE, matchable |-> Request[s].hint, body |-> s]

(***************************************************************************)
(* The transaction of InsertBundleForStats: a new hash is inserted, a      *)
(* known one updated.  It reports known, and on an error known says how    *)
(* far it came; a failed commit may have been applied all the same.        *)
(***************************************************************************)
InsertBundleForStats(s, success, known) ==
  LET h == Request[s].hash
      applied == [sbundle EXCEPT ![h] = IF known THEN UpdatedRow(@, s, success)
                                                 ELSE NewRow(s, success)]
  IN  \/ /\ known = Known(h)
         /\ sbundle' = applied
         /\ UNCHANGED <<faults, statsFailed>>
      \/ /\ known => Known(h)
         /\ Fault
         /\ statsFailed' = IF known THEN statsFailed ELSE statsFailed \cup {h}
         /\ \/ UNCHANGED sbundle
            \/ known = Known(h) /\ sbundle' = applied

\* The row of a bundle that can be matched by the hash it has hinted.
Matchable(h) == Known(h) /\ sbundle[h].matchable /\ ~sbundle[h].cancelled

\* The cancelling update finds the row, unless it is cancelled already.
CancelRow(h) ==
  /\ Known(h) /\ ~sbundle[h].cancelled
  /\ sbundle' = [sbundle EXCEPT ![h].cancelled = TRUE]

\* The upsert of InsertBundleForBuilder.
InsertBundleForBuilder(h, target) == builderTable' = [builderTable EXCEPT ![h] = target]

InsertHistoricalHint(h) == hintHistory' = [hintHistory EXCEPT ![h] = @ + 1]

\* INCR in Redis; the caller gets the new value.
IncReplacementNonce(u, n) == n = nonces[u] + 1 /\ nonces' = [nonces EXCEPT ![u] = n]
=============================================================================
