----------------------------- MODULE Submission -----------------------------
(***************************************************************************)
(* The API of mevshare/api.go: each request of mev_sendBundle runs through *)
(* SendBundle, with the other requests, the workers and the cancellations  *)
(* between any two of its accesses to shared state.  Bundles are cancelled *)
(* with CancelBundleByHash.                                                *)
(***************************************************************************)
EXTENDS Store, Inclusion

VARIABLES
  spc,          \* where SendBundle is for each request
  reply,        \* what it has returned
  knownBundle,  \* knownBundleCache: the MaxBlock of the bundle, or 0
  spike,        \* the cache of the spike manager: a submission, or Absent
  cpc,          \* where CancelBundleByHash is for each hash
  matched,      \* history: the hash of the bundle that each backrun contains, or Absent
  added         \* history: the requests that have been put into knownBundleCache

apiVars == <<spc, reply, knownBundle, spike, cpc, matched, added>>

\* What ValidateBundle leaves of a request.
Validated(s) ==
  [block |-> Request[s].block, maxBlock |-> Request[s].maxBlock, nonce |-> 0,
   bodyHashes |-> IF Request[s].match = Absent THEN {} ELSE {MatchingHash(Request[s].match)}]

\* The requests that will come, and the bundles that may be cancelled.
SubmissionInit(requests, cancellable) ==
  /\ bundle = [s \in Submissions |-> Validated(s)]
  /\ spc = [s \in Submissions |-> IF s \in requests THEN "new" ELSE "never"]
  /\ reply = [s \in Submissions |-> Absent]
  /\ knownBundle = [h \in Hashes |-> 0]
  /\ spike = [h \in Hashes |-> Absent]
  /\ cpc = [h \in Hashes |-> IF h \in cancellable THEN "idle" ELSE "never"]
  /\ matched = [s \in Submissions |-> Absent]
  /\ added = {}

-----------------------------------------------------------------------------
Goto(s, label) == spc' = [spc EXCEPT ![s] = label] /\ UNCHANGED reply

Reply(s, r) ==
  /\ spc' = [spc EXCEPT ![s] = "done"]
  /\ reply' = [reply EXCEPT ![s] = r]

newerInclusion_Swapped(old, s) == Request[s].maxBlock < old
newerInclusion(old, s) == old < Request[s].maxBlock

(***************************************************************************)
(* ValidateBundle, with a block number of the caching client, which may be *)
(* old, and the lookup in knownBundleCache: a known bundle whose inclusion *)
(* is not newer is not processed again.                                    *)
(***************************************************************************)
Receive(s) ==
  LET old == knownBundle[Request[s].hash]
      known == old # 0 /\ ~newerInclusion(old, s)
  IN  /\ spc[s] = "new"
      /\ \/ \E seen \in {block - 1, block} \cap Blocks :
              /\ \/ seen >= Request[s].maxBlock /\ Reply(s, "error")
                 \/ seen < Request[s].maxBlock /\ known /\ Reply(s, "known")
                 \/ seen < Request[s].maxBlock /\ ~known /\ Goto(s, "add")
              /\ UNCHANGED faults
         \/ Fault /\ Reply(s, "error")
      /\ UNCHANGED <<bundle, dbVars, redisVars, queue, block, knownBundle, spike, cpc, matched, added>>

AddKnown(s) ==
  /\ spc[s] = "add"
  /\ knownBundle' = [knownBundle EXCEPT ![Request[s].hash] = Request[s].maxBlock]
  /\ added' = added \cup {s}
  /\ Goto(s, IF Request[s].match = Absent THEN "nonce" ELSE "match")
  /\ UNCHANGED <<storeVars, spike, cpc, matched>>

-----------------------------------------------------------------------------
findAndReplace_Omitted(hashes, old, new) == hashes
findAndReplace(hashes, old, new) == {IF h = old THEN new ELSE h : h \in hashes}

\* The backrun s with the body of t, for the blocks of both.
MatchedBundle(s, t) ==
  [MergeInclusion(bundle[s], bundle[t]) EXCEPT
     !.bodyHashes = findAndReplace(@, MatchingHash(Request[s].match), BundleHash(Request[t].hash))]

\* The unmatched bundle t is found: the backrun s gets its body.
UseUnmatched(s, t) ==
  \/ /\ ~Request[t].hint \/ ~Overlap(bundle[s], bundle[t])
     /\ Reply(s, "error")
     /\ UNCHANGED <<bundle, matched>>
  \/ /\ Request[t].hint /\ Overlap(bundle[s], bundle[t])
     /\ bundle' = [bundle EXCEPT ![s] = MatchedBundle(s, t)]
     /\ matched' = [matched EXCEPT ![s] = Request[t].hash]
     /\ Goto(s, "nonce")

\* GetResult answers from the cache of the spike manager.
MatchCached(s) ==
  LET h == Request[s].match
  IN  /\ spc[s] = "match" /\ spike[h] # Absent
      /\ UseUnmatched(s, spike[h])
      /\ UNCHANGED <<dbVars, redisVars, queue, block, faults, knownBundle, spike, cpc, added>>

\* GetResult fetches GetBundleByMatchingHash, and errors are not cached.
MatchFetched(s) ==
  LET h == Request[s].match
  IN  /\ spc[s] = "match" /\ spike[h] = Absent
      /\ \/ /\ Matchable(h)
            /\ spike' = [spike EXCEPT ![h] = sbundle[h].body]
            /\ UseUnmatched(s, sbundle[h].body)
            /\ UNCHANGED faults
         \/ /\ ~Matchable(h)
            /\ Reply(s, "error")
            /\ UNCHANGED <<bundle, matched, spike, faults>>
         \/ /\ Fault
            /\ Reply(s, "error")
            /\ UNCHANGED <<bundle, matched, spike>>
      /\ UNCHANGED <<dbVars, redisVars, queue, block, knownBundle, cpc, added>>

\* An error may also hide that the nonce was incremented.
IncNonce(s) ==
  /\ spc[s] = "nonce"
  /\ \/ /\ Request[s].uuid = Absent
        /\ Goto(s, "schedule")
        /\ UNCHANGED <<bundle, nonces, faults>>
     \/ /\ Request[s].uuid # Absent
        /\ \E n \in 1 .. Cardinality(Submissions) :
             /\ IncReplacementNonce(Request[s].uuid, n)
             /\ bundle' = [bundle EXCEPT ![s].nonce = n]
        /\ Goto(s, "schedule")
        /\ UNCHANGED faults
     \/ /\ Request[s].uuid # Absent /\ Fault
        /\ nonces' \in {nonces, [nonces EXCEPT ![Request[s].uuid] = @ + 1]}
        /\ Reply(s, "error")
        /\ UNCHANGED bundle
  /\ UNCHANGED <<dbVars, cancelSet, published, queue, block, knownBundle, spike, cpc, matched, added>>

\* Push takes the bundle unless its blocks have passed or the queue refuses it;
\* an error may also hide that the item was added.
Schedule(s) ==
  LET b == bundle[s]
      target == IF b.block > block THEN b.block ELSE block + 1
  IN  /\ spc[s] = "schedule"
      /\ \/ /\ target <= b.maxBlock
            /\ queue' = queue \cup {[id |-> s, target |-> target]}
            /\ Reply(s, "hash")
            /\ UNCHANGED faults
         \/ /\ target > b.maxBlock
            /\ Reply(s, "error")
            /\ UNCHANGED <<queue, faults>>
         \/ /\ Fault
            /\ Reply(s, "error")
            /\ queue' \in {queue} \cup
                 {queue \cup {[id |-> s, target |-> t]} : t \in {target} \cap 0 .. b.maxBlock}
      /\ UNCHANGED <<bundle, dbVars, redisVars, block, knownBundle, spike, cpc, matched, added>>

SendBundle(s) ==
  \/ Receive(s) \/ AddKnown(s) \/ MatchCached(s) \/ MatchFetched(s)
  \/ IncNonce(s) \/ Schedule(s)

-----------------------------------------------------------------------------
\* CancelBundleByHash, the database first; a refused caller may call again.
CancelInDB(h) ==
  /\ cpc[h] = "idle"
  /\ \/ CancelRow(h) /\ cpc' = [cpc EXCEPT ![h] = "cache"] /\ UNCHANGED faults
     \/ CancelRow(h) /\ Fault /\ UNCHANGED cpc
  /\ UNCHANGED <<bundle, builderTable, hintHistory, statsFailed, redisVars, queue, block,
                 spc, reply, knownBundle, spike, matched, added>>

\* Then the cancellation cache; its error is only logged.
CancelInCache(h) ==
  /\ cpc[h] = "cache"
  /\ cpc' = [cpc EXCEPT ![h] = "done"]
  /\ \/ cancelSet' = cancelSet \cup {h} /\ UNCHANGED faults
     \/ Fault /\ UNCHANGED cancelSet
  /\ UNCHANGED <<bundle, dbVars, nonces, published, queue, block,
                 spc, reply, knownBundle, spike, matched, added>>

\* The entry of the spike manager times out.
ExpireSpike(h) ==
  /\ spike[h] # Absent
  /\ spike' = [spike EXCEPT ![h] = Absent]
  /\ UNCHANGED <<storeVars, spc, reply, knownBundle, cpc, matched, added>>

\* The LRU cache of known bundles evicts an entry.
Evict(h) ==
  /\ knownBundle[h] # 0
  /\ knownBundle' = [knownBundle EXCEPT ![h] = 0]
  /\ UNCHANGED <<storeVars, spc, reply, spike, cpc, matched, added>>

SubmissionNext ==
  \/ \E s \in Submissions : SendBundle(s)
  \/ \E h \in Hashes : CancelInDB(h) \/ CancelInCache(h) \/ ExpireSpike(h) \/ Evict(h)
=============================================================================
