----------------------------- MODULE NodeProofs -----------------------------
(***************************************************************************)
(* The state of the node, for any requests, workers, failures, restarts    *)
(* and length of the chain: the types of its variables, that the rows of   *)
(* the bundles only advance, and that a request answered as known is       *)
(* covered by another.  Then what leaves the node: cancelled and replaced  *)
(* bundles are kept from the builders and the newest version is not,       *)
(* bundles are sent for blocks that were asked for, and hints are          *)
(* published once and can be matched.                                      *)
(***************************************************************************)
EXTENDS Node, TLAPS

-----------------------------------------------------------------------------
(* MergeInclusion is intersection, for all inclusions that are not empty.  *)
Intervals == {a \in [block : Nat, maxBlock : Nat] : a.block <= a.maxBlock}

(***************************************************************************)
(* MergeInclusionIntervals refuses exactly the inclusions that have no     *)
(* block in common: topLevel.MaxBlock < inner.BlockNumber or               *)
(* inner.MaxBlock < topLevel.BlockNumber.                                  *)
(***************************************************************************)
THEOREM RefusedIffDisjoint ==
  ASSUME NEW a \in Intervals, NEW b \in Intervals
  PROVE  Overlap(a, b) <=> BlocksOf(a) \cap BlocksOf(b) # {}
<1> USE DEF Intervals, Overlap, BlocksOf
<1>1. ASSUME Overlap(a, b) PROVE BlocksOf(a) \cap BlocksOf(b) # {}
  <2>1. CASE a.block <= b.block
    <3>1. b.block \in BlocksOf(a) /\ b.block \in BlocksOf(b)
      BY <1>1, <2>1, SMT, SMTT(30)
    <3> QED
      BY <3>1
  <2>2. CASE b.block < a.block
    <3>1. a.block \in BlocksOf(a) /\ a.block \in BlocksOf(b)
      BY <1>1, <2>2, SMT, SMTT(30)
    <3> QED
      BY <3>1
  <2> QED
    BY <2>1, <2>2, SMT, SMTT(30)
<1>2. ASSUME NEW n \in BlocksOf(a), n \in BlocksOf(b) PROVE Overlap(a, b)
  BY <1>2, SMT, SMTT(30)
<1> QED
  BY <1>1, <1>2

(***************************************************************************)
(* What it writes to topLevel is again an inclusion, for exactly the       *)
(* common blocks.                                                          *)
(***************************************************************************)
THEOREM MergeIsIntersection ==
  ASSUME NEW a \in Intervals, NEW b \in Intervals, Overlap(a, b)
  PROVE  /\ MergeInclusion(a, b) \in Intervals
         /\ BlocksOf(MergeInclusion(a, b)) = BlocksOf(a) \cap BlocksOf(b)
<1> DEFINE m == MergeInclusion(a, b)
<1>1. /\ m.block = IF a.block < b.block THEN b.block ELSE a.block
      /\ m.maxBlock = IF a.maxBlock > b.maxBlock THEN b.maxBlock ELSE a.maxBlock
      /\ m \in [block : Nat, maxBlock : Nat]
  BY Zenon DEF MergeInclusion, Intervals
<1>2. m.block <= m.maxBlock
  BY <1>1, SMT, SMTT(30) DEF Overlap, Intervals
<1>3. BlocksOf(m) = BlocksOf(a) \cap BlocksOf(b)
  BY <1>1, SMT, SMTT(30) DEF BlocksOf, Intervals
<1> QED
  BY <1>1, <1>2, <1>3 DEF Intervals

-----------------------------------------------------------------------------
(* The types of the variables, in full.                                    *)
BodyHashes == {BundleHash(h) : h \in Hashes} \cup {MatchingHash(h) : h \in Hashes}
Bundles    == [block : Blocks, maxBlock : Blocks, nonce : Nat, bodyHashes : SUBSET BodyHashes]

Outcomes == {"success", "revert", "nonceTooLow"}
Checking == [pc : {"check", "simulate"}, id : Submissions, target : Blocks,
             mustDrop : BOOLEAN, mustSkip : BOOLEAN]
Finishing == [pc : {"finish"}, id : Submissions, target : Blocks,
              mustDrop : BOOLEAN, mustSkip : BOOLEAN, state : Blocks, outcome : Outcomes]
Jobs == [id : Submissions, target : Blocks, state : Blocks, success : BOOLEAN, cancel : BOOLEAN,
         mustDrop : BOOLEAN, mustSkip : BOOLEAN,
         stats : {"insert", "hint", "history", "builder", "done"},
         send : {"todo", "skipped", "done", "hung"}]

StoreTypes ==
  /\ sbundle \in [Hashes -> Rows \cup {NoRow}]
  /\ builderTable \in [Hashes -> Nat] /\ hintHistory \in [Hashes -> Nat]
  /\ published \in [Hashes -> Nat] /\ cancelSet \subseteq Hashes
  /\ nonces \in [UUIDs -> Nat] /\ queue \subseteq Items
  /\ block \in Blocks /\ faults \in Nat /\ statsFailed \subseteq Hashes

CallTypes ==
  /\ spc \in [Submissions -> {"never", "new", "add", "match", "nonce", "schedule", "done"}]
  /\ reply \in [Submissions -> {Absent, "hash", "known", "error"}]
  /\ \A s \in Submissions : spc[s] = "match" => Request[s].match \in Hashes

ApiTypes ==
  /\ bundle \in [Submissions -> Bundles]
  /\ CallTypes
  /\ knownBundle \in [Hashes -> Blocks]
  /\ spike \in [Hashes -> Submissions \cup {Absent}]
  /\ cpc \in [Hashes -> {"never", "idle", "cache", "done"}]
  /\ matched \in [Submissions -> Hashes \cup {Absent}]

ProcTypes ==
  /\ work \in [Workers -> {Idle} \cup Checking \cup Finishing]
  /\ jobs \subseteq Jobs

Types == StoreTypes /\ ApiTypes /\ ProcTypes

\* What the assumption says of the requests, in terms of the node's sets.
LEMMA RequestFacts ==
  /\ MaxBlock \in Nat \ {0} /\ Blocks = 0 .. MaxBlock
  /\ \A s \in Submissions :
       /\ Request[s].hash \in Hashes /\ Request[s].hash # Absent
       /\ Request[s].block \in Blocks /\ Request[s].maxBlock \in Blocks
       /\ Request[s].block <= Request[s].maxBlock
       /\ Request[s].uuid # Absent => Request[s].uuid \in UUIDs
       /\ Request[s].match # Absent => Request[s].match \in Hashes
       /\ Request[s].hint \in BOOLEAN /\ Request[s].zeroFee \in BOOLEAN
  /\ Absent \notin Hashes /\ Absent \notin Submissions
BY StoreAssumption, Zenon DEF StoreAssumption, Blocks, Hashes, UUIDs

\* A worker is idle, or has an item, with the result of the simulation when
\* it is about to finish.
LEMMA WorkFacts ==
  ASSUME ProcTypes, NEW w \in Workers
  PROVE  /\ work[w].pc \in {"idle", "check", "simulate", "finish"}
         /\ work[w] = Idle <=> work[w].pc = "idle"
         /\ work[w].pc \in {"check", "simulate"} => work[w] \in Checking
         /\ work[w].pc = "finish" => work[w] \in Finishing
BY SMT, SMTT(30) DEF ProcTypes, Idle, Checking, Finishing

\* An item is put back for a block of the instance.
LEMMA AgainType ==
  ASSUME ApiTypes, NEW s \in Submissions, NEW t \in Blocks,
         NEW err \in {"worker", "lagging", "ok", "nextBlock", "unrecoverable"}
  PROVE  Again(s, t, err) \subseteq Blocks
<1>1. bundle[s].maxBlock \in Blocks
  BY DEF ApiTypes, Bundles
<1>2. \A m \in Blocks : 0 .. m \subseteq Blocks
  BY RequestFacts, SMT, SMTT(30)
<1>3. CASE err \in {"worker", "lagging"}
  BY <1>3 DEF Again
<1>4. CASE err \in {"ok", "nextBlock"}
  <2>1. Again(s, t, err) = {t + 1} \cap 0 .. bundle[s].maxBlock
    BY <1>4 DEF Again
  <2> QED
    BY <1>1, <1>2, <2>1
<1>5. CASE err = "unrecoverable"
  BY <1>5 DEF Again
<1> QED
  BY <1>3, <1>4, <1>5

\* The queue settles an item with a block of the chain.
LEMMA SettleType ==
  ASSUME Types, NEW w \in Workers, work[w] # Idle,
         NEW err \in {"worker", "lagging", "ok", "nextBlock", "unrecoverable"}, Settle(w, err)
  PROVE  queue' \subseteq Items /\ work' \in [Workers -> {Idle} \cup Checking \cup Finishing]
<1>1. work[w].id \in Submissions /\ work[w].target \in Blocks
  BY WorkFacts DEF Types, Checking, Finishing
<1>2. Again(work[w].id, work[w].target, err) \subseteq Blocks
  BY <1>1, AgainType DEF Types
<1>3. queue' \subseteq Items
  BY <1>1, <1>2, SMT, SMTT(30) DEF Settle, Items, Types, StoreTypes
<1>4. work' \in [Workers -> {Idle} \cup Checking \cup Finishing]
  BY Zenon DEF Settle, Types, ProcTypes
<1> QED
  BY <1>3, <1>4

\* Process returns no error or one of two.
LEMMA VerdictType ==
  ASSUME ProcTypes, NEW w \in Workers, work[w].pc = "finish"
  PROVE  Verdict(w) \in {"ok", "nextBlock", "unrecoverable"}
<1>1. work[w].outcome \in Outcomes
  BY WorkFacts DEF Finishing
<1> QED
  BY <1>1 DEF Verdict, Outcomes

\* Taking an item from the queue keeps the types.
LEMMA TakeTypes ==
  ASSUME Types, NEW w \in Workers, Take(w, matched)
  PROVE  queue' \subseteq Items /\ ProcTypes'
<1>1. PICK q \in queue : Take(w, matched)!2!(q)
  BY DEF Take
<1>2. q \in Items /\ q.id \in Submissions
  BY DEF Types, StoreTypes, Items
<1>3. queue' \subseteq Items /\ jobs' \subseteq Jobs
  BY <1>1 DEF Types, StoreTypes, ProcTypes, Take
<1>4. CASE Expired(q.id)
  BY <1>1, <1>3, <1>4 DEF Types, ProcTypes
<1>5. CASE ~Expired(q.id)
  <2> DEFINE drop == {Request[q.id].hash, matched[q.id]} \cap cancelSet # {}
             skip == Replaced(q.id)
             item == [pc |-> "check", id |-> q.id, target |-> block + 1,
                      mustDrop |-> drop, mustSkip |-> skip]
  <2>1. block + 1 \in Blocks
    <3>1. block \in Blocks /\ bundle[q.id].maxBlock \in Blocks
      BY <1>2 DEF Types, StoreTypes, ApiTypes, Bundles
    <3>2. ~(block + 1 > bundle[q.id].maxBlock)
      BY <1>5 DEF Expired
    <3>3. \A a, b \in Blocks : ~(a + 1 > b) => a + 1 \in Blocks
      BY RequestFacts, SMT, SMTT(30)
    <3> QED
      BY <3>1, <3>2, <3>3
  <2>2. drop \in BOOLEAN /\ skip \in BOOLEAN
    BY Zenon DEF Replaced
  <2>3. work' = [work EXCEPT ![w] = item]
    BY <1>1, <1>5, Zenon
  <2> HIDE DEF drop, skip
  <2>4. item \in Checking
    BY <1>2, <2>1, <2>2 DEF Checking
  <2> HIDE DEF item
  <2> QED
    BY <1>3, <2>3, <2>4, Zenon DEF Types, ProcTypes
<1> QED
  BY <1>4, <1>5

\* The updates of a job that the worker and the goroutines make keep its type.
LEMMA JobUpdates ==
  ASSUME NEW j \in Jobs
  PROVE  /\ [j EXCEPT !.mustSkip = FALSE] \in Jobs
         /\ \A x \in {"done", "hung"} : [j EXCEPT !.send = x] \in Jobs
         /\ \A x \in {"hint", "history", "builder", "done"} : [j EXCEPT !.stats = x] \in Jobs
BY Zenon DEF Jobs

\* So do the steps of Process.
LEMMA ProcessTypes ==
  ASSUME Types, NEW w \in Workers, Process(w)
  PROVE  queue' \subseteq Items /\ ProcTypes' /\ faults' \in Nat
<1> DEFINE Good == queue' \subseteq Items /\ work' \in [Workers -> {Idle} \cup Checking \cup Finishing]
<1>1. faults \in Nat /\ queue \subseteq Items /\ jobs \subseteq Jobs
      /\ work \in [Workers -> {Idle} \cup Checking \cup Finishing]
  BY DEF Types, StoreTypes, ProcTypes
<1>2. faults' = faults \/ Fault => faults' \in Nat
  BY <1>1, SMT, SMTT(30) DEF Fault
<1>3. CASE CheckCancelled(w)
  <2>1. work[w].pc = "check" /\ work[w] \in Checking /\ work[w] # Idle
    BY <1>3, WorkFacts DEF Types, CheckCancelled
  <2>2. ASSUME Settle(w, "unrecoverable")
        PROVE  Good
    BY <2>1, <2>2, SettleType
  <2>3. ASSUME work' = [work EXCEPT ![w].pc = "simulate"] /\ UNCHANGED queue
        PROVE  Good
    <3>1. [work[w] EXCEPT !.pc = "simulate"] \in Checking
      BY <2>1 DEF Checking
    <3> QED
      BY <1>1, <2>3, <3>1
  <2>4. ASSUME work' = [work EXCEPT ![w].pc = "simulate", ![w].mustDrop = FALSE] /\ UNCHANGED queue
        PROVE  Good
    <3>1. [work[w] EXCEPT !.pc = "simulate", !.mustDrop = FALSE] \in Checking
      BY <2>1, Zenon DEF Checking
    <3> QED
      BY <1>1, <2>4, <3>1
  <2>5. Good
    BY <1>3, <2>2, <2>3, <2>4, Zenon DEF CheckCancelled
  <2>6. jobs' = jobs /\ (faults' = faults \/ Fault)
    BY <1>3, Zenon DEF CheckCancelled
  <2> QED
    BY <1>1, <1>2, <2>5, <2>6, Zenon DEF ProcTypes
<1>4. CASE Simulate(w)
  <2>1. work[w].pc = "simulate" /\ work[w] \in Checking /\ work[w] # Idle
    BY <1>4, WorkFacts DEF Types, Simulate
  <2>2. ASSUME NEW err \in {"worker", "lagging"}, Settle(w, err) PROVE Good
    BY <2>1, <2>2, SettleType
  <2>3. ASSUME NEW state \in NodeStates, NEW outcome \in {"success", "revert", "nonceTooLow"},
               work' = [work EXCEPT ![w] =
                     [pc |-> "finish", id |-> @.id, target |-> @.target, mustDrop |-> @.mustDrop,
                      mustSkip |-> @.mustSkip, state |-> state, outcome |-> outcome]],
               UNCHANGED queue
        PROVE  Good
    <3> DEFINE item == [pc |-> "finish", id |-> work[w].id, target |-> work[w].target,
                        mustDrop |-> work[w].mustDrop, mustSkip |-> work[w].mustSkip,
                        state |-> state, outcome |-> outcome]
    <3>1. state \in Blocks
      BY DEF NodeStates
    <3>2. item \in Finishing
      BY <2>1, <3>1 DEF Checking, Finishing, Outcomes
    <3>3. work' = [work EXCEPT ![w] = item]
      BY <2>3
    <3> HIDE DEF item
    <3> QED
      BY <1>1, <2>3, <3>2, <3>3, Zenon
  <2>4. Good /\ jobs' = jobs /\ (faults' = faults \/ Fault)
    BY <1>4, <2>2, <2>3, Zenon DEF Simulate
  <2> QED
    BY <1>1, <1>2, <2>4, Zenon DEF ProcTypes
<1>5. CASE Finish(w)
  <2>1. work[w].pc = "finish" /\ work[w] \in Finishing /\ work[w] # Idle
    BY <1>5, WorkFacts DEF Types, Finish
  <2>2. Verdict(w) \in {"ok", "nextBlock", "unrecoverable"}
    BY <2>1, VerdictType DEF Types
  <2>3. ASSUME NEW err \in {Verdict(w), "ok"}, Settle(w, err) PROVE Good
    BY <2>1, <2>2, <2>3, SettleType
  <2>4. \A cancel, old \in BOOLEAN : NewJob(w, cancel, old) \in Jobs
    BY <2>1, RequestFacts DEF NewJob, Jobs, Finishing
  <2>5. \A cancel, old \in BOOLEAN : [NewJob(w, cancel, old) EXCEPT !.mustSkip = FALSE] \in Jobs
    BY <2>4, JobUpdates, Zenon
  <2>6. IsOldBundle(work[w].id) \in BOOLEAN
        /\ (Uuid(work[w].id) # Absent /\ work[w].outcome # "success") \in BOOLEAN
    BY Zenon DEF IsOldBundle, Replaced
  <2>7. jobs' \subseteq Jobs /\ (faults' = faults \/ Fault)
    BY <1>1, <1>5, <2>4, <2>5, <2>6, Zenon DEF Finish
  <2>8. Good
    BY <1>5, <2>3, Zenon DEF Finish
  <2> QED
    BY <1>2, <2>7, <2>8, Zenon DEF ProcTypes
<1> QED
  BY <1>3, <1>4, <1>5, Zenon DEF Process

\* A row is told from a missing one by its body.
LEMMA KnownFacts ==
  ASSUME StoreTypes, NEW h \in Hashes
  PROVE  /\ Known(h) <=> sbundle[h] \in Rows
         /\ \A r \in Rows : r # NoRow
<1>1. \A r \in Rows : r.body # Absent
  BY RequestFacts, Zenon DEF Rows
<1>2. NoRow.body = Absent
  BY DEF NoRow
<1> QED
  BY <1>1, <1>2, Zenon DEF StoreTypes, Known

\* Both inserts write rows.
LEMMA RowUpdates ==
  ASSUME NEW s \in Submissions, NEW success \in BOOLEAN
  PROVE  /\ NewRow(s, success) \in Rows
         /\ \A r \in Rows : UpdatedRow(r, s, success) \in Rows
<1>1. NewRow(s, success) \in Rows
  BY RequestFacts DEF NewRow, Rows
<1>2. \A r \in Rows : SimSuccess(r, success) \in BOOLEAN
  BY Zenon DEF SimSuccess, Rows
<1>3. \A r \in Rows : \A b \in BOOLEAN : [r EXCEPT !.success = b, !.body = s] \in Rows
  BY Zenon DEF Rows
<1> QED
  BY <1>1, <1>2, <1>3, Zenon DEF UpdatedRow

\* InsertBundleForStats replaces the row of a hash by another row, if at all.
LEMMA InsertTypes ==
  ASSUME StoreTypes, NEW s \in Submissions, NEW success \in BOOLEAN, NEW known \in BOOLEAN,
         InsertBundleForStats(s, success, known)
  PROVE  /\ sbundle' \in [Hashes -> Rows \cup {NoRow}]
         /\ faults' \in Nat /\ statsFailed' \subseteq Hashes
<1> DEFINE h == Request[s].hash
           row == IF known THEN UpdatedRow(sbundle[h], s, success) ELSE NewRow(s, success)
<1>1. h \in Hashes
  BY RequestFacts
<1>2. known = Known(h) => row \in Rows
  BY <1>1, KnownFacts, RowUpdates, Zenon
<1>3. sbundle' = sbundle \/ (known = Known(h) /\ sbundle' = [sbundle EXCEPT ![h] = row])
  BY Zenon DEF InsertBundleForStats
<1> HIDE DEF row
<1>4. sbundle' \in [Hashes -> Rows \cup {NoRow}]
  BY <1>1, <1>2, <1>3, Zenon DEF StoreTypes
<1>5. faults' \in Nat /\ statsFailed' \subseteq Hashes
  BY <1>1, SMT, SMTT(30) DEF StoreTypes, InsertBundleForStats, Fault
<1> QED
  BY <1>4, <1>5

\* The steps of a job keep the types.
LEMMA SimulatedBundleTypes ==
  ASSUME Types, NEW j \in jobs, SimulatedBundle(j)
  PROVE  StoreTypes' /\ jobs' \subseteq Jobs
<1>1. /\ j \in Jobs /\ j.id \in Submissions /\ j.success \in BOOLEAN /\ j.state \in Blocks
      /\ Request[j.id].hash \in Hashes /\ Request[j.id].hint \in BOOLEAN
  BY RequestFacts DEF Types, ProcTypes, Jobs
<1>2. StoreTypes /\ jobs \subseteq Jobs
  BY DEF Types, ProcTypes
<1>3. ASSUME NEW x \in {"hint", "history", "builder", "done"}, Becomes(j, [j EXCEPT !.stats = x])
      PROVE  jobs' \subseteq Jobs
  BY <1>1, <1>2, <1>3, JobUpdates, Zenon DEF Becomes
<1>4. faults' = faults \/ Fault => faults' \in Nat
  BY <1>2, SMT, SMTT(30) DEF StoreTypes, Fault
<1>5. CASE JobInsert(j)
  <2>1. PICK known \in BOOLEAN : /\ InsertBundleForStats(j.id, j.success, known)
                                 /\ Becomes(j, [j EXCEPT !.stats = AfterInsert(j, known)])
    BY <1>5 DEF JobInsert
  <2>2. AfterInsert(j, known) \in {"hint", "history", "builder", "done"}
    BY Zenon DEF AfterInsert
  <2>3. jobs' \subseteq Jobs
    BY <1>3, <2>1, <2>2
  <2>4. /\ sbundle' \in [Hashes -> Rows \cup {NoRow}]
        /\ faults' \in Nat /\ statsFailed' \subseteq Hashes
    BY <1>1, <1>2, <2>1, InsertTypes
  <2> QED
    BY <1>2, <1>5, <2>3, <2>4 DEF StoreTypes, JobInsert, redisVars
<1>6. CASE JobPublish(j)
  <2>1. jobs' \subseteq Jobs
    BY <1>3, <1>6, Zenon DEF JobPublish
  <2>2. published' \in [Hashes -> Nat] /\ (faults' = faults \/ Fault)
    BY <1>1, <1>2, <1>6, SMT, SMTT(30) DEF JobPublish, StoreTypes
  <2> QED
    BY <1>2, <1>4, <1>6, <2>1, <2>2 DEF JobPublish, StoreTypes, dbVars
<1>7. CASE JobHistory(j)
  <2>1. jobs' \subseteq Jobs
    BY <1>3, <1>7, Zenon DEF JobHistory
  <2>2. hintHistory' \in [Hashes -> Nat] /\ (faults' = faults \/ Fault)
    BY <1>1, <1>2, <1>7, SMT, SMTT(30) DEF JobHistory, StoreTypes, InsertHistoricalHint
  <2> QED
    BY <1>2, <1>4, <1>7, <2>1, <2>2 DEF JobHistory, StoreTypes, redisVars
<1>8. CASE JobBuilderTable(j)
  <2>1. jobs' \subseteq Jobs
    BY <1>3, <1>8, Zenon DEF JobBuilderTable
  <2>2. j.state + 1 \in Nat
    BY <1>1, RequestFacts, SMT, SMTT(30)
  <2>3. builderTable' \in [Hashes -> Nat] /\ (faults' = faults \/ Fault)
    BY <1>1, <1>2, <1>8, <2>2 DEF JobBuilderTable, StoreTypes, InsertBundleForBuilder
  <2> QED
    BY <1>2, <1>4, <1>8, <2>1, <2>3 DEF JobBuilderTable, StoreTypes, redisVars
<1>9. CASE JobSend(j)
  <2>1. PICK x \in {"done", "hung"} : Becomes(j, [j EXCEPT !.send = x])
    BY <1>9, Zenon DEF JobSend
  <2>2. jobs' \subseteq Jobs
    BY <1>1, <1>2, <2>1, JobUpdates, Zenon DEF Becomes
  <2> QED
    BY <1>2, <1>9, <2>2 DEF JobSend, StoreTypes, storeVars, dbVars, redisVars
<1> QED
  BY <1>5, <1>6, <1>7, <1>8, <1>9 DEF SimulatedBundle

\* So does an answer to a request.
LEMMA ReplyTypes ==
  ASSUME CallTypes, NEW s \in Submissions, NEW r \in {"hash", "known", "error"}, Reply(s, r)
  PROVE  CallTypes'
BY DEF CallTypes, Reply

\* So does a request that goes on.
LEMMA GotoTypes ==
  ASSUME CallTypes, NEW s \in Submissions, NEW l \in {"add", "match", "nonce", "schedule"},
         Goto(s, l), l = "match" => Request[s].match \in Hashes
  PROVE  CallTypes'
BY DEF CallTypes, Goto

\* What matching does to the parts of a bundle.
LEMMA MatchedBundleFacts ==
  ASSUME ApiTypes, NEW s \in Submissions, NEW t \in Submissions
  PROVE  /\ MatchedBundle(s, t) \in Bundles
         /\ MatchedBundle(s, t).nonce = bundle[s].nonce
         /\ MatchedBundle(s, t).bodyHashes =
              findAndReplace(bundle[s].bodyHashes, MatchingHash(Request[s].match), BundleHash(Request[t].hash))
         /\ MatchedBundle(s, t).block =
              IF bundle[s].block < bundle[t].block THEN bundle[t].block ELSE bundle[s].block
         /\ MatchedBundle(s, t).maxBlock =
              IF bundle[s].maxBlock > bundle[t].maxBlock THEN bundle[t].maxBlock ELSE bundle[s].maxBlock
<1> DEFINE lo == IF bundle[s].block < bundle[t].block THEN bundle[t].block ELSE bundle[s].block
           hi == IF bundle[s].maxBlock > bundle[t].maxBlock THEN bundle[t].maxBlock ELSE bundle[s].maxBlock
           new == findAndReplace(bundle[s].bodyHashes, MatchingHash(Request[s].match),
                                 BundleHash(Request[t].hash))
<1>1. bundle[s] \in Bundles /\ bundle[t] \in Bundles
  BY DEF ApiTypes
<1>2. lo \in Blocks /\ hi \in Blocks
  BY <1>1 DEF Bundles
<1>3. new \in SUBSET BodyHashes
  <2>1. BundleHash(Request[t].hash) \in BodyHashes
    BY RequestFacts, Zenon DEF BodyHashes
  <2>2. bundle[s].bodyHashes \subseteq BodyHashes
    BY <1>1 DEF Bundles
  <2> QED
    BY <2>1, <2>2, Zenon DEF findAndReplace
<1>4. MatchedBundle(s, t) = [bundle[s] EXCEPT !.block = lo, !.maxBlock = hi, !.bodyHashes = new]
  BY <1>1 DEF MatchedBundle, MergeInclusion, Bundles
<1> HIDE DEF lo, hi, new
<1>5. /\ MatchedBundle(s, t) \in Bundles
      /\ MatchedBundle(s, t).nonce = bundle[s].nonce /\ MatchedBundle(s, t).bodyHashes = new
      /\ MatchedBundle(s, t).block = lo /\ MatchedBundle(s, t).maxBlock = hi
  BY <1>1, <1>2, <1>3, <1>4, Zenon DEF Bundles
<1> QED
  BY <1>5 DEF lo, hi, new

\* A backrun is answered with an error, or becomes the matched bundle.
LEMMA UseUnmatchedCases ==
  ASSUME ApiTypes, NEW s \in Submissions, NEW t, UseUnmatched(s, t)
  PROVE  \/ Reply(s, "error") /\ UNCHANGED <<bundle, matched>>
         \/ /\ Request[t].hint /\ Overlap(bundle[s], bundle[t])
            /\ bundle' = [bundle EXCEPT ![s] = MatchedBundle(s, t)]
            /\ matched' = [matched EXCEPT ![s] = Request[t].hash]
            /\ Goto(s, "nonce")
BY DEF UseUnmatched

\* Matching keeps the types.
LEMMA UseUnmatchedTypes ==
  ASSUME ApiTypes, NEW s \in Submissions, NEW t \in Submissions, UseUnmatched(s, t)
  PROVE  /\ bundle' \in [Submissions -> Bundles] /\ CallTypes'
         /\ matched' \in [Submissions -> Hashes \cup {Absent}]
<1>1. CallTypes /\ bundle \in [Submissions -> Bundles] /\ matched \in [Submissions -> Hashes \cup {Absent}]
  BY DEF ApiTypes
<1>2. MatchedBundle(s, t) \in Bundles /\ Request[t].hash \in Hashes
  BY MatchedBundleFacts, RequestFacts
<1>3. CallTypes'
  <2>1. Reply(s, "error") => CallTypes'
    BY <1>1, ReplyTypes
  <2>2. Goto(s, "nonce") => CallTypes'
    BY <1>1, GotoTypes
  <2> QED
    BY <2>1, <2>2, UseUnmatchedCases, Zenon
<1> QED
  BY <1>1, <1>2, <1>3, UseUnmatchedCases, SMT, SMTT(30)

\* Each step of SendBundle keeps the types.
LEMMA SendBundleTypes ==
  ASSUME Types, NEW s \in Submissions, SendBundle(s)
  PROVE  StoreTypes' /\ ApiTypes'
<1>1. /\ StoreTypes /\ ApiTypes /\ CallTypes
      /\ Request[s].hash \in Hashes /\ Request[s].maxBlock \in Blocks
      /\ bundle[s] \in Bundles
  BY RequestFacts DEF Types, ApiTypes
<1>2. faults' = faults \/ Fault => faults' \in Nat
  BY <1>1, SMT, SMTT(30) DEF StoreTypes, Fault
<1>3. ASSUME NEW r \in {"hash", "known", "error"}, Reply(s, r) PROVE CallTypes'
  BY <1>1, <1>3, ReplyTypes
<1>4. CASE Receive(s)
  <2>1. Goto(s, "add") => CallTypes'
    BY <1>1, GotoTypes
  <2>2. CallTypes' /\ (faults' = faults \/ Fault)
    BY <1>3, <1>4, <2>1 DEF Receive
  <2>3. UNCHANGED <<bundle, dbVars, redisVars, queue, block, knownBundle, spike, cpc, matched>>
    BY <1>4 DEF Receive
  <2> QED
    BY <1>1, <1>2, <2>2, <2>3 DEF StoreTypes, ApiTypes, dbVars, redisVars
<1>5. CASE AddKnown(s)
  <2>1. Goto(s, "nonce") => CallTypes'
    BY <1>1, GotoTypes
  <2>2. Request[s].match # Absent /\ Goto(s, "match") => CallTypes'
    BY <1>1, GotoTypes, RequestFacts
  <2>3. CallTypes'
    BY <1>5, <2>1, <2>2 DEF AddKnown
  <2>4. knownBundle' \in [Hashes -> Blocks] /\ UNCHANGED <<storeVars, spike, cpc, matched>>
    BY <1>1, <1>5 DEF AddKnown, ApiTypes
  <2> QED
    BY <1>1, <2>3, <2>4 DEF StoreTypes, ApiTypes, storeVars, dbVars, redisVars
<1>6. CASE MatchCached(s) \/ MatchFetched(s)
  <2> DEFINE h == Request[s].match
  <2>1. h \in Hashes
    BY <1>1, <1>6 DEF MatchCached, MatchFetched, CallTypes
  <2>2. spike[h] # Absent => spike[h] \in Submissions
    BY <1>1, <2>1, Zenon DEF ApiTypes
  <2>3. Known(h) => sbundle[h].body \in Submissions
    BY <1>1, <2>1, KnownFacts DEF Rows
  <2>4. /\ bundle' \in [Submissions -> Bundles] /\ CallTypes'
        /\ matched' \in [Submissions -> Hashes \cup {Absent}]
    <3>1. Reply(s, "error") => CallTypes'
      BY <1>3
    <3>2. bundle \in [Submissions -> Bundles] /\ matched \in [Submissions -> Hashes \cup {Absent}]
      BY <1>1 DEF ApiTypes
    <3>3. CASE UNCHANGED <<bundle, matched>> /\ Reply(s, "error")
      BY <3>1, <3>2, <3>3
    <3>4. ASSUME NEW t \in Submissions, UseUnmatched(s, t)
          PROVE  /\ bundle' \in [Submissions -> Bundles] /\ CallTypes'
                 /\ matched' \in [Submissions -> Hashes \cup {Absent}]
      BY <1>1, <3>4, UseUnmatchedTypes
    <3> QED
      BY <1>6, <2>2, <2>3, <3>3, <3>4, Zenon DEF MatchCached, MatchFetched, Matchable
  <2>5. spike' \in [Hashes -> Submissions \cup {Absent}]
    <3>1. spike' = spike \/ (Known(h) /\ spike' = [spike EXCEPT ![h] = sbundle[h].body])
      BY <1>6, Zenon DEF MatchCached, MatchFetched, Matchable
    <3> QED
      BY <1>1, <2>1, <2>3, <3>1, Zenon DEF ApiTypes
  <2>6. (faults' = faults \/ Fault) /\ UNCHANGED <<dbVars, redisVars, queue, block, knownBundle, cpc>>
    BY <1>6, Zenon DEF MatchCached, MatchFetched
  <2> QED
    BY <1>1, <1>2, <2>4, <2>5, <2>6 DEF StoreTypes, ApiTypes, dbVars, redisVars
<1>7. CASE IncNonce(s)
  <2>1. CallTypes'
    <3>1. Goto(s, "schedule") => CallTypes'
      BY <1>1, GotoTypes
    <3> QED
      BY <1>3, <1>7, <3>1 DEF IncNonce
  <2>2. nonces' \in [UUIDs -> Nat]
    <3> DEFINE u == Request[s].uuid
    <3>1. \/ nonces' = nonces
          \/ u # Absent /\ \E n \in Nat : nonces' = [nonces EXCEPT ![u] = n]
          \/ u # Absent /\ nonces' = [nonces EXCEPT ![u] = @ + 1]
      BY <1>7 DEF IncNonce, IncReplacementNonce
    <3>2. u # Absent => u \in UUIDs
      BY RequestFacts
    <3> QED
      BY <1>1, <3>1, <3>2, SMT, SMTT(30) DEF StoreTypes
  <2>3. bundle' \in [Submissions -> Bundles]
    <3>1. \A n \in Nat : [bundle[s] EXCEPT !.nonce = n] \in Bundles
      BY <1>1 DEF Bundles
    <3>2. bundle' = bundle \/ \E n \in Nat : bundle' = [bundle EXCEPT ![s].nonce = n]
      BY <1>7, SMT, SMTT(30) DEF IncNonce
    <3> QED
      BY <1>1, <3>1, <3>2, Zenon DEF ApiTypes
  <2>4. /\ (faults' = faults \/ Fault)
        /\ UNCHANGED <<dbVars, cancelSet, published, queue, block, knownBundle, spike, cpc, matched>>
    BY <1>7, Zenon DEF IncNonce
  <2> QED
    BY <1>1, <1>2, <2>1, <2>2, <2>3, <2>4 DEF StoreTypes, ApiTypes, dbVars
<1>8. CASE Schedule(s)
  <2> DEFINE target == IF bundle[s].block > block THEN bundle[s].block ELSE block + 1
  <2>1. target <= bundle[s].maxBlock => target \in Blocks
    BY <1>1, RequestFacts, SMT, SMTT(30) DEF StoreTypes, Bundles
  <2>2. \A t \in {target} \cap 0 .. bundle[s].maxBlock : t \in Blocks
    BY <1>1, RequestFacts, SMT, SMTT(30) DEF Bundles
  <2>3. \A t \in Blocks : [id |-> s, target |-> t] \in Items
    BY DEF Items
  <2>4. queue' \subseteq Items
    <3>1. \/ queue' = queue
          \/ target <= bundle[s].maxBlock /\ queue' = queue \cup {[id |-> s, target |-> target]}
          \/ \E t \in {target} \cap 0 .. bundle[s].maxBlock :
               queue' = queue \cup {[id |-> s, target |-> t]}
      BY <1>8, Zenon DEF Schedule
    <3> HIDE DEF target
    <3>2. queue' = queue \/ \E t \in Blocks : queue' = queue \cup {[id |-> s, target |-> t]}
      BY <2>1, <2>2, <3>1, Zenon
    <3>3. queue \subseteq Items
      BY <1>1 DEF StoreTypes
    <3> QED
      BY <2>3, <3>2, <3>3, SMT, SMTT(30)
  <2>5. CallTypes' /\ (faults' = faults \/ Fault)
    BY <1>3, <1>8 DEF Schedule
  <2>6. UNCHANGED <<bundle, dbVars, redisVars, block, knownBundle, spike, cpc, matched>>
    BY <1>8 DEF Schedule
  <2> QED
    BY <1>1, <1>2, <2>4, <2>5, <2>6 DEF StoreTypes, ApiTypes, dbVars, redisVars
<1> QED
  BY <1>4, <1>5, <1>6, <1>7, <1>8 DEF SendBundle

\* Cancellations, expiry and eviction keep the types.
LEMMA CancelTypes ==
  ASSUME Types, NEW h \in Hashes, CancelInDB(h) \/ CancelInCache(h) \/ ExpireSpike(h) \/ Evict(h)
  PROVE  StoreTypes' /\ ApiTypes'
<1>1. StoreTypes /\ ApiTypes
  BY DEF Types
<1>2. faults' = faults \/ Fault => faults' \in Nat
  BY <1>1, SMTT(30), SMTT(60) DEF StoreTypes, Fault
<1>3. CASE CancelInDB(h)
  <2>1. Known(h) /\ sbundle' = [sbundle EXCEPT ![h].cancelled = TRUE]
    BY <1>3 DEF CancelInDB, CancelRow
  <2>2. [sbundle[h] EXCEPT !.cancelled = TRUE] \in Rows
    BY <1>1, <2>1, KnownFacts, Zenon DEF Rows
  <2>3. sbundle' \in [Hashes -> Rows \cup {NoRow}]
    BY <1>1, <2>1, <2>2, Zenon DEF StoreTypes
  <2>4. cpc' \in [Hashes -> {"never", "idle", "cache", "done"}] /\ (faults' = faults \/ Fault)
    BY <1>1, <1>3, SMT, Zenon, SMTT(30) DEF CancelInDB, ApiTypes
  <2> QED
    BY <1>1, <1>2, <1>3, <2>3, <2>4 DEF CancelInDB, StoreTypes, ApiTypes, CallTypes, redisVars
<1>4. CASE CancelInCache(h)
  <2>1. /\ cancelSet' \subseteq Hashes /\ cpc' \in [Hashes -> {"never", "idle", "cache", "done"}]
        /\ (faults' = faults \/ Fault)
    BY <1>1, <1>4, Zenon DEF CancelInCache, StoreTypes, ApiTypes
  <2> QED
    BY <1>1, <1>2, <1>4, <2>1 DEF CancelInCache, StoreTypes, ApiTypes, CallTypes, dbVars
<1>5. CASE ExpireSpike(h)
  BY <1>1, <1>5, Zenon DEF ExpireSpike, StoreTypes, ApiTypes, CallTypes, storeVars, dbVars, redisVars
<1>6. CASE Evict(h)
  <2>1. knownBundle' \in [Hashes -> Blocks]
    BY <1>1, <1>6, RequestFacts, SMT, SMTT(30) DEF Evict, ApiTypes
  <2> QED
    BY <1>1, <1>6, <2>1, Zenon DEF Evict, StoreTypes, ApiTypes, CallTypes, storeVars, dbVars, redisVars
<1> QED
  BY <1>3, <1>4, <1>5, <1>6

\* A restart keeps the types.
LEMMA RestartTypes ==
  ASSUME Types, Restart
  PROVE  StoreTypes' /\ ApiTypes' /\ ProcTypes'
<1>1. CallTypes'
  BY Zenon DEF Types, ApiTypes, CallTypes, Restart
<1>2. /\ knownBundle' \in [Hashes -> Blocks] /\ spike' \in [Hashes -> Submissions \cup {Absent}]
      /\ cpc' \in [Hashes -> {"never", "idle", "cache", "done"}]
  <2>1. 0 \in Blocks
    BY RequestFacts, SMT, SMTT(30)
  <2>2. /\ knownBundle' = [h \in Hashes |-> 0]
        /\ spike' = [h \in Hashes |-> Absent]
        /\ cpc' = [h \in Hashes |-> IF cpc[h] = "cache" THEN "idle" ELSE cpc[h]]
    BY Zenon DEF Restart
  <2>3. cpc \in [Hashes -> {"never", "idle", "cache", "done"}]
    BY Zenon DEF Types, ApiTypes
  <2>4. cpc' \in [Hashes -> {"never", "idle", "cache", "done"}]
    BY <2>2, <2>3
  <2>. QED
    BY <2>1, <2>2, <2>4, Zenon
<1>3. work' \in [Workers -> {Idle} \cup Checking \cup Finishing] /\ jobs' \subseteq Jobs
  BY Zenon DEF Restart
<1>4. UNCHANGED <<storeVars, matched>>
  BY DEF Restart
<1> QED
  BY <1>1, <1>2, <1>3, <1>4 DEF Types, StoreTypes, ApiTypes, ProcTypes, storeVars, dbVars, redisVars

\* The types hold initially.
LEMMA TypesInit == Init => Types
<1> SUFFICES ASSUME Init PROVE Types
  OBVIOUS
<1>1. PICK x \in Scenarios : /\ StoreInit(x.faults) /\ SubmissionInit(x.requests, x.cancellable)
                             /\ ProcessingInit
  BY DEF Init
<1>2. x.faults \in Nat
  BY NodeAssumption DEF NodeAssumption
<1>3. 1 \in Blocks /\ 0 \in Blocks
  BY RequestFacts, SMT, SMTT(30)
<1>4. StoreTypes
  BY <1>1, <1>2, <1>3 DEF StoreInit, StoreTypes
<1>5. \A s \in Submissions : Validated(s) \in Bundles
  <2> SUFFICES ASSUME NEW s \in Submissions PROVE Validated(s) \in Bundles
    OBVIOUS
  <2> DEFINE body == IF Request[s].match = Absent THEN {} ELSE {MatchingHash(Request[s].match)}
  <2>1. body \in SUBSET BodyHashes
    BY RequestFacts, Zenon DEF BodyHashes
  <2>2. Validated(s) = [block |-> Request[s].block, maxBlock |-> Request[s].maxBlock, nonce |-> 0,
                        bodyHashes |-> body]
    BY DEF Validated
  <2> HIDE DEF body
  <2> QED
    BY <2>1, <2>2, RequestFacts, SMT, SMTT(30) DEF Bundles
<1>6. ApiTypes
  <2>1. CallTypes
    BY <1>1 DEF SubmissionInit, CallTypes
  <2> QED
    BY <1>1, <1>3, <1>5, <2>1 DEF SubmissionInit, ApiTypes
<1>7. ProcTypes
  BY <1>1, Zenon DEF ProcessingInit, ProcTypes
<1> QED
  BY <1>4, <1>6, <1>7 DEF Types

\* Every step keeps them.
LEMMA TypesStep ==
  ASSUME Types, [Next]_vars
  PROVE  Types'
<1>1. StoreTypes /\ ApiTypes /\ ProcTypes
  BY DEF Types
<1>2. ASSUME SubmissionNext, UNCHANGED procVars PROVE Types'
  <2>1. StoreTypes' /\ ApiTypes'
    BY <1>2, SendBundleTypes, CancelTypes, Zenon DEF SubmissionNext
  <2> QED
    BY <1>1, <1>2, <2>1 DEF Types, ProcTypes, procVars
<1>3. ASSUME NEW w \in Workers, WorkerStep(w) PROVE Types'
  <2>1. /\ queue' \subseteq Items /\ ProcTypes' /\ faults' \in Nat
    <3>1. CASE Take(w, matched)
      <4>1. faults' = faults
        BY <3>1 DEF Take
      <4> QED
        BY <1>1, <3>1, <4>1, TakeTypes DEF StoreTypes
    <3>2. CASE Process(w)
      BY <3>2, ProcessTypes
    <3> QED
      BY <1>3, <3>1, <3>2 DEF WorkerStep
  <2>2. UNCHANGED <<bundle, dbVars, redisVars, block, apiVars>>
    BY <1>3, Zenon DEF WorkerStep, Take, Process, CheckCancelled, Simulate, Finish
  <2> QED
    BY <1>1, <2>1, <2>2 DEF Types, StoreTypes, ApiTypes, CallTypes, dbVars, redisVars, apiVars
<1>4. ASSUME JobStep PROVE Types'
  <2>1. PICK j \in jobs : SimulatedBundle(j)
    BY <1>4 DEF JobStep
  <2>2. StoreTypes' /\ jobs' \subseteq Jobs
    BY <2>1, SimulatedBundleTypes
  <2>3. UNCHANGED <<bundle, work, apiVars>>
    BY <1>4, <2>1, SMTT(30), SMTT(60) DEF JobStep, SimulatedBundle, JobInsert, JobPublish, JobHistory,
                      JobBuilderTable, JobSend, storeVars
  <2> QED
    BY <1>1, <2>2, <2>3 DEF Types, ApiTypes, CallTypes, ProcTypes, apiVars
<1>5. CASE NewBlock
  <2>1. block' \in Blocks
    BY <1>1, <1>5, RequestFacts, SMT, SMTT(30) DEF NewBlock, StoreTypes
  <2> QED
    BY <1>1, <1>5, <2>1 DEF NewBlock, Types, StoreTypes, ApiTypes, CallTypes, ProcTypes, dbVars,
                            redisVars, apiVars, procVars
<1>6. CASE Restart
  BY <1>6, RestartTypes, Zenon DEF Types
<1>7. CASE UNCHANGED vars
  BY <1>1, <1>7 DEF vars, Types, StoreTypes, ApiTypes, CallTypes, ProcTypes, storeVars, dbVars,
                    redisVars, apiVars, procVars
<1> QED
  BY <1>2, <1>3, <1>4, <1>5, <1>6, <1>7, Zenon DEF Next

\* They are an invariant.
LEMMA TypesHold == Spec => []Types
<1>1. Types /\ [Next]_vars => Types'
  BY TypesStep
<1> QED
  BY <1>1, TypesInit, PTL DEF Spec

(***************************************************************************)
(* The variables keep their types: in particular an item is queued for a   *)
(* block of the chain only, since a worker drops one whose blocks have     *)
(* passed and the queue keeps none past the last block of its bundle.      *)
(***************************************************************************)
THEOREM TypeCorrect == Spec => []TypeOK
<1>1. Types => TypeOK
  <2> SUFFICES ASSUME Types PROVE TypeOK
    OBVIOUS
  <2>1. \A s \in Submissions : /\ bundle[s].block \in Blocks /\ bundle[s].maxBlock \in Blocks
                               /\ bundle[s].nonce \in Nat
    BY DEF Types, ApiTypes, Bundles
  <2>2. \A h \in Hashes : Known(h) => sbundle[h] \in Rows
    BY KnownFacts DEF Types
  <2>3. \A w \in Workers : work[w] # Idle => work[w].id \in Submissions
    BY WorkFacts DEF Types, Checking, Finishing
  <2>4. \A j \in jobs : j.id \in Submissions
    BY DEF Types, ProcTypes, Jobs
  <2> QED
    BY <2>1, <2>2, <2>3, <2>4 DEF TypeOK, Types, StoreTypes, ApiTypes, CallTypes
<1> QED
  BY <1>1, TypesHold, PTL

-----------------------------------------------------------------------------
(* What the steps leave alone.                                             *)
CallFrame(s) ==
  /\ UNCHANGED <<sbundle, builderTable, hintHistory, statsFailed, cancelSet, published, block, cpc>>
  /\ UNCHANGED <<work, jobs, crashes>> /\ added \subseteq added'
  /\ \A t \in Submissions \ {s} : /\ spc'[t] = spc[t] /\ reply'[t] = reply[t]
                                 /\ bundle'[t] = bundle[t] /\ matched'[t] = matched[t]

CancelFrame ==
  /\ UNCHANGED <<bundle, builderTable, hintHistory, statsFailed, nonces, published, queue, block>>
  /\ UNCHANGED <<spc, reply, matched, added, work, jobs, crashes>>

WorkerFrame ==
  /\ UNCHANGED <<bundle, sbundle, builderTable, hintHistory, statsFailed>>
  /\ UNCHANGED <<cancelSet, nonces, published, block>>
  /\ UNCHANGED <<spc, reply, knownBundle, spike, cpc, matched, added, crashes>>

JobFrame ==
  /\ UNCHANGED <<bundle, cancelSet, nonces, queue, block, work>>
  /\ UNCHANGED <<spc, reply, knownBundle, spike, cpc, matched, added, crashes>>

BlockFrame ==
  /\ UNCHANGED <<bundle, sbundle, builderTable, hintHistory, statsFailed>>
  /\ UNCHANGED <<cancelSet, nonces, published, queue, work, jobs>>
  /\ UNCHANGED <<spc, reply, knownBundle, spike, cpc, matched, added>>

RestartFrame ==
  UNCHANGED <<bundle, sbundle, statsFailed, cancelSet, nonces, published, queue, matched, added>>

CancelStep(h) == CancelInDB(h) \/ CancelInCache(h) \/ ExpireSpike(h) \/ Evict(h)

\* What UseUnmatched, Reply and Goto leave to the other requests.
LEMMA CallLeavesOthers ==
  ASSUME Types, NEW s \in Submissions, SendBundle(s)
  PROVE  \A t \in Submissions \ {s} : /\ spc'[t] = spc[t] /\ reply'[t] = reply[t]
                                      /\ bundle'[t] = bundle[t] /\ matched'[t] = matched[t]
<1> DEFINE Others(f, g) == \A t \in Submissions \ {s} : g[t] = f[t]
<1>1. /\ \A x : Others(spc, [spc EXCEPT ![s] = x]) /\ Others(reply, [reply EXCEPT ![s] = x])
      /\ \A x : Others(matched, [matched EXCEPT ![s] = x]) /\ Others(bundle, [bundle EXCEPT ![s] = x])
      /\ \A x : Others(bundle, [bundle EXCEPT ![s].nonce = x])
  BY DEF Types, ApiTypes, CallTypes
<1>2. Others(spc, spc) /\ Others(reply, reply) /\ Others(bundle, bundle) /\ Others(matched, matched)
  OBVIOUS
<1> HIDE DEF Others
<1>3. ASSUME NEW r, Reply(s, r) \/ Goto(s, r) PROVE Others(spc, spc') /\ Others(reply, reply')
  BY <1>1, <1>2, <1>3, Zenon DEF Reply, Goto
<1>4. Others(spc, spc') /\ Others(reply, reply')
  BY <1>3, Zenon DEF SendBundle, Receive, AddKnown, MatchCached, MatchFetched, UseUnmatched,
                     IncNonce, Schedule
<1>5. /\ bundle' = bundle \/ \E x : bundle' = [bundle EXCEPT ![s] = x] \/ bundle' = [bundle EXCEPT ![s].nonce = x]
      /\ matched' = matched \/ \E x : matched' = [matched EXCEPT ![s] = x]
  BY Zenon DEF SendBundle, Receive, AddKnown, MatchCached, MatchFetched, UseUnmatched,
               IncNonce, Schedule, storeVars
<1>6. Others(bundle, bundle') /\ Others(matched, matched')
  BY <1>1, <1>2, <1>5, Zenon
<1> QED
  BY <1>4, <1>6, Zenon DEF Others

\* Every step is one of these, and changes only what its frame leaves open.
LEMMA Frames ==
  ASSUME Types, [Next]_vars
  PROVE  \/ \E s \in Submissions : SendBundle(s) /\ CallFrame(s)
         \/ \E h \in Hashes : CancelStep(h) /\ CancelFrame
         \/ \E w \in Workers : (Take(w, matched) \/ Process(w)) /\ WorkerFrame
         \/ \E j \in jobs : SimulatedBundle(j) /\ JobFrame
         \/ NewBlock /\ BlockFrame
         \/ Restart /\ RestartFrame
         \/ UNCHANGED vars /\ BlockFrame
<1>1. ASSUME NEW s \in Submissions, SendBundle(s), UNCHANGED <<procVars, crashes>> PROVE CallFrame(s)
  <2>1. UNCHANGED <<sbundle, builderTable, hintHistory, statsFailed, cancelSet, published, block, cpc>>
    BY <1>1, Zenon DEF SendBundle, Receive, AddKnown, MatchCached, MatchFetched, IncNonce, Schedule,
                       storeVars, redisVars, dbVars
  <2>2. added' = added \/ added' = added \cup {s}
    BY <1>1, Zenon DEF SendBundle, Receive, AddKnown, MatchCached, MatchFetched, IncNonce, Schedule
  <2> QED
    BY <1>1, <2>1, <2>2, CallLeavesOthers, Zenon DEF CallFrame, procVars
<1>2. ASSUME NEW h \in Hashes, CancelStep(h), UNCHANGED <<procVars, crashes>> PROVE CancelFrame
  BY <1>2, Zenon DEF CancelStep, CancelInDB, CancelInCache, ExpireSpike, Evict, CancelFrame,
                     storeVars, redisVars, dbVars, procVars
<1>3. ASSUME NEW w \in Workers, WorkerStep(w) PROVE WorkerFrame
  BY <1>3, Zenon DEF WorkerStep, Take, Process, CheckCancelled, Simulate, Finish, WorkerFrame,
                     redisVars, dbVars, apiVars
<1>4. ASSUME NEW j \in jobs, SimulatedBundle(j), UNCHANGED <<apiVars, crashes>> PROVE JobFrame
  BY <1>4, Zenon DEF SimulatedBundle, JobInsert, JobPublish, JobHistory, JobBuilderTable, JobSend,
                     JobFrame, storeVars, redisVars, apiVars
<1>5. NewBlock \/ UNCHANGED vars => BlockFrame
  BY Zenon DEF NewBlock, vars, BlockFrame, storeVars, redisVars, dbVars, procVars, apiVars
<1>6. Restart => RestartFrame
  BY Zenon DEF Restart, RestartFrame, storeVars, redisVars, dbVars
<1> QED
  BY <1>1, <1>2, <1>3, <1>4, <1>5, <1>6, Zenon DEF Next, SubmissionNext, WorkerStep, JobStep, CancelStep

-----------------------------------------------------------------------------
(* The rows of the bundles.                                                *)

\* What a row keeps.
Advances(old, new) ==
  /\ new \in Rows
  /\ old.cancelled => new.cancelled
  /\ old.success => new.success
  /\ old.matchable => new.matchable

(***************************************************************************)
(* A step that writes a row is a cancellation or an insert: it leaves the  *)
(* other rows, and advances the row or makes a new one.                    *)
(***************************************************************************)
RowMove == \A h \in Hashes : sbundle'[h] = sbundle[h] \/ (Known(h) => Advances(sbundle[h], sbundle'[h]))

\* The update of a known row advances it.
LEMMA UpdateAdvances ==
  ASSUME NEW r \in Rows, NEW s \in Submissions, NEW success \in BOOLEAN
  PROVE  Advances(r, UpdatedRow(r, s, success))
<1>1. UpdatedRow(r, s, success) \in Rows
  BY RowUpdates
<1>2. SimSuccess(r, success) \in BOOLEAN /\ (r.success => SimSuccess(r, success))
  BY Zenon DEF SimSuccess, Rows
<1>3. \A b \in BOOLEAN : LET u == [r EXCEPT !.success = b, !.body = s] IN
        u.cancelled = r.cancelled /\ u.matchable = r.matchable /\ u.success = b
  BY DEF Rows
<1> QED
  BY <1>1, <1>2, <1>3, Zenon DEF Advances, UpdatedRow

\* Every step moves the rows so.
LEMMA AlwaysRowMove ==
  ASSUME Types, [Next]_vars
  PROVE  RowMove
<1>1. ASSUME sbundle' = sbundle PROVE RowMove
  BY <1>1 DEF RowMove
<1>2. ASSUME NEW h \in Hashes, CancelInDB(h) PROVE RowMove
  <2>1. Known(h) /\ sbundle' = [sbundle EXCEPT ![h].cancelled = TRUE]
    BY <1>2 DEF CancelInDB, CancelRow
  <2>2. sbundle'[h] = [sbundle[h] EXCEPT !.cancelled = TRUE] /\ sbundle[h] \in Rows
    BY <2>1, KnownFacts DEF Types, StoreTypes
  <2>3. Advances(sbundle[h], sbundle'[h])
    <3>1. \A r \in Rows : LET u == [r EXCEPT !.cancelled = TRUE] IN
            u \in Rows /\ u.cancelled /\ u.success = r.success /\ u.matchable = r.matchable
      BY Zenon DEF Rows
    <3> QED
      BY <2>2, <3>1, Zenon DEF Advances
  <2>4. \A g \in Hashes \ {h} : sbundle'[g] = sbundle[g]
    BY <2>1 DEF Types, StoreTypes
  <2> QED
    BY <2>3, <2>4 DEF RowMove
<1>3. ASSUME NEW j \in jobs, NEW known \in BOOLEAN, InsertBundleForStats(j.id, j.success, known)
      PROVE  RowMove
  <2> DEFINE h == Request[j.id].hash
             row == IF known THEN UpdatedRow(sbundle[h], j.id, j.success) ELSE NewRow(j.id, j.success)
  <2>1. j.id \in Submissions /\ j.success \in BOOLEAN /\ h \in Hashes
    BY RequestFacts DEF Types, ProcTypes, Jobs
  <2>2. sbundle' = sbundle \/ (known = Known(h) /\ sbundle' = [sbundle EXCEPT ![h] = row])
    BY <1>3, Zenon DEF InsertBundleForStats
  <2>3. known = Known(h) /\ Known(h) => Advances(sbundle[h], row)
    BY <2>1, KnownFacts, UpdateAdvances, Zenon DEF Types
  <2> HIDE DEF row, h
  <2>4. CASE known = Known(h) /\ sbundle' = [sbundle EXCEPT ![h] = row]
    <3>1. sbundle'[h] = row /\ \A g \in Hashes \ {h} : sbundle'[g] = sbundle[g]
      BY <2>1, <2>4 DEF Types, StoreTypes
    <3> QED
      BY <2>3, <2>4, <3>1, Zenon DEF RowMove
  <2> QED
    BY <1>1, <2>2, <2>4
<1>4. ASSUME NEW h \in Hashes, CancelStep(h) PROVE RowMove
  <2>1. CASE CancelInDB(h)
    BY <1>2, <2>1
  <2>2. CASE ~CancelInDB(h)
    <3>1. sbundle' = sbundle
      BY <1>4, <2>2, Zenon DEF CancelStep, CancelInCache, ExpireSpike, Evict, storeVars, dbVars
    <3> QED
      BY <1>1, <3>1
  <2> QED
    BY <2>1, <2>2
<1>5. ASSUME NEW j \in jobs, SimulatedBundle(j) PROVE RowMove
  <2>1. CASE JobInsert(j)
    BY <1>3, <2>1 DEF JobInsert
  <2>2. CASE ~JobInsert(j)
    <3>1. sbundle' = sbundle
      BY <1>5, <2>2, Zenon DEF SimulatedBundle, JobPublish, JobHistory, JobBuilderTable, JobSend,
                               storeVars, dbVars
    <3> QED
      BY <1>1, <3>1
  <2> QED
    BY <2>1, <2>2
<1> QED
  BY <1>1, <1>4, <1>5, Frames, Zenon DEF CallFrame, WorkerFrame, BlockFrame, RestartFrame

(***************************************************************************)
(* A cancelled row stays cancelled and one that has succeeded keeps        *)
(* sim_success, whichever of the insert, the update and the cancellation   *)
(* writes it next.                                                         *)
(***************************************************************************)
THEOREM RowsNeverForget == Spec => RowsOnlyAdvance
<1> DEFINE Step == \A h \in Hashes : Known(h) =>
                     /\ Known(h)'
                     /\ sbundle[h].cancelled => sbundle'[h].cancelled
                     /\ sbundle[h].success => sbundle'[h].success
<1>1. Types /\ [Next]_vars => [Step]_vars
  <2> SUFFICES ASSUME Types, [Next]_vars, NEW h \in Hashes, Known(h)
               PROVE  /\ Known(h)'
                      /\ sbundle[h].cancelled => sbundle'[h].cancelled
                      /\ sbundle[h].success => sbundle'[h].success
    OBVIOUS
  <2>1. sbundle'[h] = sbundle[h] \/ Advances(sbundle[h], sbundle'[h])
    BY AlwaysRowMove DEF RowMove
  <2>2. sbundle'[h] # NoRow
    BY <2>1, KnownFacts DEF Known, Advances, Types
  <2> QED
    BY <2>1, <2>2 DEF Advances, Known
<1> QED
  BY <1>1, TypesHold, PTL DEF Spec, RowsOnlyAdvance

-----------------------------------------------------------------------------
(* The cache of known bundles.                                             *)

\* A request that entered the cache; when it is answered, it is not as known.
TakenOn(t) ==
  /\ t \in added /\ spc[t] \notin {"never", "new", "add"}
  /\ spc[t] = "done" => reply[t] \in {"hash", "error"}

\* The bundles in the cache, and those answered as known, have a request that was taken on.
KnownInv ==
  /\ \A h \in Hashes : knownBundle[h] # 0 =>
       \E t \in Submissions :
         Request[t].hash = h /\ Request[t].maxBlock = knownBundle[h] /\ TakenOn(t)
  /\ \A s \in Submissions : reply[s] = "known" =>
       /\ spc[s] = "done"
       /\ \E t \in Submissions \ {s} :
            /\ Request[t].hash = Request[s].hash /\ Request[t].maxBlock >= Request[s].maxBlock
            /\ TakenOn(t)

\* Nothing is known initially.
LEMMA KnownInit == Init => KnownInv
<1>1. Absent # "known"
  BY Zenon DEF Absent
<1> QED
  BY <1>1 DEF Init, SubmissionInit, KnownInv

\* An answered request stays answered.
LEMMA StaysDone ==
  ASSUME Types, [Next]_vars, NEW t \in Submissions, spc[t] = "done"
  PROVE  spc'[t] = "done"
<1>1. ASSUME NEW s \in Submissions, SendBundle(s) PROVE spc[s] # "done"
  BY <1>1 DEF SendBundle, Receive, AddKnown, MatchCached, MatchFetched, IncNonce, Schedule
<1>2. ASSUME Restart PROVE spc'[t] = "done"
  BY <1>2 DEF Restart
<1> QED
  BY <1>1, <1>2, Frames, Zenon DEF CallFrame, CancelFrame, WorkerFrame, JobFrame, BlockFrame

\* A request that was taken on stays so: it is never answered as known later.
LEMMA StaysTakenOn ==
  ASSUME Types, [Next]_vars, NEW t \in Submissions, TakenOn(t)
  PROVE  TakenOn(t)'
<1>1. /\ spc \in [Submissions -> {"never", "new", "add", "match", "nonce", "schedule", "done"}]
      /\ reply \in [Submissions -> {Absent, "hash", "known", "error"}]
  BY DEF Types, ApiTypes, CallTypes
<1>2. ASSUME spc'[t] = spc[t], reply'[t] = reply[t], added \subseteq added' PROVE TakenOn(t)'
  BY <1>2 DEF TakenOn
<1>3. ASSUME SendBundle(t), added \subseteq added' PROVE TakenOn(t)'
  <2>1. ASSUME NEW x \in {"match", "nonce", "schedule"}, Goto(t, x) PROVE TakenOn(t)'
    BY <1>1, <1>3, <2>1 DEF Goto, TakenOn
  <2>2. ASSUME NEW r \in {"hash", "error"}, Reply(t, r) PROVE TakenOn(t)'
    BY <1>1, <1>3, <2>2 DEF Reply, TakenOn
  <2>3. ~Receive(t) /\ ~AddKnown(t)
    BY DEF Receive, AddKnown, TakenOn
  <2> QED
    BY <1>3, <2>1, <2>2, <2>3, Zenon DEF SendBundle, MatchCached, MatchFetched,
                                         UseUnmatched, IncNonce, Schedule
<1>4. CASE Restart
  BY <1>4 DEF Restart, TakenOn
<1> QED
  BY <1>2, <1>3, <1>4, Frames, Zenon DEF CallFrame, CancelFrame, WorkerFrame, JobFrame, BlockFrame

\* Every step keeps KnownInv.
LEMMA KnownStep ==
  ASSUME Types, [Next]_vars, KnownInv
  PROVE  KnownInv'
<1> DEFINE Cached(h) == knownBundle[h] # 0 =>
             \E t \in Submissions :
               Request[t].hash = h /\ Request[t].maxBlock = knownBundle[h] /\ TakenOn(t)
           Covered(s) == reply[s] = "known" =>
             /\ spc[s] = "done"
             /\ \E t \in Submissions \ {s} :
                  /\ Request[t].hash = Request[s].hash /\ Request[t].maxBlock >= Request[s].maxBlock
                  /\ TakenOn(t)
           Good == (\A h \in Hashes : Cached(h)) /\ \A s \in Submissions : Covered(s)
<1>1. Good
  BY Zenon DEF KnownInv
<1>2. Good' => KnownInv'
  BY Zenon DEF KnownInv
<1>3. \A t \in Submissions : TakenOn(t) => TakenOn(t)'
  BY StaysTakenOn
<1>4. /\ spc \in [Submissions -> {"never", "new", "add", "match", "nonce", "schedule", "done"}]
      /\ reply \in [Submissions -> {Absent, "hash", "known", "error"}]
      /\ knownBundle \in [Hashes -> Blocks]
  BY DEF Types, ApiTypes, CallTypes
<1>5. ASSUME NEW h \in Hashes, knownBundle'[h] \in {knownBundle[h], 0} PROVE Cached(h)'
  BY <1>1, <1>3, <1>5
<1>6. ASSUME NEW s \in Submissions, reply'[s] = "known" => reply[s] = "known" PROVE Covered(s)'
  <2>1. spc[s] = "done" => spc'[s] = "done"
    BY StaysDone
  <2> QED
    BY <1>1, <1>3, <1>6, <2>1
<1>7. ASSUME NEW s \in Submissions, Receive(s), reply'[s] = "known" PROVE Covered(s)'
  <2>1. /\ spc[s] = "new" /\ Reply(s, "known")
        /\ knownBundle[Request[s].hash] # 0 /\ ~newerInclusion(knownBundle[Request[s].hash], s)
    <3>1. reply[s] # "known"
      BY <1>1, <1>7, Zenon DEF Receive
    <3> QED
      BY <1>4, <1>7, <3>1 DEF Receive, Reply, Goto
  <2>2. PICK t \in Submissions : /\ Request[t].hash = Request[s].hash /\ TakenOn(t)
                                 /\ Request[t].maxBlock = knownBundle[Request[s].hash]
    BY <1>1, <2>1, RequestFacts, SMT, SMTT(30)
  <2>3. Request[t].maxBlock >= Request[s].maxBlock
    BY <2>1, <2>2, RequestFacts, SMT, SMTT(30) DEF newerInclusion
  <2>4. t # s
    BY <2>1, <2>2 DEF TakenOn
  <2>5. spc'[s] = "done"
    BY <1>4, <2>1 DEF Reply
  <2> QED
    BY <1>3, <2>2, <2>3, <2>4, <2>5
<1>8. ASSUME NEW s \in Submissions, AddKnown(s) PROVE Cached(Request[s].hash)'
  <2>1. TakenOn(s)'
    <3>1. s \in added' /\ \E x \in {"match", "nonce"} : Goto(s, x)
      BY <1>8 DEF AddKnown
    <3> QED
      BY <1>4, <3>1 DEF Goto, TakenOn
  <2>2. knownBundle'[Request[s].hash] = Request[s].maxBlock
    <3>1. Request[s].hash \in Hashes
      BY RequestFacts
    <3>2. knownBundle' = [knownBundle EXCEPT ![Request[s].hash] = Request[s].maxBlock]
      BY <1>8, SMT, Zenon, SMTT(30) DEF AddKnown
    <3> QED
      BY <1>4, <3>1, <3>2, Zenon
  <2> QED
    BY <2>1, <2>2
<1>9. ASSUME NEW s \in Submissions, SendBundle(s), CallFrame(s) PROVE Good'
  <2>1. \A t \in Submissions \ {s} : reply'[t] = reply[t]
    BY <1>9, Zenon DEF CallFrame
  <2>2. Receive(s) \/ (reply'[s] = "known" => reply[s] = "known")
    <3>1. ASSUME NEW x, Goto(s, x) PROVE reply'[s] = reply[s]
      BY <3>1 DEF Goto
    <3>2. ASSUME NEW r \in {"hash", "error"}, Reply(s, r) PROVE reply'[s] # "known"
      BY <1>4, <3>2 DEF Reply
    <3> QED
      BY <1>9, <3>1, <3>2, Zenon DEF SendBundle, AddKnown, MatchCached, MatchFetched,
                                     UseUnmatched, IncNonce, Schedule
  <2>3. \A t \in Submissions : Covered(t)'
    BY <1>6, <1>7, <2>1, <2>2, Zenon
  <2>4. CASE AddKnown(s)
    <3>1. \A h \in Hashes \ {Request[s].hash} : knownBundle'[h] = knownBundle[h]
      BY <1>4, <2>4 DEF AddKnown
    <3>2. Cached(Request[s].hash)'
      BY <1>8, <2>4
    <3>3. ASSUME NEW h \in Hashes, h # Request[s].hash PROVE Cached(h)'
      BY <1>5, <3>1, <3>3, Zenon
    <3>4. \A h \in Hashes : Cached(h)'
      BY <3>2, <3>3
    <3> QED
      BY <2>3, <3>4, Zenon
  <2>5. CASE ~AddKnown(s)
    <3>1. knownBundle' = knownBundle
      BY <1>9, <2>5, Zenon DEF SendBundle, Receive, MatchCached, MatchFetched, IncNonce, Schedule
    <3> QED
      BY <1>5, <2>3, <3>1, Zenon
  <2> QED
    BY <2>4, <2>5
<1>10. ASSUME \A h \in Hashes : knownBundle'[h] \in {knownBundle[h], 0},
              \A s \in Submissions : reply'[s] = "known" => reply[s] = "known"
       PROVE  Good'
  BY <1>5, <1>6, <1>10, Zenon
<1>11. ASSUME NEW h \in Hashes, CancelStep(h) PROVE Good'
  <2>1. reply' = reply /\ (knownBundle' = knownBundle \/ knownBundle' = [knownBundle EXCEPT ![h] = 0])
    BY <1>11, Zenon DEF CancelStep, CancelInDB, CancelInCache, ExpireSpike, Evict
  <2>2. \A g \in Hashes : knownBundle'[g] \in {knownBundle[g], 0}
    BY <1>4, <2>1
  <2> QED
    BY <1>10, <2>1, <2>2, Zenon
<1>12. ASSUME UNCHANGED <<reply, knownBundle>> PROVE Good'
  BY <1>10, <1>12, Zenon
<1>13. ASSUME Restart PROVE Good'
  <2>1. (\A h \in Hashes : knownBundle'[h] = 0) /\ \A s \in Submissions : reply'[s] \in {reply[s], "error"}
    BY <1>13 DEF Restart
  <2> QED
    BY <1>10, <2>1, Zenon
<1> HIDE DEF Good
<1> QED
  BY <1>2, <1>9, <1>11, <1>12, <1>13, Frames, Zenon DEF WorkerFrame, JobFrame, BlockFrame

(***************************************************************************)
(* A request that is answered as known is covered by another one of the    *)
(* same bundle, with blocks at least as far, that has passed validation    *)
(* and been scheduled, or is on its way, or has failed with an error to    *)
(* its own sender: knownBundleCache has an entry only for such a request,  *)
(* also after evictions and a restart, which only empty it.                *)
(***************************************************************************)
THEOREM KnownAreCovered == Spec => []KnownIsCovered
<1>1. Types /\ KnownInv /\ [Next]_vars => KnownInv'
  BY KnownStep
<1>2. KnownInv => KnownIsCovered
  BY Zenon DEF KnownInv, KnownIsCovered, TakenOn
<1> QED
  BY <1>1, <1>2, TypesHold, KnownInit, PTL DEF Spec

-----------------------------------------------------------------------------
(* What is sent to the builders.                                           *)

\* What is queued, with a worker or with a job has been answered.
ItemsAreAnswered ==
  /\ \A q \in queue : spc[q.id] = "done"
  /\ \A w \in Workers : work[w] # Idle => spc[work[w].id] = "done"
  /\ \A j \in jobs : spc[j.id] = "done"

\* The blocks of a bundle are blocks that its request asks for, and that a
\* request of the bundle it contains asks for.
WithinRequest(s, t) == Request[t].block <= bundle[s].block /\ bundle[s].maxBlock <= Request[t].maxBlock

BundleSound(s) ==
  /\ spc[s] \in {"never", "new", "add", "match"} => matched[s] = Absent /\ bundle[s] = Validated(s)
  /\ WithinRequest(s, s)
  /\ matched[s] # Absent =>
       /\ BundleHash(matched[s]) \in bundle[s].bodyHashes
       /\ \E t \in Submissions : Request[t].hash = matched[s] /\ WithinRequest(s, t)

\* A simulation succeeds for a block of the bundle only.
SucceededInRange(s, state) == bundle[s].block <= state + 1 /\ state + 1 <= bundle[s].maxBlock

WorkSound(w) ==
  /\ work[w].pc = "check" /\ work[w].mustDrop => CancelHashes(work[w].id) \cap cancelSet # {}
  /\ work[w].pc \in {"simulate", "finish"} => ~work[w].mustDrop
  /\ work[w] # Idle /\ work[w].mustSkip => Replaced(work[w].id)
  /\ work[w].pc = "finish" /\ work[w].outcome = "success" =>
       SucceededInRange(work[w].id, work[w].state)

JobSound(j) ==
  /\ ~j.mustDrop
  /\ j.send = "todo" => ~j.mustSkip /\ (j.success \/ j.cancel)
  /\ j.send = "skipped" /\ j.success /\ ~Request[j.id].zeroFee => Replaced(j.id)
  /\ j.success => SucceededInRange(j.id, j.state)

SendInv ==
  /\ ItemsAreAnswered
  /\ \A s \in Submissions : BundleSound(s)
  /\ \A w \in Workers : WorkSound(w)
  /\ \A j \in jobs : JobSound(j)

(***************************************************************************)
(* A request that has been answered stays so, with its bundle; hashes stay *)
(* in the cancellation cache, and nonces only grow.                        *)
(***************************************************************************)
Stable ==
  /\ \A s \in Submissions : spc[s] = "done" =>
       spc'[s] = "done" /\ bundle'[s] = bundle[s] /\ matched'[s] = matched[s]
  /\ cancelSet \subseteq cancelSet'
  /\ \A u \in UUIDs : nonces[u] <= nonces'[u]

\* Every step is stable so.
LEMMA AlwaysStable ==
  ASSUME Types, [Next]_vars
  PROVE  Stable
<1>1. nonces \in [UUIDs -> Nat] /\ \A u \in UUIDs : nonces[u] <= nonces[u]
  BY SMT, SMTT(30) DEF Types, StoreTypes
<1>2. \A s \in Submissions : spc[s] = "done" => spc'[s] = "done"
  BY StaysDone
<1>3. ASSUME UNCHANGED <<bundle, matched, cancelSet, nonces>> PROVE Stable
  BY <1>1, <1>2, <1>3 DEF Stable
<1>4. ASSUME NEW s \in Submissions, SendBundle(s), CallFrame(s) PROVE Stable
  <2>1. spc[s] # "done"
    BY <1>4 DEF SendBundle, Receive, AddKnown, MatchCached, MatchFetched, IncNonce, Schedule
  <2>2. \A u \in UUIDs : nonces[u] <= nonces'[u]
    <3>1. CASE IncNonce(s)
      BY <1>1, <3>1, RequestFacts, SMT, SMTT(30) DEF IncNonce, IncReplacementNonce
    <3>2. CASE ~IncNonce(s)
      <4>1. nonces' = nonces
        BY <1>4, <3>2, Zenon DEF SendBundle, Receive, AddKnown, MatchCached, MatchFetched, Schedule,
                                 redisVars, storeVars
      <4> QED
        BY <1>1, <4>1
    <3> QED
      BY <3>1, <3>2
  <2> QED
    BY <1>2, <1>4, <2>1, <2>2, Zenon DEF Stable, CallFrame
<1>5. ASSUME NEW h \in Hashes, CancelStep(h), CancelFrame PROVE Stable
  <2>1. cancelSet \subseteq cancelSet'
    BY <1>5 DEF CancelStep, CancelInDB, CancelInCache, ExpireSpike, Evict, redisVars, storeVars
  <2> QED
    BY <1>1, <1>2, <1>5, <2>1 DEF Stable, CancelFrame
<1> QED
  BY <1>3, <1>4, <1>5, Frames, Zenon DEF WorkerFrame, JobFrame, BlockFrame, RestartFrame

\* So the verdicts on an answered request are never taken back.
LEMMA StableVerdicts ==
  ASSUME Types, Types', Stable, NEW s \in Submissions, spc[s] = "done"
  PROVE  /\ Replaced(s) => Replaced(s)'
         /\ CancelHashes(s) \cap cancelSet # {} => (CancelHashes(s) \cap cancelSet # {})'
         /\ \A state : SucceededInRange(s, state)' <=> SucceededInRange(s, state)
<1>1. bundle'[s] = bundle[s] /\ cancelSet \subseteq cancelSet' /\ bundle[s].nonce \in Nat
  BY SMT, Zenon, SMTT(30) DEF Stable, Types, ApiTypes, Bundles
<1>2. Uuid(s) # Absent => /\ nonces[Uuid(s)] \in Nat /\ nonces'[Uuid(s)] \in Nat
                          /\ nonces[Uuid(s)] <= nonces'[Uuid(s)]
  BY RequestFacts DEF Stable, Types, StoreTypes, Uuid
<1>3. Replaced(s) => Replaced(s)'
  BY <1>1, <1>2, SMT, SMTT(30) DEF Replaced, Uuid
<1>4. CancelHashes(s)' = CancelHashes(s)
  BY <1>1 DEF CancelHashes
<1>5. \A state : SucceededInRange(s, state)' <=> SucceededInRange(s, state)
  BY <1>1 DEF SucceededInRange
<1> QED
  BY <1>1, <1>3, <1>4, <1>5, ZenonT(30)

(***************************************************************************)
(* What a step may do to the queue, to a worker and to the jobs.           *)
(***************************************************************************)
QueueMove ==
  \A q \in queue' : \/ q \in queue
                    \/ \E w \in Workers : work[w] # Idle /\ q.id = work[w].id
                    \/ spc'[q.id] = "done"

TakeMove(w) ==
  \E q \in queue :
    /\ work'[w].pc = "check" /\ work'[w].id = q.id
    /\ work'[w].mustDrop => {Request[q.id].hash, matched[q.id]} \cap cancelSet # {}
    /\ work'[w].mustSkip => Replaced(q.id)

CheckMove(w) ==
  /\ work[w].pc = "check" /\ work'[w].pc = "simulate"
  /\ work'[w].id = work[w].id /\ work'[w].mustSkip = work[w].mustSkip
  /\ work'[w].mustDrop => work[w].mustDrop /\ CancelHashes(work[w].id) \cap cancelSet = {}

SimulateMove(w) ==
  /\ work[w].pc = "simulate" /\ work'[w].pc = "finish"
  /\ work'[w].id = work[w].id /\ work'[w].mustSkip = work[w].mustSkip
  /\ work'[w].mustDrop = work[w].mustDrop
  /\ work'[w].outcome = "success" => SucceededInRange(work[w].id, work'[w].state)

WorkMove(w) ==
  work'[w] \in {work[w], Idle} \/ TakeMove(w) \/ CheckMove(w) \/ SimulateMove(w)

JobStarts(w, j) ==
  /\ work[w].pc = "finish"
  /\ j.id = work[w].id /\ j.state = work[w].state /\ j.mustDrop = work[w].mustDrop
  /\ j.success <=> work[w].outcome = "success"
  /\ j.send = "todo" => /\ j.success \/ j.cancel
                        /\ j.mustSkip => work[w].mustSkip /\ ~Replaced(work[w].id)
  /\ j.send = "skipped" /\ j.success /\ ~Request[j.id].zeroFee => Replaced(j.id)

JobGoesOn(k, j) ==
  /\ j.id = k.id /\ j.state = k.state /\ j.success = k.success /\ j.cancel = k.cancel
  /\ j.mustDrop = k.mustDrop /\ j.mustSkip = k.mustSkip
  /\ j.send \in {k.send, "done", "hung"}

JobMove ==
  \A j \in jobs' : \/ j \in jobs
                   \/ \E w \in Workers : JobStarts(w, j)
                   \/ \E k \in jobs : JobGoesOn(k, j)

Moves == QueueMove /\ (\A w \in Workers : WorkMove(w)) /\ JobMove

\* A worker that settles its item puts it back or drops it.
LEMMA SettleMoves ==
  ASSUME Types, NEW w \in Workers, work[w] # Idle, NEW err, Settle(w, err)
  PROVE  QueueMove /\ \A v \in Workers : WorkMove(v)
<1>1. QueueMove
  BY SMT, SMTT(30) DEF Settle, QueueMove
<1>2. \A v \in Workers : work'[v] \in {work[v], Idle}
  BY DEF Settle, Types, ProcTypes
<1> QED
  BY <1>1, <1>2 DEF WorkMove

\* Taking an item from the queue is such a move.
LEMMA TakeMoves ==
  ASSUME Types, NEW w \in Workers, Take(w, matched)
  PROVE  Moves
<1>1. PICK q \in queue : Take(w, matched)!2!(q)
  BY DEF Take
<1>2. QueueMove /\ JobMove
  BY <1>1, Zenon DEF Take, QueueMove, JobMove
<1>3. CASE Expired(q.id)
  BY <1>1, <1>2, <1>3, Zenon DEF Moves, WorkMove
<1>4. CASE ~Expired(q.id)
  <2> DEFINE drop == {Request[q.id].hash, matched[q.id]} \cap cancelSet # {}
             skip == Replaced(q.id)
             item == [pc |-> "check", id |-> q.id, target |-> block + 1,
                      mustDrop |-> drop, mustSkip |-> skip]
  <2>1. work' = [work EXCEPT ![w] = item]
    BY <1>1, <1>4, Zenon
  <2>2. item.pc = "check" /\ item.id = q.id /\ item.mustDrop = drop /\ item.mustSkip = skip
    OBVIOUS
  <2> HIDE DEF item
  <2>3. work'[w] = item /\ \A v \in Workers \ {w} : work'[v] = work[v]
    BY <2>1 DEF Types, ProcTypes
  <2>4. TakeMove(w)
    BY <2>2, <2>3, Zenon DEF TakeMove
  <2> QED
    BY <1>2, <2>3, <2>4, ZenonT(30) DEF Moves, WorkMove
<1> QED
  BY <1>3, <1>4, ZenonT(30)

\* So is the lookup of cancellations.
LEMMA CheckMoves ==
  ASSUME Types, NEW w \in Workers, CheckCancelled(w)
  PROVE  Moves
<1>1. work[w].pc = "check" /\ work[w] \in Checking /\ work[w] # Idle
  BY WorkFacts DEF Types, CheckCancelled
<1>2. JobMove
  BY DEF CheckCancelled, JobMove
<1>3. CASE Settle(w, "unrecoverable")
  BY <1>1, <1>2, <1>3, SettleMoves, SMT, Zenon, SMTT(30) DEF Moves
<1>4. ASSUME NEW item, CancelHashes(work[w].id) \cap cancelSet = {} \/ ~item.mustDrop,
             item.pc = "simulate", item.id = work[w].id,
             item.mustSkip = work[w].mustSkip, item.mustDrop => work[w].mustDrop,
             work' = [work EXCEPT ![w] = item], UNCHANGED queue
      PROVE  Moves
  <2>1. work'[w] = item /\ \A v \in Workers \ {w} : work'[v] = work[v]
    BY <1>4 DEF Types, ProcTypes
  <2>2. CheckMove(w)
    BY <1>1, <1>4, <2>1, Zenon DEF CheckMove
  <2> QED
    BY <1>2, <1>4, <2>1, <2>2 DEF Moves, WorkMove, QueueMove
<1>5. CASE /\ CancelHashes(work[w].id) \cap cancelSet = {}
           /\ work' = [work EXCEPT ![w].pc = "simulate"] /\ UNCHANGED queue
  <2> DEFINE item == [work[w] EXCEPT !.pc = "simulate"]
  <2>1. /\ item.pc = "simulate" /\ item.id = work[w].id
        /\ item.mustSkip = work[w].mustSkip /\ item.mustDrop = work[w].mustDrop
    BY <1>1 DEF Checking
  <2>2. work' = [work EXCEPT ![w] = item]
    BY <1>5
  <2> HIDE DEF item
  <2> QED
    BY <1>4, <1>5, <2>1, <2>2, Zenon
<1>6. CASE work' = [work EXCEPT ![w].pc = "simulate", ![w].mustDrop = FALSE] /\ UNCHANGED queue
  <2> DEFINE item == [work[w] EXCEPT !.pc = "simulate", !.mustDrop = FALSE]
  <2>1. /\ item.pc = "simulate" /\ item.id = work[w].id
        /\ item.mustSkip = work[w].mustSkip /\ item.mustDrop = FALSE
    BY <1>1 DEF Checking
  <2>2. work' = [work EXCEPT ![w] = item]
    BY <1>1, <1>6, Zenon DEF Types, ProcTypes, Checking
  <2> HIDE DEF item
  <2> QED
    BY <1>4, <1>6, <2>1, <2>2, Zenon
<1> QED
  BY <1>3, <1>5, <1>6, Zenon DEF CheckCancelled

\* So is a simulation.
LEMMA SimulateMoves ==
  ASSUME Types, NEW w \in Workers, Simulate(w)
  PROVE  Moves
<1>1. work[w].pc = "simulate" /\ work[w] \in Checking /\ work[w] # Idle
  BY WorkFacts DEF Types, Simulate
<1>2. JobMove
  BY DEF Simulate, JobMove
<1>3. ASSUME NEW err \in {"worker", "lagging"}, Settle(w, err) PROVE Moves
  BY <1>1, <1>2, <1>3, SettleMoves DEF Moves
<1>4. ASSUME NEW state \in NodeStates, NEW outcome \in {"success", "revert", "nonceTooLow"},
             outcome = "success" => state + 1 \in bundle[work[w].id].block .. bundle[work[w].id].maxBlock,
             work' = [work EXCEPT ![w] =
                   [pc |-> "finish", id |-> @.id, target |-> @.target, mustDrop |-> @.mustDrop,
                    mustSkip |-> @.mustSkip, state |-> state, outcome |-> outcome]],
             UNCHANGED queue
      PROVE  Moves
  <2> DEFINE item == [pc |-> "finish", id |-> work[w].id, target |-> work[w].target,
                      mustDrop |-> work[w].mustDrop, mustSkip |-> work[w].mustSkip,
                      state |-> state, outcome |-> outcome]
  <2>1. work' = [work EXCEPT ![w] = item]
    BY <1>4
  <2>2. /\ item.pc = "finish" /\ item.id = work[w].id /\ item.mustSkip = work[w].mustSkip
        /\ item.mustDrop = work[w].mustDrop /\ item.state = state /\ item.outcome = outcome
    OBVIOUS
  <2> HIDE DEF item
  <2>3. work'[w] = item /\ \A v \in Workers \ {w} : work'[v] = work[v]
    BY <2>1 DEF Types, ProcTypes
  <2>4. outcome = "success" => SucceededInRange(work[w].id, state)
    <3>1. bundle[work[w].id].block \in Int /\ bundle[work[w].id].maxBlock \in Int
      BY <1>1, RequestFacts, SMT, SMTT(30) DEF Checking, Types, ApiTypes, Bundles
    <3> QED
      BY <1>4, <3>1, SMT, Zenon, SMTT(30) DEF SucceededInRange
  <2>5. SimulateMove(w)
    BY <1>1, <2>2, <2>3, <2>4, Zenon DEF SimulateMove
  <2> QED
    BY <1>2, <1>4, <2>3, <2>5 DEF Moves, WorkMove, QueueMove
<1> QED
  BY <1>3, <1>4, Zenon DEF Simulate

\* So is the start of the background job.
LEMMA FinishMoves ==
  ASSUME Types, NEW w \in Workers, Finish(w)
  PROVE  Moves
<1>1. work[w].pc = "finish" /\ work[w] \in Finishing /\ work[w] # Idle
  BY WorkFacts DEF Types, Finish
<1>2. QueueMove /\ \A v \in Workers : WorkMove(v)
  BY <1>1, SettleMoves, Zenon DEF Finish
<1>3. JobMove
  <2> DEFINE s == work[w].id
             cancel == Uuid(s) # Absent /\ work[w].outcome # "success"
             success == work[w].outcome = "success"
             a == NewJob(w, cancel, IsOldBundle(s))
             b == NewJob(w, cancel, FALSE)
             c == [b EXCEPT !.mustSkip = FALSE]
  <2>1. jobs' \subseteq jobs \cup {a, c}
    BY Zenon DEF Finish
  <2>2. \A old \in BOOLEAN : LET j == NewJob(w, cancel, old) IN
          /\ j.id = s /\ j.state = work[w].state /\ j.mustDrop = work[w].mustDrop
          /\ j.success = success /\ j.cancel = cancel /\ j.mustSkip = work[w].mustSkip
          /\ j.send = IF ~old /\ ((success /\ ~Request[s].zeroFee) \/ cancel) THEN "todo" ELSE "skipped"
    BY Zenon DEF NewJob
  <2>3. IsOldBundle(s) \in BOOLEAN /\ IsOldBundle(s) = Replaced(s)
    BY Zenon DEF IsOldBundle, Replaced
  <2>4. JobStarts(w, a)
    BY <1>1, <2>2, <2>3, Zenon DEF JobStarts
  <2>5. b \in Jobs
    BY <1>1, RequestFacts, Zenon DEF NewJob, Jobs, Finishing
  <2>6. /\ c.id = b.id /\ c.state = b.state /\ c.mustDrop = b.mustDrop /\ c.success = b.success
        /\ c.cancel = b.cancel /\ c.send = b.send /\ ~c.mustSkip
    BY <2>5 DEF Jobs
  <2>7. JobStarts(w, c)
    BY <1>1, <2>2, <2>6, Zenon DEF JobStarts
  <2> QED
    BY <2>1, <2>4, <2>7, Zenon DEF JobMove
<1> QED
  BY <1>2, <1>3 DEF Moves

\* So is a step of a job.
LEMMA JobMoves ==
  ASSUME Types, NEW j \in jobs, SimulatedBundle(j), JobFrame
  PROVE  Moves
<1>2. j \in Jobs
  BY DEF Types, ProcTypes
<1>3. /\ \A x : JobGoesOn(j, [j EXCEPT !.stats = x])
      /\ \A x \in {"done", "hung"} : JobGoesOn(j, [j EXCEPT !.send = x])
  BY <1>2 DEF JobGoesOn, Jobs
<1>4. ASSUME NEW k, JobGoesOn(j, k), Becomes(j, k) PROVE JobMove
  BY <1>4 DEF Becomes, JobMove
<1>5. JobMove
  BY <1>3, <1>4, Zenon DEF SimulatedBundle, JobInsert, JobPublish, JobHistory, JobBuilderTable,
                           JobSend
<1> QED
  BY <1>5, Zenon DEF Moves, QueueMove, WorkMove, JobFrame

\* So is every other step.
LEMMA AlwaysMoves ==
  ASSUME Types, [Next]_vars
  PROVE  Moves
<1>1. ASSUME QueueMove, UNCHANGED <<work, jobs>> PROVE Moves
  BY <1>1 DEF Moves, WorkMove, JobMove
<1>2. ASSUME UNCHANGED <<queue, work, jobs>> PROVE Moves
  BY <1>1, <1>2 DEF QueueMove
<1>3. ASSUME NEW s \in Submissions, SendBundle(s), CallFrame(s) PROVE Moves
  <2>1. CASE Schedule(s)
    <3>1. spc'[s] = "done"
      BY <2>1 DEF Schedule, Reply, Types, ApiTypes, CallTypes
    <3>2. \A q \in queue' : q \in queue \/ q.id = s
      <4>1. PICK t : queue' \in {queue, queue \cup {[id |-> s, target |-> t]}}
        BY <2>1, ZenonT(30) DEF Schedule
      <4> QED
        BY <4>1, SMT, SMTT(30)
    <3> QED
      BY <1>1, <1>3, <3>1, <3>2, Zenon DEF QueueMove, CallFrame
  <2>2. CASE ~Schedule(s)
    <3>1. queue' = queue
      BY <1>3, <2>2, ZenonT(30) DEF SendBundle, Receive, AddKnown, MatchCached, MatchFetched, IncNonce,
                               storeVars
    <3> QED
      BY <1>2, <1>3, <3>1, Zenon DEF CallFrame
  <2> QED
    BY <2>1, <2>2, Zenon
<1>4. CASE Restart
  BY <1>4 DEF Restart, storeVars, Moves, QueueMove, WorkMove, JobMove
<1>5. ASSUME NEW w \in Workers, Take(w, matched) \/ Process(w) PROVE Moves
  BY <1>5, TakeMoves, CheckMoves, SimulateMoves, FinishMoves, Zenon DEF Process
<1> QED
  BY <1>2, <1>3, <1>4, <1>5, JobMoves, Frames, Zenon DEF CancelFrame, BlockFrame

-----------------------------------------------------------------------------
(* SendInv is inductive.                                                   *)

\* A matched backrun contains the hash of the bundle, and asks for blocks of both.
LEMMA MatchedBundleSound ==
  ASSUME Types, NEW s \in Submissions, NEW t \in Submissions,
         BundleSound(s), BundleSound(t), spc[s] = "match",
         bundle' = [bundle EXCEPT ![s] = MatchedBundle(s, t)],
         matched' = [matched EXCEPT ![s] = Request[t].hash], spc'[s] = "nonce"
  PROVE  BundleSound(s)'
<1> DEFINE m == MatchedBundle(s, t)
<1>1. bundle'[s] = m /\ matched'[s] = Request[t].hash
  BY SMT, Zenon, SMTT(30) DEF Types, ApiTypes
<1>2. Request[s].match \in Hashes /\ Request[s].match # Absent
  BY RequestFacts DEF Types, ApiTypes, CallTypes
<1>3. bundle[s].bodyHashes = {MatchingHash(Request[s].match)}
  <2>1. bundle[s] = Validated(s)
    BY SMT, Zenon, SMTT(30) DEF BundleSound
  <2>2. Validated(s).bodyHashes = {MatchingHash(Request[s].match)}
    BY <1>2 DEF Validated
  <2> QED
    BY <2>1, <2>2, Zenon
<1>4. BundleHash(Request[t].hash) \in m.bodyHashes
  <2>1. m.bodyHashes = findAndReplace({MatchingHash(Request[s].match)}, MatchingHash(Request[s].match),
                                      BundleHash(Request[t].hash))
    BY <1>3, MatchedBundleFacts, Zenon DEF Types
  <2> QED
    BY <2>1, Zenon DEF findAndReplace
<1>5. /\ Request[s].block <= m.block /\ m.maxBlock <= Request[s].maxBlock
      /\ Request[t].block <= m.block /\ m.maxBlock <= Request[t].maxBlock
  <2>1. /\ m.block = IF bundle[s].block < bundle[t].block THEN bundle[t].block ELSE bundle[s].block
        /\ m.maxBlock = IF bundle[s].maxBlock > bundle[t].maxBlock THEN bundle[t].maxBlock
                                                                   ELSE bundle[s].maxBlock
    BY MatchedBundleFacts, Zenon DEF Types
  <2> HIDE DEF m
  <2>2. \A x \in {s, t} : /\ bundle[x].block \in Int /\ bundle[x].maxBlock \in Int
                          /\ Request[x].block \in Int /\ Request[x].maxBlock \in Int
                          /\ Request[x].block <= bundle[x].block
                          /\ bundle[x].maxBlock <= Request[x].maxBlock
    <3> SUFFICES ASSUME NEW x \in {s, t}
                 PROVE  /\ bundle[x].block \in Int /\ bundle[x].maxBlock \in Int
                        /\ Request[x].block \in Int /\ Request[x].maxBlock \in Int
                        /\ Request[x].block <= bundle[x].block
                        /\ bundle[x].maxBlock <= Request[x].maxBlock
      BY Zenon
    <3>1. x \in Submissions /\ BundleSound(x)
      BY Zenon
    <3>2. Blocks \subseteq Int
      BY RequestFacts, SMT, SMTT(30)
    <3>3. bundle[x] \in Bundles
      BY <3>1, Zenon DEF Types, ApiTypes
    <3>4. bundle[x].block \in Blocks /\ bundle[x].maxBlock \in Blocks
      BY <3>3, Zenon DEF Bundles
    <3>5. Request[x].block \in Blocks /\ Request[x].maxBlock \in Blocks
      BY <3>1, RequestFacts, Zenon
    <3>6. Request[x].block <= bundle[x].block /\ bundle[x].maxBlock <= Request[x].maxBlock
      BY <3>1, Zenon DEF BundleSound, WithinRequest
    <3> QED
      BY <3>2, <3>4, <3>5, <3>6, Zenon
  <2>3. Request[s].block <= m.block /\ m.maxBlock <= Request[s].maxBlock
    BY <2>1, <2>2, SMT, Zenon, SMTT(30)
  <2>4. Request[t].block <= m.block /\ m.maxBlock <= Request[t].maxBlock
    BY <2>1, <2>2, SMT, SMTT(30)
  <2> QED
    BY <2>3, <2>4, Zenon
<1> HIDE DEF m
<1> QED
  BY <1>1, <1>4, <1>5, Zenon DEF BundleSound, WithinRequest

\* Every step keeps the bundles within what was asked for.
LEMMA BundleStep ==
  ASSUME Types, [Next]_vars, \A s \in Submissions : BundleSound(s)
  PROVE  \A s \in Submissions : BundleSound(s)'
<1> DEFINE Early == {"never", "new", "add", "match"}
<1>1. /\ bundle \in [Submissions -> Bundles] /\ matched \in [Submissions -> Hashes \cup {Absent}]
      /\ spc \in [Submissions -> {"never", "new", "add", "match", "nonce", "schedule", "done"}]
  BY Zenon DEF Types, ApiTypes, CallTypes
<1>2. ASSUME NEW s \in Submissions, bundle'[s] = bundle[s], matched'[s] = matched[s],
             spc'[s] \in Early => spc[s] \in Early
      PROVE  BundleSound(s)'
  BY <1>2, SMT, SMTT(30) DEF BundleSound, WithinRequest
<1>3. ASSUME NEW s \in Submissions, SendBundle(s), CallFrame(s)
      PROVE  \A t \in Submissions : BundleSound(t)'
  <2>2. \A t \in Submissions \ {s} : BundleSound(t)'
    BY <1>2, <1>3, Zenon DEF CallFrame
  <2>3. ASSUME NEW r, Reply(s, r), UNCHANGED <<bundle, matched>> PROVE BundleSound(s)'
    <3>1. spc'[s] = "done"
      BY <1>1, <2>3, ZenonT(30) DEF Reply
    <3> QED
      BY <1>2, <2>3, <3>1
  <2>4. ASSUME NEW t \in Submissions, spc[s] = "match", UseUnmatched(s, t) PROVE BundleSound(s)'
    <3>1. CASE Reply(s, "error") /\ UNCHANGED <<bundle, matched>>
      BY <2>3, <3>1
    <3>2. CASE /\ bundle' = [bundle EXCEPT ![s] = MatchedBundle(s, t)]
               /\ matched' = [matched EXCEPT ![s] = Request[t].hash]
               /\ Goto(s, "nonce")
      <4>1. spc'[s] = "nonce"
        BY <1>1, <3>2 DEF Goto
      <4> QED
        BY <2>4, <3>2, <4>1, MatchedBundleSound, Zenon
    <3> QED
      BY <2>4, <3>1, <3>2, UseUnmatchedCases DEF Types
  <2>5. CASE Receive(s)
    <3>1. CASE Goto(s, "add")
      <4>1. spc[s] \in Early /\ UNCHANGED <<bundle, matched>>
        BY <2>5 DEF Receive
      <4> QED
        BY <1>2, <2>2, <4>1, Zenon
    <3>2. CASE ~Goto(s, "add")
      BY <2>2, <2>3, <2>5, <3>2, Zenon DEF Receive
    <3> QED
      BY <3>1, <3>2
  <2>6. CASE AddKnown(s)
    <3>1. spc[s] \in Early /\ UNCHANGED <<bundle, matched>>
      BY <2>6 DEF AddKnown, storeVars
    <3> QED
      BY <1>2, <2>2, <3>1
  <2>7. CASE MatchCached(s)
    <3>1. Request[s].match \in Hashes
      BY <2>7, Zenon DEF MatchCached, Types, ApiTypes, CallTypes
    <3>2. spike[Request[s].match] \in Submissions
      BY <2>7, <3>1, Zenon DEF MatchCached, Types, ApiTypes
    <3> QED
      BY <2>2, <2>4, <2>7, <3>2, ZenonT(30) DEF MatchCached
  <2>8. CASE MatchFetched(s)
    <3>1. Request[s].match \in Hashes
      BY <2>8, Zenon DEF MatchFetched, Types, ApiTypes, CallTypes
    <3>2. Matchable(Request[s].match) => sbundle[Request[s].match].body \in Submissions
      BY <3>1, KnownFacts, Zenon DEF Matchable, Types, Rows
    <3>3. BundleSound(s)'
      BY <2>3, <2>4, <2>8, <3>2, Zenon DEF MatchFetched
    <3> QED
      BY <2>2, <3>3, Zenon
  <2>9. CASE IncNonce(s)
    <3>1. spc[s] = "nonce" /\ matched' = matched /\ spc'[s] \notin Early
      BY <1>1, <2>9, SMT, Zenon, SMTT(30) DEF IncNonce, Goto, Reply
    <3>2. CASE bundle' = bundle
      BY <1>2, <2>2, <3>1, <3>2
    <3>3. ASSUME NEW n, bundle' = [bundle EXCEPT ![s].nonce = n] PROVE BundleSound(s)'
      <4>1. /\ bundle'[s].block = bundle[s].block /\ bundle'[s].maxBlock = bundle[s].maxBlock
            /\ bundle'[s].bodyHashes = bundle[s].bodyHashes
        <5>1. bundle'[s] = [bundle[s] EXCEPT !.nonce = n] /\ bundle[s] \in Bundles
          BY <1>1, <3>3
        <5> QED
          BY <5>1 DEF Bundles
      <4> QED
        BY <3>1, <4>1, Zenon DEF BundleSound, WithinRequest
    <3> QED
      BY <2>2, <2>9, <3>2, <3>3, Zenon DEF IncNonce
  <2>10. CASE Schedule(s)
    BY <2>2, <2>3, <2>10, Zenon DEF Schedule
  <2> QED
    BY <1>3, <2>5, <2>6, <2>7, <2>8, <2>9, <2>10 DEF SendBundle
<1>4. ASSUME UNCHANGED <<bundle, matched, spc>> PROVE \A s \in Submissions : BundleSound(s)'
  BY <1>2, <1>4
<1>5. CASE Restart
  <2>1. UNCHANGED <<bundle, matched>> /\ \A s \in Submissions : spc'[s] \in Early => spc[s] \in Early
    BY <1>5 DEF Restart, storeVars
  <2> QED
    BY <1>2, <2>1, SMT, Zenon, SMTT(30)
<1> QED
  BY <1>3, <1>4, <1>5, Frames, Zenon DEF CancelFrame, WorkerFrame, JobFrame, BlockFrame

\* Every move keeps ItemsAreAnswered.
LEMMA ItemsStep ==
  ASSUME Types, Types', Stable, Moves, ItemsAreAnswered
  PROVE  ItemsAreAnswered'
<1>1. /\ \A q \in queue : q.id \in Submissions
      /\ \A w \in Workers : work[w] # Idle => work[w].id \in Submissions
      /\ \A j \in jobs : j.id \in Submissions
  BY WorkFacts, Zenon DEF Types, StoreTypes, ProcTypes, Items, Checking, Finishing, Jobs
<1>2. /\ \A q \in queue : spc'[q.id] = "done"
      /\ \A w \in Workers : work[w] # Idle => spc'[work[w].id] = "done"
      /\ \A j \in jobs : spc'[j.id] = "done"
  BY <1>1 DEF ItemsAreAnswered, Stable
<1>3. \A q \in queue' : spc'[q.id] = "done"
  BY <1>2, ZenonT(30) DEF Moves, QueueMove
<1>4. \A w \in Workers : work'[w] # Idle => spc'[work'[w].id] = "done"
  <2> SUFFICES ASSUME NEW w \in Workers, work'[w] # Idle PROVE spc'[work'[w].id] = "done"
    OBVIOUS
  <2>1. work[w].pc # "idle" => work[w] # Idle
    BY SMT, SMTT(30) DEF Idle
  <2> QED
    BY <1>2, <2>1, ZenonT(30) DEF Moves, WorkMove, TakeMove, CheckMove, SimulateMove
<1>5. \A j \in jobs' : spc'[j.id] = "done"
  <2>1. \A w \in Workers : work[w].pc = "finish" => work[w] # Idle
    BY SMT, SMTT(30) DEF Idle
  <2> QED
    BY <1>2, <2>1, SMT, SMTT(30) DEF Moves, JobMove, JobStarts, JobGoesOn
<1> QED
  BY <1>3, <1>4, <1>5, Zenon DEF ItemsAreAnswered

\* Every move keeps what is said of the workers.
LEMMA WorkStep ==
  ASSUME Types, Types', Stable, Moves, SendInv, NEW w \in Workers
  PROVE  WorkSound(w)'
<1>1. ASSUME NEW s \in Submissions, spc[s] = "done"
      PROVE  /\ Replaced(s) => Replaced(s)'
             /\ CancelHashes(s) \cap cancelSet # {} => CancelHashes(s)' \cap cancelSet' # {}
             /\ \A state : SucceededInRange(s, state)' <=> SucceededInRange(s, state)
  BY <1>1, StableVerdicts
<1>2. WorkSound(w) /\ ItemsAreAnswered
  BY Zenon DEF SendInv
<1>3. work[w] # Idle => work[w].id \in Submissions /\ spc[work[w].id] = "done"
  BY <1>2, WorkFacts, Zenon DEF ItemsAreAnswered, Types, Checking, Finishing
<1>4. Idle.pc = "idle" /\ (work[w].pc # "idle" => work[w] # Idle)
  BY SMT, SMTT(30) DEF Idle
<1>5. CASE work'[w] = Idle
  BY <1>4, <1>5 DEF WorkSound
<1>6. CASE work'[w] = work[w] /\ work[w] # Idle
  <2> DEFINE s == work[w].id
  <2>1. /\ Replaced(s) => Replaced(s)'
        /\ CancelHashes(s) \cap cancelSet # {} => CancelHashes(s)' \cap cancelSet' # {}
        /\ \A state : SucceededInRange(s, state)' <=> SucceededInRange(s, state)
    BY <1>1, <1>3, <1>6, Zenon
  <2> QED
    BY <1>2, <1>6, <2>1, ZenonT(30) DEF WorkSound
<1>7. CASE TakeMove(w)
  <2>1. PICK q \in queue : TakeMove(w)!(q)
    BY <1>7, SMT, Zenon, SMTT(30) DEF TakeMove
  <2>2. PICK s \in Submissions : s = q.id /\ spc[s] = "done"
    BY <1>2 DEF ItemsAreAnswered, Types, StoreTypes, Items
  <2>3. {Request[s].hash, matched[s]} \cap cancelSet # {} => CancelHashes(s) \cap cancelSet # {}
    <3>1. BundleSound(s)
      BY Zenon DEF SendInv
    <3>2. cancelSet \subseteq Hashes /\ Absent \notin cancelSet
      BY RequestFacts DEF Types, StoreTypes
    <3>3. matched[s] \in cancelSet => matched[s] \in CancelHashes(s)
      BY <3>1, <3>2, Zenon DEF BundleSound, CancelHashes
    <3>4. Request[s].hash \in CancelHashes(s)
      BY Zenon DEF CancelHashes
    <3> QED
      BY <3>3, <3>4, Zenon
  <2>4. /\ Replaced(s) => Replaced(s)'
        /\ CancelHashes(s) \cap cancelSet # {} => CancelHashes(s)' \cap cancelSet' # {}
    BY <1>1, <2>2, ZenonT(30)
  <2> QED
    BY <2>1, <2>2, <2>3, <2>4, Zenon DEF WorkSound
<1>8. CASE CheckMove(w)
  <2>1. PICK s \in Submissions : s = work[w].id /\ spc[s] = "done"
    BY <1>3, <1>4, <1>8 DEF CheckMove
  <2>2. Replaced(s) => Replaced(s)'
    BY <1>1, <2>1
  <2>3. work'[w].pc = "simulate" /\ work'[w].id = s /\ ~work'[w].mustDrop
    BY <1>2, <1>8, <2>1, ZenonT(30) DEF CheckMove, WorkSound
  <2>4. work'[w].mustSkip => Replaced(s)
    BY <1>2, <1>4, <1>8, <2>1, Zenon DEF CheckMove, WorkSound
  <2> QED
    BY <2>2, <2>3, <2>4 DEF WorkSound
<1>9. CASE SimulateMove(w)
  <2>1. PICK s \in Submissions : s = work[w].id /\ spc[s] = "done"
    BY <1>3, <1>4, <1>9, Zenon DEF SimulateMove
  <2>2. (Replaced(s) => Replaced(s)') /\ \A state : SucceededInRange(s, state)' <=> SucceededInRange(s, state)
    BY <1>1, <2>1, ZenonT(30)
  <2>3. /\ work'[w].pc = "finish" /\ work'[w].id = s /\ ~work'[w].mustDrop
        /\ work'[w].mustSkip => Replaced(s)
        /\ work'[w].outcome = "success" => SucceededInRange(s, work'[w].state)
    BY <1>2, <1>4, <1>9, <2>1 DEF SimulateMove, WorkSound
  <2> DEFINE state == work'[w].state
  <2>4. work'[w].outcome = "success" => bundle'[s].block <= state + 1 /\ state + 1 <= bundle'[s].maxBlock
    BY <2>2, <2>3, Zenon DEF SucceededInRange
  <2> QED
    BY <2>2, <2>3, <2>4, Zenon DEF WorkSound, SucceededInRange
<1> QED
  BY <1>5, <1>6, <1>7, <1>8, <1>9, Zenon DEF Moves, WorkMove

\* Every move keeps what is said of the jobs.
LEMMA JobSoundStep ==
  ASSUME Types, Types', Stable, Moves, SendInv, NEW j \in jobs'
  PROVE  JobSound(j)'
<1>1. ASSUME NEW s \in Submissions, spc[s] = "done", s = j.id
      PROVE  /\ Replaced(s) => Replaced(j.id)'
             /\ SucceededInRange(s, j.state) => SucceededInRange(j.id, j.state)'
  BY <1>1, StableVerdicts
<1>2. ItemsAreAnswered
  BY DEF SendInv
<1>3. CASE j \in jobs
  <2>1. JobSound(j)
    BY <1>3, ZenonT(30) DEF SendInv
  <2>2. PICK s \in Submissions : s = j.id /\ spc[s] = "done"
    BY <1>2, <1>3 DEF ItemsAreAnswered, Types, ProcTypes, Jobs
  <2> QED
    BY <1>1, <2>1, <2>2, Zenon DEF JobSound
<1>4. ASSUME NEW k \in jobs, JobGoesOn(k, j) PROVE JobSound(j)'
  <2>1. JobSound(k)
    BY Zenon DEF SendInv
  <2>2. PICK s \in Submissions : s = k.id /\ spc[s] = "done"
    <3>1. jobs \subseteq Jobs /\ \A x \in jobs : spc[x.id] = "done"
      BY <1>2, Zenon DEF ItemsAreAnswered, Types, ProcTypes
    <3>2. k.id \in Submissions
      BY <3>1 DEF Jobs
    <3> QED
      BY <3>1, <3>2, Zenon
  <2>3. /\ ~j.mustDrop /\ (j.send = "todo" => ~j.mustSkip /\ (j.success \/ j.cancel))
        /\ j.send = "skipped" /\ j.success /\ ~Request[j.id].zeroFee => Replaced(s)
        /\ j.success => SucceededInRange(s, j.state)
    <3>1. j.send = "todo" => k.send = "todo"
      BY <1>4, Zenon DEF JobGoesOn
    <3>2. j.send = "skipped" => k.send = "skipped"
      BY <1>4, Zenon DEF JobGoesOn
    <3> QED
      BY <1>4, <2>1, <2>2, <3>1, <3>2, Zenon DEF JobSound, JobGoesOn
  <2>4. s = j.id
    BY <1>4, <2>2 DEF JobGoesOn
  <2> QED
    BY <1>1, <2>2, <2>3, <2>4, Zenon DEF JobSound
<1>5. ASSUME NEW w \in Workers, JobStarts(w, j) PROVE JobSound(j)'
  <2>1. WorkSound(w) /\ work[w].pc = "finish" /\ work[w] # Idle
    <3>1. WorkSound(w) /\ work[w].pc = "finish"
      BY <1>5, Zenon DEF SendInv, JobStarts
    <3>2. Idle.pc = "idle"
      BY DEF Idle
    <3> QED
      BY <3>1, <3>2, Zenon
  <2>2. PICK s \in Submissions : s = work[w].id /\ spc[s] = "done"
    BY <1>2, <2>1, WorkFacts, Zenon DEF ItemsAreAnswered, Types, Finishing
  <2>3. s = j.id
    BY <1>5, <2>2, Zenon DEF JobStarts
  <2>4. /\ ~j.mustDrop /\ (j.send = "todo" => ~j.mustSkip /\ (j.success \/ j.cancel))
        /\ j.send = "skipped" /\ j.success /\ ~Request[j.id].zeroFee => Replaced(s)
        /\ j.success => SucceededInRange(s, j.state)
    BY <1>5, <2>1, <2>2, <2>3, Zenon DEF WorkSound, JobStarts
  <2> QED
    BY <1>1, <2>2, <2>3, <2>4, Zenon DEF JobSound
<1> QED
  BY <1>3, <1>4, <1>5, ZenonT(30) DEF Moves, JobMove

\* SendInv holds initially.
LEMMA SendInit == Init => SendInv
<1> SUFFICES ASSUME Init PROVE SendInv
  OBVIOUS
<1>1. PICK x \in Scenarios : /\ StoreInit(x.faults) /\ SubmissionInit(x.requests, x.cancellable)
                             /\ ProcessingInit
  BY DEF Init
<1>2. queue = {} /\ jobs = {} /\ \A w \in Workers : work[w] = Idle
  BY <1>1, Zenon DEF StoreInit, ProcessingInit
<1>3. \A w \in Workers : WorkSound(w)
  <2>1. Idle.pc = "idle"
    BY DEF Idle
  <2> QED
    BY <1>2, <2>1, Zenon DEF WorkSound
<1>4. ASSUME NEW s \in Submissions PROVE BundleSound(s)
  <2>1. bundle[s] = Validated(s) /\ matched[s] = Absent
    BY <1>1 DEF SubmissionInit
  <2>2. Validated(s).block = Request[s].block /\ Validated(s).maxBlock = Request[s].maxBlock
    BY DEF Validated
  <2>3. Request[s].block <= Request[s].block /\ Request[s].maxBlock <= Request[s].maxBlock
    BY RequestFacts, SMT, SMTT(30)
  <2>4. WithinRequest(s, s)
    BY <2>1, <2>2, <2>3, Zenon DEF WithinRequest
  <2> QED
    BY <2>1, <2>4, Zenon DEF BundleSound
<1> QED
  BY <1>2, <1>3, <1>4, Zenon DEF SendInv, ItemsAreAnswered

\* SendInv is an invariant.
LEMMA SendInvHolds == Spec => [](Types /\ SendInv)
<1>1. Types /\ Types' /\ SendInv /\ [Next]_vars => SendInv'
  <2> SUFFICES ASSUME Types, Types', SendInv, [Next]_vars PROVE SendInv'
    OBVIOUS
  <2>1. Stable /\ Moves
    BY AlwaysStable, AlwaysMoves
  <2>2. ItemsAreAnswered' /\ \A s \in Submissions : BundleSound(s)'
    BY <2>1, ItemsStep, BundleStep DEF SendInv
  <2>3. (\A w \in Workers : WorkSound(w)') /\ \A j \in jobs' : JobSound(j)'
    BY <2>1, WorkStep, JobSoundStep
  <2> QED
    BY <2>2, <2>3, Zenon DEF SendInv
<1> QED
  BY <1>1, TypesHold, SendInit, PTL DEF Spec

(***************************************************************************)
(* A bundle that was in the cancellation cache when a worker took it, or   *)
(* that backruns one that was, is not sent: isBundleCancelled looks up the *)
(* hash of every body, and a body that was matched has the hash of its     *)
(* bundle, so a hash stays in the cache between the two looks.             *)
(***************************************************************************)
THEOREM CancelledAreNotSent == Spec => []CancelledNotSent
<1>1. SendInv => CancelledNotSent
  BY DEF SendInv, JobSound, CancelledNotSent
<1> QED
  BY <1>1, SendInvHolds, PTL

(***************************************************************************)
(* A bundle that had been replaced when a worker took it is not sent: the  *)
(* nonce of a uuid only grows, so isOldBundle finds it replaced as well.   *)
(***************************************************************************)
THEOREM ReplacedAreNotSent == Spec => []ReplacedNotSent
<1>1. SendInv => ReplacedNotSent
  BY DEF SendInv, JobSound, ReplacedNotSent
<1> QED
  BY <1>1, SendInvHolds, PTL

(***************************************************************************)
(* A version that succeeds is kept from the builders only if a newer one   *)
(* has a nonce, whatever the interleaving of requests and simulations.     *)
(***************************************************************************)
THEOREM NewestIsNotHeldBack == Spec => []NewestIsSent
<1>1. SendInv => NewestIsSent
  BY DEF SendInv, JobSound, NewestIsSent
<1> QED
  BY <1>1, SendInvHolds, PTL

(***************************************************************************)
(* A simulated bundle is sent for a block that its sender asked for, and a *)
(* backrun for one that the sender of the bundle it contains asked for:    *)
(* MergeInclusionIntervals narrows the blocks of the backrun before it is  *)
(* scheduled, and a simulation succeeds for a block of the bundle only.    *)
(***************************************************************************)
THEOREM SentForBlocksAsked == Spec => []SentInRange
<1>1. Types /\ SendInv => SentInRange
  <2> SUFFICES ASSUME Types, SendInv, NEW j \in jobs, j.send = "todo", ~j.cancel
               PROVE  /\ j.state + 1 \in Request[j.id].block .. Request[j.id].maxBlock
                      /\ matched[j.id] # Absent => j.state + 1 \in Asked(matched[j.id])
    BY DEF SentInRange
  <2> DEFINE s == j.id
             n == j.state + 1
  <2>1. s \in Submissions /\ n \in Int
    BY RequestFacts, SMT, SMTT(30) DEF Types, ProcTypes, Jobs
  <2>2. BundleSound(s) /\ bundle[s].block <= n /\ n <= bundle[s].maxBlock
    BY <2>1 DEF SendInv, JobSound, SucceededInRange
  <2>3. bundle[s].block \in Int /\ bundle[s].maxBlock \in Int
    BY <2>1, RequestFacts, SMT, SMTT(30) DEF Types, ApiTypes, Bundles
  <2> HIDE DEF s, n
  <2>4. ASSUME NEW t \in Submissions, WithinRequest(s, t)
        PROVE  n \in Request[t].block .. Request[t].maxBlock
    <3>1. Request[t].block \in Int /\ Request[t].maxBlock \in Int
      BY RequestFacts, SMT, SMTT(30)
    <3> QED
      BY <2>1, <2>2, <2>3, <2>4, <3>1, SMT, SMTT(30) DEF WithinRequest
  <2>5. n \in Request[s].block .. Request[s].maxBlock
    BY <2>1, <2>2, <2>4 DEF BundleSound
  <2>6. ASSUME matched[s] # Absent PROVE n \in Asked(matched[s])
    <3>1. PICK t \in Submissions : Request[t].hash = matched[s] /\ WithinRequest(s, t)
      BY <2>2, <2>6 DEF BundleSound
    <3>2. n \in Request[t].block .. Request[t].maxBlock
      BY <2>4, <3>1
    <3> QED
      BY <3>1, <3>2, Zenon DEF Asked
  <2> QED
    BY <2>5, <2>6 DEF s, n
<1> QED
  BY <1>1, SendInvHolds, PTL

-----------------------------------------------------------------------------
(* The hints.                                                              *)

\* The jobs that are about to publish a hint of a bundle.
HintJobs(h) == {j \in jobs : j.stats = "hint" /\ Request[j.id].hash = h}

(***************************************************************************)
(* The inductive invariant: there is one hint of a bundle, on the channel  *)
(* or about to be published, and then its row is there and matchable.      *)
(***************************************************************************)
HintSound(h) ==
  /\ published[h] <= 1
  /\ \A j, k \in HintJobs(h) : j = k
  /\ HintJobs(h) # {} => published[h] = 0
  /\ published[h] > 0 \/ HintJobs(h) # {} => Known(h) /\ sbundle[h].matchable

HintInv == \A h \in Hashes : h \notin statsFailed => HintSound(h)

\* Nothing is published initially.
LEMMA HintInit == Init => HintInv
<1> SUFFICES ASSUME Init PROVE HintInv
  OBVIOUS
<1>1. jobs = {} /\ \A h \in Hashes : published[h] = 0
  BY DEF Init, StoreInit, ProcessingInit
<1> QED
  BY <1>1, SMT, SMTT(30) DEF HintInv, HintSound, HintJobs

\* A row that is there and matchable stays so.
LEMMA StaysMatchable ==
  ASSUME Types, RowMove, NEW h \in Hashes, Known(h), sbundle[h].matchable
  PROVE  Known(h)' /\ sbundle'[h].matchable
<1>1. sbundle'[h] = sbundle[h] \/ Advances(sbundle[h], sbundle'[h])
  BY DEF RowMove
<1>2. sbundle'[h] # NoRow
  BY <1>1, KnownFacts, ZenonT(30) DEF Known, Advances, Types
<1> QED
  BY <1>1, <1>2 DEF Advances, Known

\* A job that goes on without publishing is about to publish only if it was.
LEMMA HintStepOther ==
  ASSUME Types, RowMove, HintInv, statsFailed \subseteq statsFailed', published' = published,
         \/ \A j \in jobs' : j \in jobs \/ j.stats # "hint"
         \/ \E j \in jobs : \E k : /\ jobs' \subseteq (jobs \ {j}) \cup {k}
                                 /\ k.stats = j.stats /\ k.id = j.id
  PROVE  HintInv'
<1> SUFFICES ASSUME NEW h \in Hashes, h \notin statsFailed' PROVE HintSound(h)'
  BY DEF HintInv
<1>1. HintSound(h)
  BY DEF HintInv
<1>2. /\ \A j, k \in HintJobs(h)' : j = k
      /\ HintJobs(h)' # {} => HintJobs(h) # {}
  <2>1. CASE \A j \in jobs' : j \in jobs \/ j.stats # "hint"
    BY <1>1, <2>1, SMTT(30), SMTT(60) DEF HintSound, HintJobs
  <2>2. ASSUME NEW j \in jobs, NEW k, jobs' \subseteq (jobs \ {j}) \cup {k},
               k.stats = j.stats, k.id = j.id
        PROVE  /\ \A a, b \in HintJobs(h)' : a = b
               /\ HintJobs(h)' # {} => HintJobs(h) # {}
    BY <1>1, <2>2, SMT, SMTT(30) DEF HintSound, HintJobs
  <2> QED
    BY <2>1, <2>2, Zenon
<1>3. published'[h] = published[h]
  OBVIOUS
<1> QED
  BY <1>1, <1>2, <1>3, StaysMatchable DEF HintSound

\* The insert lets only the first job of a bundle go on to its hint.
LEMMA HintStepInsert ==
  ASSUME Types, RowMove, HintInv, NEW j \in jobs, JobInsert(j)
  PROVE  HintInv'
<1>1. PICK known \in BOOLEAN : /\ InsertBundleForStats(j.id, j.success, known)
                               /\ Becomes(j, [j EXCEPT !.stats = AfterInsert(j, known)])
  BY DEF JobInsert
<1> DEFINE g == Request[j.id].hash
           new == [j EXCEPT !.stats = AfterInsert(j, known)]
<1>2. j \in Jobs /\ j.id \in Submissions /\ g \in Hashes /\ j.stats = "insert"
  BY RequestFacts DEF Types, ProcTypes, Jobs, JobInsert
<1>3. new.id = j.id /\ new.stats = AfterInsert(j, known)
  BY <1>2 DEF Jobs
<1>4. published' = published /\ statsFailed \subseteq statsFailed'
  BY <1>1 DEF JobInsert, redisVars, InsertBundleForStats
<1>5. jobs' \subseteq jobs \cup {new}
  BY <1>1 DEF Becomes
<1>6. CASE new.stats # "hint"
  BY <1>4, <1>5, <1>6, HintStepOther, Zenon
<1>7. CASE new.stats = "hint"
  <2> SUFFICES ASSUME NEW h \in Hashes, h \notin statsFailed' PROVE HintSound(h)'
    BY DEF HintInv
  <2>1. HintSound(h)
    BY <1>4 DEF HintInv
  <2>2. ~known /\ Request[j.id].hint
    <3>1. AfterInsert(j, known) = "hint"
      BY <1>3, <1>7
    <3>2. known \/ ~Request[j.id].hint => AfterInsert(j, known) \in {"done", "builder"}
      BY Zenon DEF AfterInsert
    <3> QED
      BY <3>1, <3>2
  <2> HIDE DEF new
  <2>3. CASE h # g
    <3>1. HintJobs(h)' \subseteq HintJobs(h)
      BY <1>3, <1>5, <2>3, Zenon DEF HintJobs
    <3> QED
      BY <1>4, <2>1, <3>1, StaysMatchable, Zenon DEF HintSound
  <2>4. CASE h = g
    <3>1. ~Known(h) /\ sbundle' = [sbundle EXCEPT ![h] = NewRow(j.id, j.success)]
      BY <1>1, <2>2, <2>4, Zenon DEF InsertBundleForStats
    <3>2. published[h] = 0 /\ HintJobs(h) = {}
      <4>1. published[h] \in Nat
        BY Zenon DEF Types, StoreTypes
      <4> QED
        BY <2>1, <3>1, <4>1, SMT, SMTT(30) DEF HintSound
    <3>3. HintJobs(h)' \subseteq {new}
      BY <1>5, <3>2 DEF HintJobs
    <3>4. sbundle'[h] = NewRow(j.id, j.success)
      BY <3>1 DEF Types, StoreTypes
    <3>5. NewRow(j.id, j.success) \in Rows
      BY <1>2, RowUpdates DEF Jobs
    <3>6. sbundle'[h].matchable
      BY <2>2, <3>4, SMT, SMTT(30) DEF NewRow
    <3>7. Known(h)'
      BY <3>4, <3>5, KnownFacts DEF Known, Types
    <3>8. published'[h] = 0 /\ published'[h] <= 1
      BY <1>4, <3>2, SMT, SMTT(30)
    <3>9. \A a, b \in HintJobs(h)' : a = b
      BY <3>3, Zenon
    <3> QED
      BY <3>6, <3>7, <3>8, <3>9, Zenon DEF HintSound
  <2> QED
    BY <2>3, <2>4
<1> QED
  BY <1>6, <1>7

\* The job that publishes was the only one to do so.
LEMMA HintStepPublish ==
  ASSUME Types, RowMove, HintInv, NEW j \in jobs, JobPublish(j)
  PROVE  HintInv'
<1>1. j \in Jobs /\ j.stats = "hint" /\ statsFailed' = statsFailed /\ Request[j.id].hash \in Hashes
  BY RequestFacts DEF Types, ProcTypes, Jobs, JobPublish, dbVars
<1>2. PICK k : k.stats # "hint" /\ jobs' \subseteq (jobs \ {j}) \cup {k}
  <2>1. [j EXCEPT !.stats = "history"].stats = "history" /\ [j EXCEPT !.stats = "builder"].stats = "builder"
    BY <1>1 DEF Jobs
  <2> QED
    BY <2>1, Zenon DEF JobPublish, Becomes
<1>3. CASE published' = published
  BY <1>1, <1>2, <1>3, HintStepOther
<1>4. CASE published' = [published EXCEPT ![Request[j.id].hash] = @ + 1]
  <2> SUFFICES ASSUME NEW h \in Hashes, h \notin statsFailed' PROVE HintSound(h)'
    BY DEF HintInv
  <2>1. HintSound(h) /\ published \in [Hashes -> Nat]
    BY <1>1 DEF HintInv, Types, StoreTypes
  <2>2. HintJobs(h)' \subseteq HintJobs(h) \ {j}
    BY <1>2, SMT, Zenon, SMTT(30) DEF HintJobs
  <2>3. CASE h # Request[j.id].hash
    <3>1. published'[h] = published[h]
      BY <1>4, <2>1, <2>3, Zenon
    <3> QED
      BY <2>1, <2>2, <3>1, StaysMatchable DEF HintSound
  <2>4. CASE h = Request[j.id].hash
    <3>1. j \in HintJobs(h)
      BY <1>1, <2>4 DEF HintJobs
    <3>2. HintJobs(h)' = {}
      BY <2>1, <2>2, <3>1, SMTT(30), SMTT(60) DEF HintSound
    <3>3. published'[h] = 1
      BY <1>4, <2>1, <2>4, <3>1, SMTT(30), SMTT(60) DEF HintSound
    <3>4. Known(h)' /\ sbundle'[h].matchable
      BY <2>1, <3>1, StaysMatchable DEF HintSound
    <3>5. published'[h] <= 1
      BY <3>3, SMT, SMTT(30)
    <3> QED
      BY <3>2, <3>4, <3>5, Zenon DEF HintSound
  <2> QED
    BY <2>3, <2>4
<1> QED
  BY <1>3, <1>4 DEF JobPublish

\* Every step keeps HintInv.
LEMMA HintStep ==
  ASSUME Types, [Next]_vars, HintInv
  PROVE  HintInv'
<1> USE AlwaysRowMove
<1>1. ASSUME UNCHANGED <<published, statsFailed>>, \A j \in jobs' : j \in jobs \/ j.stats # "hint"
      PROVE  HintInv'
  BY <1>1, HintStepOther
<1>2. ASSUME UNCHANGED <<published, statsFailed, jobs>> PROVE HintInv'
  BY <1>1, <1>2
<1>4. ASSUME NEW w \in Workers, Take(w, matched) \/ Process(w), WorkerFrame PROVE HintInv'
  <2>1. UNCHANGED <<published, statsFailed>>
    BY <1>4 DEF WorkerFrame
  <2>2. CASE Finish(w)
    <3>1. \A cancel, old \in BOOLEAN :
            /\ NewJob(w, cancel, old).stats = "insert"
            /\ [NewJob(w, cancel, old) EXCEPT !.mustSkip = FALSE].stats = "insert"
      BY DEF NewJob
    <3>2. IsOldBundle(work[w].id) \in BOOLEAN
          /\ (Uuid(work[w].id) # Absent /\ work[w].outcome # "success") \in BOOLEAN
      BY Zenon DEF IsOldBundle, Replaced
    <3>3. \A j \in jobs' : j \in jobs \/ j.stats = "insert"
      BY <2>2, <3>1, <3>2, Zenon DEF Finish
    <3> QED
      BY <1>1, <2>1, <3>3
  <2>3. CASE ~Finish(w)
    <3>1. jobs' = jobs
      BY <1>4, <2>3, Zenon DEF Take, Process, CheckCancelled, Simulate
    <3> QED
      BY <1>2, <2>1, <3>1
  <2> QED
    BY <2>2, <2>3
<1>5. CASE Restart
  BY <1>1, <1>5 DEF Restart, storeVars, redisVars, dbVars
<1>6. ASSUME NEW j \in jobs, SimulatedBundle(j) PROVE HintInv'
  <2>1. CASE JobInsert(j)
    BY <2>1, HintStepInsert
  <2>2. CASE JobPublish(j)
    BY <2>2, HintStepPublish
  <2>3. CASE JobHistory(j) \/ JobBuilderTable(j)
    <3>1. j \in Jobs
      BY DEF Types, ProcTypes
    <3>2. [j EXCEPT !.stats = "done"].stats = "done" /\ [j EXCEPT !.stats = "builder"].stats = "builder"
      BY <3>1 DEF Jobs
    <3>3. \A k \in jobs' : k \in jobs \/ k.stats # "hint"
      BY <2>3, <3>2, Zenon DEF JobHistory, JobBuilderTable, Becomes
    <3> QED
      BY <1>1, <2>3, <3>3 DEF JobHistory, JobBuilderTable, redisVars
  <2>4. CASE JobSend(j)
    <3>1. j \in Jobs
      BY DEF Types, ProcTypes
    <3>2. PICK k : \E x : k = [j EXCEPT !.send = x] /\ Becomes(j, k)
      BY <2>4, Zenon DEF JobSend
    <3>3. k.stats = j.stats /\ k.id = j.id
      BY <3>1, <3>2 DEF Jobs
    <3>4. jobs' \subseteq (jobs \ {j}) \cup {k}
      BY <3>2 DEF Becomes
    <3>5. published' = published /\ statsFailed' = statsFailed
      BY <2>4 DEF JobSend, storeVars, redisVars, dbVars
    <3> QED
      BY <3>3, <3>4, <3>5, HintStepOther
  <2> QED
    BY <1>6, <2>1, <2>2, <2>3, <2>4 DEF SimulatedBundle
<1> QED
  BY <1>2, <1>4, <1>5, <1>6, Frames, Zenon DEF CallFrame, CancelFrame, BlockFrame

\* HintInv is an invariant.
LEMMA HintInvHolds == Spec => [](Types /\ HintInv)
<1>1. Types /\ HintInv /\ [Next]_vars => HintInv'
  BY HintStep
<1> QED
  BY <1>1, TypesHold, HintInit, PTL DEF Spec

(***************************************************************************)
(* A hint is published at most once for a bundle: the transaction of       *)
(* InsertBundleForStats lets one job only find the bundle unknown, and no  *)
(* row is ever removed.  A failed insert is the one way out.               *)
(***************************************************************************)
THEOREM HintsAreOnce == Spec => []HintOnce
<1>1. HintInv => HintOnce
  BY DEF HintInv, HintSound, HintOnce
<1> QED
  BY <1>1, HintInvHolds, PTL

(***************************************************************************)
(* What has been hinted is stored and matchable: the job that publishes    *)
(* has inserted the row with allow_matching, and the updates keep it.      *)
(***************************************************************************)
THEOREM HintedAreMatchable == Spec => []HintedIsMatchable
<1>1. HintInv => HintedIsMatchable
  BY DEF HintInv, HintSound, HintedIsMatchable
<1> QED
  BY <1>1, HintInvHolds, PTL
=============================================================================
