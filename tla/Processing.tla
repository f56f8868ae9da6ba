----------------------------- MODULE Processing -----------------------------
(***************************************************************************)
(* The simulation workers of mevshare/sim_queue.go and the jobs they start *)
(* in the background, SimulatedBundle of mevshare/sim_result_backend.go.   *)
(* The queue is the one its users see: an item is taken by one worker, and *)
(* put back as the error of Process tells (simqueue/queue.go, which        *)
(* SimQueue models in detail).                                             *)
(***************************************************************************)
EXTENDS Store

CONSTANTS Workers

VARIABLES
  work,     \* what each worker processes, or Idle
  jobs      \* the background jobs

procVars == <<work, jobs>>

Idle == [pc |-> "idle"]

ProcessingInit ==
  /\ work = [w \in Workers |-> Idle]
  /\ jobs = {}

-----------------------------------------------------------------------------
Uuid(s) == Request[s].uuid
Replaced(s) == Uuid(s) # Absent /\ nonces[Uuid(s)] > bundle[s].nonce

\* The hashes that isBundleCancelled looks up.
CancelHashes(s) ==
  {Request[s].hash} \cup {h \in Hashes : BundleHash(h) \in bundle[s].bodyHashes}

Expired_Never(s) == FALSE
Expired(s) == block + 1 > bundle[s].maxBlock

(***************************************************************************)
(* A worker takes an item that is due; one whose blocks have passed is     *)
(* dropped.  mustDrop and mustSkip are history: the bundle, or the bundle  *)
(* it backruns, inner, was in the cancellation cache, or it was replaced,  *)
(* when the worker took it.                                                *)
(***************************************************************************)
Take(w, inner) ==
  /\ work[w] = Idle
  /\ \E q \in queue :
       /\ q.target <= block + 1
       /\ queue' = queue \ {q}
       /\ IF Expired(q.id)
            THEN UNCHANGED work
            ELSE work' = [work EXCEPT ![w] =
                   [pc |-> "check", id |-> q.id, target |-> block + 1,
                    mustDrop |-> {Request[q.id].hash, inner[q.id]} \cap cancelSet # {},
                    mustSkip |-> Replaced(q.id)]]
  /\ UNCHANGED <<bundle, dbVars, redisVars, block, faults, jobs>>

\* The blocks for which the queue keeps the item, for each result of Process.
Again_PastMax(s, t, err) ==
  CASE err \in {"worker", "lagging"} -> {t}
    [] err \in {"ok", "nextBlock"}   -> {t + 1}
    [] err = "unrecoverable"         -> {}
Again(s, t, err) ==
  CASE err \in {"worker", "lagging"} -> {t}
    [] err \in {"ok", "nextBlock"}   -> {t + 1} \cap 0 .. bundle[s].maxBlock
    [] err = "unrecoverable"         -> {}

\* Process returns err, and the queue settles the item.
Settle(w, err) ==
  /\ work' = [work EXCEPT ![w] = Idle]
  /\ queue' = queue \cup {[id |-> work[w].id, target |-> t] :
                           t \in Again(work[w].id, work[w].target, err)}

\* Cancellations are best effort: when the lookup fails the bundle is simulated.
CheckCancelled(w) ==
  /\ work[w].pc = "check"
  /\ \/ /\ CancelHashes(work[w].id) \cap cancelSet # {}
        /\ Settle(w, "unrecoverable")
        /\ UNCHANGED faults
     \/ /\ CancelHashes(work[w].id) \cap cancelSet = {}
        /\ work' = [work EXCEPT ![w].pc = "simulate"]
        /\ UNCHANGED <<queue, faults>>
     \/ /\ Fault
        /\ work' = [work EXCEPT ![w].pc = "simulate", ![w].mustDrop = FALSE]
        /\ UNCHANGED queue
  /\ UNCHANGED <<bundle, dbVars, redisVars, block, jobs>>

(***************************************************************************)
(* The simulation on a node that may be a block behind or ahead.  The node *)
(* simulates for the block after its state, and the bundle succeeds only   *)
(* if it asks for that block.                                              *)
(***************************************************************************)
NodeStates == {block - 1, block, block + 1} \cap Blocks

Lagging(w, state) == state < work[w].target - 1

Simulate(w) ==
  /\ work[w].pc = "simulate"
  /\ \/ /\ Fault
        /\ Settle(w, "worker")
     \/ \E state \in NodeStates, outcome \in {"success", "revert", "nonceTooLow"} :
          /\ outcome = "success" => state + 1 \in bundle[work[w].id].block .. bundle[work[w].id].maxBlock
          /\ \/ Lagging(w, state) /\ Settle(w, "lagging")
             \/ /\ ~Lagging(w, state)
                /\ work' = [work EXCEPT ![w] =
                     [pc |-> "finish", id |-> @.id, target |-> @.target, mustDrop |-> @.mustDrop,
                      mustSkip |-> @.mustSkip, state |-> state, outcome |-> outcome]]
                /\ UNCHANGED queue
          /\ UNCHANGED faults
  /\ UNCHANGED <<bundle, dbVars, redisVars, block, jobs>>

-----------------------------------------------------------------------------
\* The job that SimulatedBundle runs: its two goroutines and what they got.
NewJob(w, cancel, old) ==
  LET s == work[w].id
      success == work[w].outcome = "success"
  IN  [id |-> s, target |-> work[w].target, state |-> work[w].state, success |-> success,
       cancel |-> cancel, mustDrop |-> work[w].mustDrop,
       mustSkip |-> work[w].mustSkip,
       stats |-> "insert",
       send |-> IF ~old /\ ((success /\ ~Request[s].zeroFee) \/ cancel) THEN "todo" ELSE "skipped"]

\* isOldBundle, from the nonce of the replacement uuid.
IsOldBundle_OrEqual(s) == Uuid(s) # Absent /\ nonces[Uuid(s)] >= bundle[s].nonce
IsOldBundle_Never(s) == FALSE
IsOldBundle(s) == Replaced(s)

\* If the state block is N, the simulation was for N + 1.
LaterBlockLeft(s, state) == bundle[s].maxBlock # 0 /\ state # 0 /\ bundle[s].maxBlock > state + 1

(***************************************************************************)
(* The rest of Process: the nonce lookup, the decision, and the start of   *)
(* the background job.  The job assigns the variable err that Process      *)
(* returns, without synchronisation, and its value is nil: once there is a *)
(* job, Process may return nil instead of its own error.                   *)
(***************************************************************************)
Verdict(w) ==
  LET s == work[w].id
      later == LaterBlockLeft(s, work[w].state)
  IN  CASE work[w].outcome = "success"                         -> "ok"
        [] work[w].outcome # "success" /\ Uuid(s) # Absent     -> IF later THEN "nextBlock" ELSE "ok"
        [] work[w].outcome = "revert" /\ Uuid(s) = Absent      -> IF later THEN "nextBlock" ELSE "ok"
        [] work[w].outcome = "nonceTooLow" /\ Uuid(s) = Absent -> "unrecoverable"

NoJob(w) == work[w].outcome = "revert" /\ Uuid(work[w].id) = Absent /\ Verdict(w) = "nextBlock"

Finish(w) ==
  LET s == work[w].id
      shouldCancel == Uuid(s) # Absent /\ work[w].outcome # "success"
  IN  /\ work[w].pc = "finish"
      /\ \/ /\ NoJob(w)
            /\ Settle(w, Verdict(w))
            /\ UNCHANGED <<jobs, faults>>
         \/ /\ ~NoJob(w)
            /\ \/ /\ jobs' = jobs \cup {NewJob(w, shouldCancel, IsOldBundle(s))}
                  /\ UNCHANGED faults
               \/ /\ Uuid(s) # Absent /\ Fault
                  /\ jobs' = jobs \cup {[NewJob(w, shouldCancel, FALSE) EXCEPT !.mustSkip = FALSE]}
            /\ \E err \in {Verdict(w), "ok"} : Settle(w, err)
      /\ UNCHANGED <<bundle, dbVars, redisVars, block>>

-----------------------------------------------------------------------------
\* wg.Wait of SimulatedBundle: the job ends when both goroutines have.
Becomes(j, new) ==
  jobs' = (jobs \ {j}) \cup {k \in {new} : k.stats # "done" \/ k.send \in {"todo", "hung"}}

\* What follows InsertBundleForStats in its goroutine.
AfterInsert_IgnoresKnown(j, known) == IF ~j.success THEN "done" ELSE
  IF ~Request[j.id].hint THEN "builder" ELSE "hint"
AfterInsert(j, known) == IF ~j.success THEN "done" ELSE
  IF known \/ ~Request[j.id].hint THEN "builder" ELSE "hint"

JobInsert(j) ==
  /\ j.stats = "insert"
  /\ \E known \in BOOLEAN :
       /\ InsertBundleForStats(j.id, j.success, known)
       /\ Becomes(j, [j EXCEPT !.stats = AfterInsert(j, known)])
  /\ UNCHANGED <<bundle, builderTable, hintHistory, redisVars, queue, block, work>>

\* ProcessHints publishes, then asks for the block and stores the hint.
JobPublish(j) ==
  /\ j.stats = "hint"
  /\ \/ /\ published' = [published EXCEPT ![Request[j.id].hash] = @ + 1]
        /\ Becomes(j, [j EXCEPT !.stats = "history"])
        /\ UNCHANGED faults
     \/ /\ Fault
        /\ Becomes(j, [j EXCEPT !.stats = "builder"])
        /\ UNCHANGED published
  /\ UNCHANGED <<bundle, dbVars, cancelSet, nonces, queue, block, work>>

JobHistory(j) ==
  /\ j.stats = "history"
  /\ Becomes(j, [j EXCEPT !.stats = "builder"])
  /\ \/ InsertHistoricalHint(Request[j.id].hash) /\ UNCHANGED faults
     \/ Fault /\ UNCHANGED hintHistory
  /\ UNCHANGED <<bundle, sbundle, builderTable, statsFailed, redisVars, queue, block, work>>

JobBuilderTable(j) ==
  /\ j.stats = "builder"
  /\ Becomes(j, [j EXCEPT !.stats = "done"])
  /\ \/ InsertBundleForBuilder(Request[j.id].hash, j.state + 1) /\ UNCHANGED faults
     \/ Fault /\ UNCHANGED builderTable
  /\ UNCHANGED <<bundle, sbundle, hintHistory, statsFailed, redisVars, queue, block, work>>

(***************************************************************************)
(* builders.SendBundle, which returns no error.  On the first block of the *)
(* bundle an external builder with a delay is skipped, and then it never   *)
(* returns (Builders shows how).                                           *)
(***************************************************************************)
Hangs(j) == Request[j.id].delayed /\ j.state + 1 = bundle[j.id].block

JobSend(j) ==
  /\ j.send = "todo"
  /\ Becomes(j, [j EXCEPT !.send = IF Hangs(j) THEN "hung" ELSE "done"])
  /\ UNCHANGED <<storeVars, work>>

Process(w) == CheckCancelled(w) \/ Simulate(w) \/ Finish(w)
SimulatedBundle(j) ==
  JobInsert(j) \/ JobPublish(j) \/ JobHistory(j) \/ JobBuilderTable(j) \/ JobSend(j)
=============================================================================
