-------------------------------- MODULE Node --------------------------------
(***************************************************************************)
(* The node: the API, the workers with their background jobs, and the      *)
(* chain, over the tables and caches they share.  A restart loses what is  *)
(* in memory.                                                              *)
(***************************************************************************)
EXTENDS Submission, Processing

(***************************************************************************)
(* What may happen in a behaviour: the requests that come, the bundles     *)
(* that may be cancelled, and how many calls fail and how often the node   *)
(* is restarted.                                                           *)
(***************************************************************************)
CONSTANTS Scenarios

ASSUME NodeAssumption ==
  Scenarios \subseteq [requests : SUBSET Submissions, cancellable : SUBSET Hashes,
                      faults : Nat, crashes : Nat]

VARIABLES crashes   \* bound: the restarts that are left

vars == <<storeVars, apiVars, procVars, crashes>>

Init ==
  \E x \in Scenarios :
    /\ StoreInit(x.faults) /\ SubmissionInit(x.requests, x.cancellable) /\ ProcessingInit
    /\ crashes = x.crashes

NewBlock ==
  /\ block < MaxBlock
  /\ block' = block + 1
  /\ UNCHANGED <<bundle, dbVars, redisVars, queue, faults, apiVars, procVars, crashes>>

\* The process stops and is started again; calls under way get no answer.
Restart ==
  /\ crashes > 0
  /\ crashes' = crashes - 1
  /\ LET open == {s \in Submissions : spc[s] \notin {"never", "new", "done"}}
     IN  /\ spc' = [s \in Submissions |-> IF s \in open THEN "done" ELSE spc[s]]
         /\ reply' = [s \in Submissions |-> IF s \in open THEN "error" ELSE reply[s]]
  /\ cpc' = [h \in Hashes |-> IF cpc[h] = "cache" THEN "idle" ELSE cpc[h]]
  /\ knownBundle' = [h \in Hashes |-> 0]
  /\ spike' = [h \in Hashes |-> Absent]
  /\ work' = [w \in Workers |-> Idle]
  /\ jobs' = {}
  /\ UNCHANGED <<storeVars, matched, added>>

WorkerStep(w) == (Take(w, matched) \/ Process(w)) /\ UNCHANGED <<apiVars, crashes>>
JobStep == (\E j \in jobs : SimulatedBundle(j)) /\ UNCHANGED <<apiVars, crashes>>

Next ==
  \/ SubmissionNext /\ UNCHANGED <<procVars, crashes>>
  \/ \E w \in Workers : WorkerStep(w)
  \/ JobStep
  \/ NewBlock
  \/ Restart

Spec == Init /\ [][Next]_vars

(***************************************************************************)
(* The workers and the jobs run whenever they can, and blocks keep coming. *)
(***************************************************************************)
FairSpec ==
  /\ Spec
  /\ \A w \in Workers : WF_vars(WorkerStep(w))
  /\ WF_vars(JobStep)
  /\ WF_vars(NewBlock)

-----------------------------------------------------------------------------
Items == [id : Submissions, target : Blocks]
Rows  == [success : BOOLEAN, cancelled : BOOLEAN, matchable : BOOLEAN,
          body : Submissions]

\* The types of the variables.
TypeOK ==
  /\ \A s \in Submissions : /\ bundle[s].block \in Blocks /\ bundle[s].maxBlock \in Blocks
                            /\ bundle[s].nonce \in Nat
  /\ \A h \in Hashes : Known(h) => sbundle[h] \in Rows
  /\ builderTable \in [Hashes -> Nat] /\ hintHistory \in [Hashes -> Nat]
  /\ published \in [Hashes -> Nat] /\ cancelSet \subseteq Hashes /\ nonces \in [UUIDs -> Nat]
  /\ queue \subseteq Items
  /\ \A s \in Submissions : reply[s] \in {Absent, "hash", "known", "error"}
  /\ knownBundle \in [Hashes -> Blocks] /\ spike \in [Hashes -> Submissions \cup {Absent}]
  /\ \A w \in Workers : work[w] # Idle => work[w].id \in Submissions
  /\ \A j \in jobs : j.id \in Submissions

\* Where an item of s is: queued or with a worker.
Copies(s) ==
  Cardinality({q \in queue : q.id = s}) + Cardinality({w \in Workers : work[w] # Idle /\ work[w].id = s})

(***************************************************************************)
(* A hint is published at most once for a bundle, however often it is      *)
(* submitted and simulated, by however many workers, also across restarts, *)
(* unless the insert that tells a new bundle from a known one fails.       *)
(***************************************************************************)
HintOnce == \A h \in Hashes : h \notin statsFailed => published[h] <= 1

(***************************************************************************)
(* What has been hinted can be matched, unless the insert of its row       *)
(* failed: by the time searchers see the hint the row is stored, and stays *)
(* matchable until its signer cancels it.  When the insert fails, the job  *)
(* goes on and publishes the hint all the same, of a bundle that may have  *)
(* no row; the property says nothing of such a bundle.                     *)
(***************************************************************************)
HintedIsMatchable ==
  \A h \in Hashes : published[h] > 0 /\ h \notin statsFailed =>
    Known(h) /\ sbundle[h].matchable

(***************************************************************************)
(* A bundle that was in the cancellation cache when a worker took it, or   *)
(* that backruns one that was, is not sent to the builders, unless the     *)
(* lookup failed: also when it was matched from the spike manager's cache  *)
(* after the cancellation.                                                 *)
(***************************************************************************)
CancelledNotSent == \A j \in jobs : j.send = "todo" => ~j.mustDrop

(***************************************************************************)
(* A bundle that had been replaced when a worker took it is not sent,      *)
(* unless the lookup of the nonce failed.                                  *)
(***************************************************************************)
ReplacedNotSent == \A j \in jobs : j.send = "todo" => ~j.mustSkip

(***************************************************************************)
(* A version that succeeds is kept from the builders only if a newer one   *)
(* has got a nonce under its uuid, whatever the order in which requests    *)
(* and simulations interleave.  The newer one may have failed after that.  *)
(***************************************************************************)
NewestIsSent ==
  \A j \in jobs : j.send = "skipped" /\ j.success /\ ~Request[j.id].zeroFee => Replaced(j.id)

(***************************************************************************)
(* A simulated bundle is sent for a block that its sender asked for, and,  *)
(* for a backrun, that the sender of the bundle it contains asked for too. *)
(***************************************************************************)
Asked(h) == UNION {Request[s].block .. Request[s].maxBlock : s \in {t \in Submissions : Request[t].hash = h}}

SentInRange ==
  \A j \in jobs : j.send = "todo" /\ ~j.cancel =>
    /\ j.state + 1 \in Request[j.id].block .. Request[j.id].maxBlock
    /\ matched[j.id] # Absent => j.state + 1 \in Asked(matched[j.id])

(***************************************************************************)
(* A request that is answered as known without being scheduled is covered  *)
(* by another one of the same bundle that asks for blocks at least as far: *)
(* it has passed validation, and has been scheduled or is on its way, or   *)
(* has failed since with an error to its own sender.  In that last case    *)
(* nothing is queued: SendBundle puts a bundle into the cache before it is *)
(* matched, so a backrun that was refused for want of a match is answered  *)
(* with its hash when it is sent again, and ignored.  The property holds   *)
(* although the cache is read and written in two steps, evicts, and is     *)
(* lost by a restart.                                                      *)
(***************************************************************************)
KnownIsCovered ==
  \A s \in Submissions : reply[s] = "known" =>
    \E t \in Submissions \ {s} :
      /\ Request[t].hash = Request[s].hash /\ Request[t].maxBlock >= Request[s].maxBlock
      /\ t \in added
      /\ spc[t] = "done" => reply[t] \in {"hash", "error"}

(***************************************************************************)
(* A row never forgets: a cancelled bundle stays cancelled when it is      *)
(* simulated again, and one that has succeeded once keeps sim_success.     *)
(***************************************************************************)
RowsOnlyAdvance ==
  [][\A h \in Hashes : Known(h) =>
       /\ Known(h)'
       /\ sbundle[h].cancelled => sbundle'[h].cancelled
       /\ sbundle[h].success => sbundle'[h].success]_vars

(***************************************************************************)
(* Every scheduled bundle leaves the queue and the workers, and its jobs   *)
(* end, but for one that is for the first block of the bundle and has an   *)
(* external builder with a delay: it waits for good in                     *)
(* builders.SendBundle, and has then done everything else.                 *)
(***************************************************************************)
EveryBundleLeaves ==
  \A s \in Submissions :
    reply[s] = "hash" ~> /\ Copies(s) = 0
                         /\ \A j \in jobs : j.id = s => j.stats = "done" /\ j.send = "hung" /\ Hangs(j)

-----------------------------------------------------------------------------
(* What the repository says of the node, and the code does otherwise.      *)

\* A bundle that shares hints and was simulated successfully has its hint published.
HintsPublished ==
  \A h \in Hashes : builderTable[h] > 0 /\ sbundle[h].matchable => published[h] > 0
=============================================================================
