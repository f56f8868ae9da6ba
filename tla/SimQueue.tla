------------------------------ MODULE SimQueue ------------------------------
(***************************************************************************)
(* The simulation queue of simqueue/queue.go: a priority queue kept in one *)
(* Redis sorted set, filled by the clients of Push and by the workers that *)
(* reschedule items, and emptied by the workers of StartProcessLoop.       *)
(*                                                                         *)
(* Every Redis command and every atomic load of currentBlock is one step,  *)
(* so that a block update, another client or another worker can come       *)
(* between any two of them.  The ProcessFunc is a parameter: it answers    *)
(* with any of Outcomes.                                                   *)
(***************************************************************************)
EXTENDS Integers, FiniteSets

CONSTANTS
  Clients,      \* concurrent callers of Push
  Workers,      \* the goroutines of StartProcessLoop
  Outcomes,     \* what the ProcessFunc may return
  MaxRetries,
  MaxQueuedProcessableItemsLowPrio,
  MaxQueuedProcessableItemsHighPrio,
  MaxQueuedUnprocessableItemsLowPrio,
  MaxQueuedUnprocessableItemsHighPrio,
  CanCancel,    \* whether the context of the workers may be cancelled
  MaxBlock,     \* bound: the highest block the chain reaches
  MaxPushes,    \* bound: calls of Push that get as far as Redis
  MaxTries,     \* bound: requeue attempts within the 4 seconds of retryItem
  MaxFaults,    \* bound: failed Redis commands
  MaxCrashes    \* bound: crashes of the process

AllOutcomes == {"ok", "nextBlock", "workerError", "lagging", "unrecoverable", "other"}

ASSUME ConstantsAssumption ==
  /\ Clients \cap Workers = {}
  /\ IsFiniteSet(Clients) /\ IsFiniteSet(Workers)
  /\ Outcomes \subseteq AllOutcomes
  /\ MaxRetries \in Nat      \* a uint16; an iteration never exceeds it
  /\ MaxQueuedProcessableItemsLowPrio \in Nat
  /\ MaxQueuedProcessableItemsHighPrio \in Nat
  /\ MaxQueuedUnprocessableItemsLowPrio \in Nat
  /\ MaxQueuedUnprocessableItemsHighPrio \in Nat
  /\ CanCancel \in BOOLEAN
  /\ MaxBlock \in Nat /\ MaxPushes \in Nat /\ MaxTries \in Nat
  /\ MaxFaults \in Nat /\ MaxCrashes \in Nat

VARIABLES
  currentBlock,   \* the block number the process has been told last
  zset,           \* the sorted set: [score, member]; outlives the process
  cancelled,      \* the context of the workers has been cancelled
  pc,             \* where each client and each worker is
  args,           \* the packArgs each of them holds
  nextBlock,      \* the nextBlock of queuedItems, loaded before the counts
  processable,    \* the two results of queuedItems
  unprocessable,
  tries,          \* requeue attempts of the current retryItem
  pushes,         \* Push calls so far; the number of a call is its time
  faults,
  crashes,
  \* History variables, read by the properties only.
  asked,          \* the block range each Push call asked for
  accepted,       \* the Push calls that returned nil
  dropped,        \* why copies of an item left the queue for good
  sims,           \* calls of ProcessFunc that consumed a retry of the item
  repliesLost,    \* an ZADD was executed and its reply lost
  peak            \* the highest block number ever seen

history == <<asked, accepted, dropped, sims, repliesLost, peak>>
attempt == <<nextBlock, processable, unprocessable>>
vars == <<currentBlock, zset, cancelled, pc, args, attempt, tries, pushes,
          faults, crashes, history>>

Agents == Clients \cup Workers
Ids    == 1 .. MaxPushes
Blocks == 1 .. MaxBlock

PackArgs == [minTargetBlock : Nat, maxTargetBlock : Nat, highPriority : BOOLEAN,
             timestamp : Nat, iteration : 0 .. MaxRetries]

\* packArgs{}: what an agent that works on no item holds.
NoArgs == [minTargetBlock |-> 0, maxTargetBlock |-> 0, highPriority |-> FALSE,
           timestamp |-> 0, iteration |-> 0]

Reasons == {"stale", "maxRetries", "noNextBlock", "unrecoverable",
            "requeueFailed", "otherError", "popReplyLost", "crash"}

\* From loading nextBlock in queuedItems to the ZADD of pushToQueue.
Pushing == {"load", "zcount1", "zcount2", "check", "zadd"}
PCs == Pushing \cup {"idle", "popping", "popped", "process", "exited"}

-----------------------------------------------------------------------------
(***************************************************************************)
(* The sorted set.  A member is what packData writes: priority byte,       *)
(* iteration, timestamp, max block and payload, in the order in which      *)
(* Redis compares them.  The timestamp stands for the payload too.         *)
(***************************************************************************)
packData(a) ==
  [score  |-> a.minTargetBlock,
   member |-> <<IF a.highPriority THEN 0 ELSE 1, a.iteration, a.timestamp, a.maxTargetBlock>>]

unpackData_SwappedPriority(z) ==
  [minTargetBlock |-> z.score, maxTargetBlock |-> z.member[4],
   highPriority |-> z.member[1] = 1, timestamp |-> z.member[3],
   iteration |-> z.member[2]]

unpackData(z) ==
  [minTargetBlock |-> z.score, maxTargetBlock |-> z.member[4],
   highPriority |-> z.member[1] = 0, timestamp |-> z.member[3],
   iteration |-> z.member[2]]

\* Redis orders by score, then by member lexicographically.
LexLess(m, n) ==
  \E k \in 1 .. 4 : /\ m[k] < n[k]
                    /\ \A j \in 1 .. k - 1 : m[j] = n[j]

Before(y, z) == y.score < z.score \/ (y.score = z.score /\ LexLess(y.member, z.member))

\* ZADD of a member that is already there only moves its score.
ZAdd(s, z) == {y \in s : y.member # z.member} \cup {z}

ZCountUpTo(s, n) == Cardinality({z \in s : z.score <= n})
ZCountFrom(s, n) == Cardinality({z \in s : n <= z.score})

-----------------------------------------------------------------------------
Init ==
  /\ currentBlock = 0
  /\ zset = {}
  /\ cancelled = FALSE
  /\ pc = [a \in Agents |-> "idle"]
  /\ args = [a \in Agents |-> NoArgs]
  /\ nextBlock = [a \in Agents |-> 0]
  /\ processable = [a \in Agents |-> 0]
  /\ unprocessable = [a \in Agents |-> 0]
  /\ tries = [w \in Workers |-> 0]
  /\ pushes = 0 /\ faults = 0 /\ crashes = 0
  /\ asked = [i \in Ids |-> <<0, 0>>]
  /\ accepted = {}
  /\ dropped = [i \in Ids |-> {}]
  /\ sims = [i \in Ids |-> 0]
  /\ repliesLost = FALSE
  /\ peak = 0

(***************************************************************************)
(* UpdateBlock: a number that is not above the current one changes         *)
(* nothing, so only the others are steps.  The chain may advance by        *)
(* several blocks between two polls.                                       *)
(***************************************************************************)
UpdateBlock(b) ==
  /\ ~cancelled
  /\ currentBlock < b
  /\ currentBlock' = b
  /\ peak' = IF b > peak THEN b ELSE peak
  /\ UNCHANGED <<zset, cancelled, pc, args, attempt, tries, pushes, faults,
                 crashes, asked, accepted, dropped, sims, repliesLost>>

\* What an agent forgets when it is done with an item.
Release(a) ==
  /\ pc' = [pc EXCEPT ![a] = "idle"]
  /\ args' = [args EXCEPT ![a] = NoArgs]
  /\ nextBlock' = [nextBlock EXCEPT ![a] = 0]
  /\ processable' = [processable EXCEPT ![a] = 0]
  /\ unprocessable' = [unprocessable EXCEPT ![a] = 0]
  /\ tries' = [w \in Workers |-> IF w = a THEN 0 ELSE tries[w]]

Drop(w, why) ==
  /\ Release(w)
  /\ dropped' = [dropped EXCEPT ![args[w].timestamp] = @ \cup {why}]

Goto(a, label) == pc' = [pc EXCEPT ![a] = label]

-----------------------------------------------------------------------------
(***************************************************************************)
(* pushToQueue, run by the clients for Push and by the workers for         *)
(* retryItem.                                                              *)
(***************************************************************************)

(***************************************************************************)
(* An error of pushToQueue.  Push returns it to its caller.  retryItem     *)
(* tries again until its 4 seconds are over, which may be after any        *)
(* attempt; a cancelled context ends the attempts.                         *)
(***************************************************************************)
PushFailed_CountsAttempt(a) ==
  \/ /\ a \in Clients
     /\ Release(a)
     /\ UNCHANGED dropped
  \/ /\ a \in Workers
     /\ ~cancelled
     /\ tries[a] < MaxTries
     /\ Goto(a, "load")
     /\ tries' = [tries EXCEPT ![a] = @ + 1]
     /\ args' = [args EXCEPT ![a].iteration = @ + 1]
     /\ UNCHANGED <<attempt, dropped>>
  \/ /\ a \in Workers
     /\ Drop(a, "requeueFailed")

PushFailed(a) ==
  \/ /\ a \in Clients
     /\ Release(a)
     /\ UNCHANGED dropped
  \/ /\ a \in Workers
     /\ ~cancelled
     /\ tries[a] < MaxTries
     /\ Goto(a, "load")
     /\ tries' = [tries EXCEPT ![a] = @ + 1]
     /\ UNCHANGED <<args, attempt, dropped>>
  \/ /\ a \in Workers
     /\ Drop(a, "requeueFailed")

\* The context of a worker's Redis commands is cancelled; a client has its own.
Cut(a) == a \in Workers /\ cancelled

\* queuedItems: nextBlock of both counts.
LoadNextBlock(a) ==
  /\ pc[a] = "load"
  /\ nextBlock' = [nextBlock EXCEPT ![a] = currentBlock + 1]
  /\ Goto(a, "zcount1")
  /\ UNCHANGED <<currentBlock, zset, cancelled, args, processable, unprocessable,
                 tries, pushes, faults, crashes, history>>

CountProcessable(a) ==
  /\ pc[a] = "zcount1" /\ ~Cut(a)
  /\ processable' = [processable EXCEPT ![a] = ZCountUpTo(zset, nextBlock[a])]
  /\ Goto(a, "zcount2")
  /\ UNCHANGED <<currentBlock, zset, cancelled, args, nextBlock, unprocessable,
                 tries, pushes, faults, crashes, history>>

CountUnprocessable(a) ==
  /\ pc[a] = "zcount2" /\ ~Cut(a)
  /\ unprocessable' = [unprocessable EXCEPT ![a] = ZCountFrom(zset, nextBlock[a] + 1)]
  /\ Goto(a, "check")
  /\ UNCHANGED <<currentBlock, zset, cancelled, args, nextBlock, processable,
                 tries, pushes, faults, crashes, history>>

Threshold(canProcessItem, highPriority) ==
  CASE canProcessItem /\ ~highPriority  -> MaxQueuedProcessableItemsLowPrio
    [] canProcessItem /\ highPriority   -> MaxQueuedProcessableItemsHighPrio
    [] ~canProcessItem /\ ~highPriority -> MaxQueuedUnprocessableItemsLowPrio
    [] ~canProcessItem /\ highPriority  -> MaxQueuedUnprocessableItemsHighPrio

\* The counts are compared with the limit for the block loaded now, which may
\* be later than the block the counts were taken for.  Once the context is
\* cancelled the Redis client refuses the ZADD that would follow; a ZADD that
\* had been sent before may still be executed (AddToQueue).
HasRoom_OffByOne(a) ==
  LET canProcessItem == args[a].minTargetBlock <= currentBlock + 1
      queued         == IF canProcessItem THEN processable[a] ELSE unprocessable[a]
  IN  queued <= Threshold(canProcessItem, args[a].highPriority)

HasRoom(a) ==
  LET canProcessItem == args[a].minTargetBlock <= currentBlock + 1
      queued         == IF canProcessItem THEN processable[a] ELSE unprocessable[a]
  IN  queued < Threshold(canProcessItem, args[a].highPriority)

CheckRoom(a) ==
  /\ pc[a] = "check"
  /\ \/ /\ HasRoom(a) /\ ~Cut(a)
        /\ Goto(a, "zadd")
        /\ UNCHANGED <<args, attempt, tries, dropped>>
     \/ /\ ~HasRoom(a) \/ Cut(a)
        /\ PushFailed(a)
  /\ UNCHANGED <<currentBlock, zset, cancelled, pushes, faults, crashes,
                 asked, accepted, sims, repliesLost, peak>>

\* The ZADD is answered: Push returns nil, or the worker is done with the item.
AddToQueue(a) ==
  /\ pc[a] = "zadd"
  /\ zset' = ZAdd(zset, packData(args[a]))
  /\ accepted' = accepted \cup (IF a \in Clients THEN {args[a].timestamp} ELSE {})
  /\ Release(a)
  /\ UNCHANGED <<currentBlock, cancelled, pushes, faults, crashes,
                 asked, dropped, sims, repliesLost, peak>>

\* A Redis command of pushToQueue fails without having been executed.
CommandFails_Ignored(a) ==
  /\ pc[a] \in {"zcount1", "zcount2", "zadd"}
  /\ faults < MaxFaults /\ faults' = faults + 1
  /\ accepted' = accepted \cup (IF a \in Clients THEN {args[a].timestamp} ELSE {})
  /\ Release(a)
  /\ UNCHANGED <<currentBlock, zset, cancelled, pushes, crashes,
                 asked, dropped, sims, repliesLost, peak>>

CommandFails(a) ==
  /\ pc[a] \in {"zcount1", "zcount2", "zadd"}
  /\ \/ Cut(a) /\ UNCHANGED faults
     \/ faults < MaxFaults /\ faults' = faults + 1
  /\ PushFailed(a)
  /\ UNCHANGED <<currentBlock, zset, cancelled, pushes, crashes,
                 asked, accepted, sims, repliesLost, peak>>

\* The ZADD is executed and its reply lost: pushToQueue fails, or the Redis
\* client sends the command again by itself.
ReplyLost(a) ==
  /\ pc[a] = "zadd"
  /\ faults < MaxFaults /\ faults' = faults + 1
  /\ zset' = ZAdd(zset, packData(args[a]))
  /\ repliesLost' = TRUE
  /\ \/ PushFailed(a)
     \/ UNCHANGED <<pc, args, attempt, tries, dropped>>
  /\ UNCHANGED <<currentBlock, cancelled, pushes, crashes, asked, accepted, sims, peak>>

pushToQueue(a) ==
  \/ LoadNextBlock(a) \/ CountProcessable(a) \/ CountUnprocessable(a)
  \/ CheckRoom(a) \/ AddToQueue(a) \/ CommandFails(a) \/ ReplyLost(a)

-----------------------------------------------------------------------------
(***************************************************************************)
(* Push.  A range that ended is refused at once (ErrStaleItem), which      *)
(* changes nothing.  ValidateBundle has checked min <= max.                *)
(***************************************************************************)
Push(c, min, max, highPriority) ==
  /\ pc[c] = "idle"
  /\ pushes < MaxPushes
  /\ min <= max
  /\ max > currentBlock
  /\ pushes' = pushes + 1
  /\ asked' = [asked EXCEPT ![pushes + 1] = <<min, max>>]
  /\ args' = [args EXCEPT ![c] =
       [minTargetBlock |-> IF min < currentBlock + 1 THEN currentBlock + 1 ELSE min,
        maxTargetBlock |-> max, highPriority |-> highPriority,
        timestamp |-> pushes + 1, iteration |-> 0]]
  /\ Goto(c, "load")
  /\ UNCHANGED <<currentBlock, zset, cancelled, attempt, tries, faults, crashes,
                 accepted, dropped, sims, repliesLost, peak>>

-----------------------------------------------------------------------------
(***************************************************************************)
(* processNextItem.                                                        *)
(***************************************************************************)

\* BZPOPMIN is sent; it waits up to a second for an item.
Poll_IgnoresCancel(w) ==
  /\ pc[w] = "idle"
  /\ Goto(w, "popping")
  /\ UNCHANGED <<currentBlock, zset, cancelled, args, attempt, tries, pushes,
                 faults, crashes, history>>

Poll(w) ==
  /\ pc[w] = "idle" /\ ~cancelled
  /\ Goto(w, "popping")
  /\ UNCHANGED <<currentBlock, zset, cancelled, args, attempt, tries, pushes,
                 faults, crashes, history>>

\* BZPOPMIN times out (redis.Nil), or fails without having been executed.
PopNothing_EndsLoop(w) ==
  /\ pc[w] = "popping" /\ zset = {}
  /\ Goto(w, "exited")
  /\ UNCHANGED <<currentBlock, zset, cancelled, args, attempt, tries, pushes,
                 faults, crashes, history>>

PopNothing(w) ==
  /\ pc[w] = "popping"
  /\ \/ zset = {} /\ UNCHANGED faults
     \/ faults < MaxFaults /\ faults' = faults + 1
  /\ Goto(w, "idle")
  /\ UNCHANGED <<currentBlock, zset, cancelled, args, attempt, tries, pushes,
                 crashes, history>>

IsMin(z) == z \in zset /\ \A y \in zset \ {z} : Before(z, y)

PopItem_LeavesItem(w) ==
  /\ pc[w] = "popping"
  /\ \E z \in zset :
       /\ IsMin(z)
       /\ args' = [args EXCEPT ![w] = unpackData(z)]
  /\ Goto(w, "popped")
  /\ UNCHANGED <<currentBlock, zset, cancelled, attempt, tries, pushes, faults, crashes, history>>

PopItem(w) ==
  /\ pc[w] = "popping"
  /\ \E z \in zset :
       /\ IsMin(z)
       /\ zset' = zset \ {z}
       /\ args' = [args EXCEPT ![w] = unpackData(z)]
  /\ Goto(w, "popped")
  /\ UNCHANGED <<currentBlock, cancelled, attempt, tries, pushes, faults, crashes, history>>

\* The item is taken out of the sorted set and the reply lost.
PopReplyLost(w) ==
  /\ pc[w] = "popping"
  /\ faults < MaxFaults /\ faults' = faults + 1
  /\ \E z \in zset :
       /\ IsMin(z)
       /\ zset' = zset \ {z}
       /\ dropped' = [dropped EXCEPT ![unpackData(z).timestamp] = @ \cup {"popReplyLost"}]
  /\ Goto(w, "idle")
  /\ UNCHANGED <<currentBlock, cancelled, args, attempt, tries, pushes, crashes,
                 asked, accepted, sims, repliesLost, peak>>

Exhausted_OffByOne(a) == a.iteration > MaxRetries
Exhausted(a) == a.iteration >= MaxRetries

(***************************************************************************)
(* retryItem: gives the item up when its retries or its blocks are used    *)
(* up, and pushes it again otherwise.  The iterations are compared before  *)
(* they are incremented, and also when they are not.                       *)
(***************************************************************************)
retryItem_AlwaysCounts(w, a, incrIteration, incrBlock) ==
  \/ /\ Exhausted(a)
     /\ Drop(w, "maxRetries")
  \/ /\ ~Exhausted(a)
     /\ args' = [args EXCEPT ![w] =
          [a EXCEPT !.iteration = @ + 1,
                    !.minTargetBlock = IF incrBlock THEN @ + 1 ELSE @]]
     /\ Goto(w, "load")
     /\ UNCHANGED <<attempt, tries, dropped>>

retryItem_NeverCounts(w, a, incrIteration, incrBlock) ==
  \/ /\ Exhausted(a)
     /\ Drop(w, "maxRetries")
  \/ /\ ~Exhausted(a)
     /\ incrBlock /\ a.minTargetBlock >= a.maxTargetBlock
     /\ Drop(w, "noNextBlock")
  \/ /\ ~Exhausted(a)
     /\ incrBlock => a.minTargetBlock < a.maxTargetBlock
     /\ args' = [args EXCEPT ![w] = [a EXCEPT !.minTargetBlock = IF incrBlock THEN @ + 1 ELSE @]]
     /\ Goto(w, "load")
     /\ UNCHANGED <<attempt, tries, dropped>>

retryItem(w, a, incrIteration, incrBlock) ==
  \/ /\ Exhausted(a)
     /\ Drop(w, "maxRetries")
  \/ /\ ~Exhausted(a)
     /\ incrBlock /\ a.minTargetBlock >= a.maxTargetBlock
     /\ Drop(w, "noNextBlock")
  \/ /\ ~Exhausted(a)
     /\ incrBlock => a.minTargetBlock < a.maxTargetBlock
     /\ args' = [args EXCEPT ![w] =
          [a EXCEPT !.iteration = IF incrIteration THEN @ + 1 ELSE @,
                    !.minTargetBlock = IF incrBlock THEN @ + 1 ELSE @]]
     /\ Goto(w, "load")
     /\ UNCHANGED <<attempt, tries, dropped>>

\* The item compared with the next block.
TooEarly(a) == currentBlock + 1 < a.minTargetBlock

Stale_Early(a) == currentBlock + 1 > a.minTargetBlock /\ currentBlock + 1 >= a.maxTargetBlock
Stale_Late(a)  == currentBlock + 1 > a.minTargetBlock /\ currentBlock > a.maxTargetBlock
Stale(a) == currentBlock + 1 > a.minTargetBlock /\ currentBlock + 1 > a.maxTargetBlock

\* A late item that is not stale is moved to the next block.
RollOver(w) == retryItem(w, [args[w] EXCEPT !.minTargetBlock = currentBlock + 1], FALSE, FALSE)

Dispatch(w) ==
  LET a == args[w]
  IN  /\ pc[w] = "popped"
      /\ \/ /\ TooEarly(a)
            /\ retryItem(w, a, FALSE, FALSE)
         \/ /\ Stale(a)
            /\ Drop(w, "stale")
         \/ /\ currentBlock + 1 > a.minTargetBlock /\ ~Stale(a)
            /\ RollOver(w)
         \/ /\ currentBlock + 1 <= a.minTargetBlock /\ ~TooEarly(a)
            /\ Goto(w, "process")
            /\ UNCHANGED <<args, attempt, tries, dropped>>
      /\ UNCHANGED <<currentBlock, zset, cancelled, pushes, faults, crashes,
                     asked, accepted, sims, repliesLost, peak>>

(***************************************************************************)
(* The ProcessFunc returns.  A timeout counts as an error of the worker    *)
(* and a lagging worker costs the item no retry.                           *)
(***************************************************************************)
Processed(w, outcome) ==
  /\ pc[w] = "process"
  /\ CASE outcome = "workerError"   -> retryItem(w, args[w], TRUE, FALSE)
       [] outcome = "nextBlock"     -> retryItem(w, args[w], TRUE, TRUE)
       [] outcome = "ok"            -> retryItem(w, args[w], TRUE, TRUE)
       [] outcome = "lagging"       -> retryItem(w, args[w], FALSE, FALSE)
       [] outcome = "unrecoverable" -> Drop(w, "unrecoverable")
       [] outcome = "other"         -> Drop(w, "otherError")
  /\ sims' = IF outcome = "lagging" THEN sims
             ELSE [sims EXCEPT ![args[w].timestamp] = @ + 1]
  /\ UNCHANGED <<currentBlock, zset, cancelled, pushes, faults, crashes,
                 asked, accepted, repliesLost, peak>>

-----------------------------------------------------------------------------
(***************************************************************************)
(* StartProcessLoop: the context is cancelled, the workers return.         *)
(***************************************************************************)
Cancel ==
  /\ CanCancel /\ ~cancelled
  /\ cancelled' = TRUE
  /\ UNCHANGED <<currentBlock, zset, pc, args, attempt, tries, pushes, faults,
                 crashes, history>>

Exit(w) ==
  /\ pc[w] = "idle" /\ cancelled
  /\ Goto(w, "exited")
  /\ UNCHANGED <<currentBlock, zset, cancelled, args, attempt, tries, pushes,
                 faults, crashes, history>>

\* An agent that has a reference to an item: a worker that took it out of the
\* sorted set, a client that has not got it in yet.
Holding(a) == pc[a] \in {"popped", "process"} \cup Pushing

(***************************************************************************)
(* The process stops and is started again: the sorted set is all that is   *)
(* left.  NewRedisQueue starts from block 0.                               *)
(***************************************************************************)
Restart ==
  /\ crashes < MaxCrashes /\ crashes' = crashes + 1
  /\ currentBlock' = 0
  /\ cancelled' = FALSE
  /\ pc' = [a \in Agents |-> "idle"]
  /\ args' = [a \in Agents |-> NoArgs]
  /\ nextBlock' = [a \in Agents |-> 0]
  /\ processable' = [a \in Agents |-> 0]
  /\ unprocessable' = [a \in Agents |-> 0]
  /\ tries' = [w \in Workers |-> 0]
  /\ dropped' = [i \in Ids |-> dropped[i] \cup
                   {"crash" : w \in {v \in Workers : Holding(v) /\ args[v].timestamp = i}}]
  /\ UNCHANGED <<zset, pushes, faults, asked, accepted, sims, repliesLost, peak>>

-----------------------------------------------------------------------------
processNextItem(w) ==
  \/ Poll(w) \/ PopNothing(w) \/ PopItem(w) \/ PopReplyLost(w)
  \/ Dispatch(w)
  \/ \E outcome \in Outcomes : Processed(w, outcome)

WorkerStep(w) == processNextItem(w) \/ pushToQueue(w) \/ Exit(w)

BlockStep == \E b \in Blocks : UpdateBlock(b)

Next ==
  \/ BlockStep
  \/ \E c \in Clients :
       \/ \E min, max \in Blocks, highPriority \in BOOLEAN : Push(c, min, max, highPriority)
       \/ pushToQueue(c)
  \/ \E w \in Workers : WorkerStep(w)
  \/ Cancel
  \/ Restart

Spec == Init /\ [][Next]_vars

(***************************************************************************)
(* The Go scheduler runs every goroutine that can run, the simulation is   *)
(* bounded by WorkerTimeout, and the block updater polls a chain that      *)
(* makes progress.                                                         *)
(***************************************************************************)
FairSpec ==
  /\ Spec
  /\ WF_vars(BlockStep)
  /\ \A c \in Clients : WF_vars(pushToQueue(c))
  /\ \A w \in Workers : WF_vars(WorkerStep(w))
-----------------------------------------------------------------------------
(***************************************************************************)
(* Properties.                                                             *)
(***************************************************************************)

Entries == [score : Nat, member : {0, 1} \X (0 .. MaxRetries) \X Nat \X Nat]

\* The types of the variables.
TypeOK ==
  /\ currentBlock \in Nat /\ peak \in Nat
  /\ zset \subseteq Entries /\ IsFiniteSet(zset)
  /\ cancelled \in BOOLEAN /\ repliesLost \in BOOLEAN
  /\ pc \in [Agents -> PCs]
  /\ args \in [Agents -> PackArgs]
  /\ nextBlock \in [Agents -> Nat]
  /\ processable \in [Agents -> Nat]
  /\ unprocessable \in [Agents -> Nat]
  /\ tries \in [Workers -> Nat]
  /\ pushes \in 0 .. MaxPushes /\ faults \in Nat /\ crashes \in Nat
  /\ asked \in [Ids -> Nat \X Nat]
  /\ accepted \subseteq Nat
  /\ dropped \in [Ids -> SUBSET Reasons]
  /\ sims \in [Ids -> Nat]

Holders(i) == {a \in Agents : Holding(a) /\ args[a].timestamp = i}
Queued(i)  == {z \in zset : unpackData(z).timestamp = i}
Live(i)    == Holders(i) # {} \/ Queued(i) # {}

(***************************************************************************)
(* What makes ProcessedInRange inductive: every copy of an item, in the    *)
(* sorted set or with an agent, has a block range within the one asked     *)
(* for.                                                                    *)
(***************************************************************************)
InRange(a) ==
  /\ a.timestamp \in 1 .. pushes
  /\ asked[a.timestamp][1] <= a.minTargetBlock
  /\ a.minTargetBlock <= a.maxTargetBlock
  /\ a.maxTargetBlock = asked[a.timestamp][2]

CopiesInRange ==
  /\ \A a \in Agents : Holding(a) => InRange(args[a])
  /\ \A z \in zset : InRange(unpackData(z))

\* No item is simulated before its block is the next one.
NotEarly == \A w \in Workers : pc[w] = "process" => args[w].minTargetBlock <= currentBlock + 1

(***************************************************************************)
(* A bundle is simulated only for a block of the range its sender asked    *)
(* for, and not before the block that precedes it is known (processNextItem *)
(* compares with currentBlock + 1 after the pop; Push, the rollover of a   *)
(* late item and retryItem all move minTargetBlock).                       *)
(***************************************************************************)
ProcessedInRange ==
  \A w \in Workers : pc[w] = "process" =>
    LET a == args[w]
    IN  /\ asked[a.timestamp][1] <= a.minTargetBlock
        /\ a.minTargetBlock <= asked[a.timestamp][2]
        /\ a.minTargetBlock <= currentBlock + 1

(***************************************************************************)
(* As long as no reply to a ZADD was lost, an item is in one place only:   *)
(* once in the sorted set, or with one worker, or with the client that     *)
(* pushes it.  Two workers never simulate it at the same time, whatever    *)
(* was rescheduled, rolled over or lost in a crash.                        *)
(***************************************************************************)
ClaimedOnce ==
  ~repliesLost =>
    \A i \in Ids :
      /\ \A a, b \in Holders(i) : a = b
      /\ \A y, z \in Queued(i) : y = z
      /\ Holders(i) = {} \/ Queued(i) = {}

(***************************************************************************)
(* No copy of an item carries more retries than its simulations cost, also *)
(* when a requeue is attempted again after it was executed.  As long as no *)
(* reply to a ZADD was lost the iteration counts them exactly: rescheduling *)
(* and rollover never reset or skip the count, and an item gets at most    *)
(* MaxRetries + 1 simulations, one more than the comment on MaxRetries     *)
(* says (SimsWithinMaxRetries, below).                                     *)
(***************************************************************************)
RetriesCounted ==
  \A i \in Ids :
    /\ \A a \in Holders(i) : args[a].iteration <= sims[i]
    /\ \A z \in Queued(i) : unpackData(z).iteration <= sims[i]
    /\ ~repliesLost =>
         /\ \A a \in Holders(i) : args[a].iteration = sims[i]
         /\ \A z \in Queued(i) : unpackData(z).iteration = sims[i]
         /\ sims[i] <= MaxRetries + 1

(***************************************************************************)
(* A lost reply may put a second copy of an item into the queue, with its  *)
(* own count of retries from there on: each failed command adds the        *)
(* simulations of one copy at most, however often the copies are requeued. *)
(***************************************************************************)
SimsBounded == \A i \in Ids : sims[i] <= (MaxRetries + 1) * (faults + 1)

(***************************************************************************)
(* An accepted item does not vanish: it is in the sorted set, or with an   *)
(* agent, or one of the ways to leave the queue was taken.  One of these   *)
(* is a failed requeue, and every requeue fails once the context is        *)
(* cancelled: what a worker has to put back on a shutdown is lost.         *)
(***************************************************************************)
NothingVanishes == \A i \in accepted : Live(i) \/ dropped[i] # {}

(***************************************************************************)
(* An item is given up only for a reason that holds of the chain and of    *)
(* its simulations: as stale when the last block of its range is there,    *)
(* for lack of a next block when the last one has been tried, for its      *)
(* retries when it was simulated MaxRetries times.                         *)
(***************************************************************************)
DropsJustified ==
  \A i \in Ids :
    /\ "stale" \in dropped[i] => peak >= asked[i][2]
    /\ "noNextBlock" \in dropped[i] => peak + 1 >= asked[i][2] /\ sims[i] > 0
    /\ "maxRetries" \in dropped[i] => repliesLost \/ sims[i] >= MaxRetries

(***************************************************************************)
(* A worker never starts a low priority item while a high priority one for *)
(* the same block waits: the priority byte that packData writes makes      *)
(* Redis return the other one first.                                       *)
(***************************************************************************)
HighPriorityFirst ==
  [][\A w \in Workers :
       pc[w] = "popping" /\ pc'[w] = "popped" /\ ~args'[w].highPriority =>
         \A z \in zset : unpackData(z).highPriority =>
                          z.score > args'[w].minTargetBlock]_vars

(***************************************************************************)
(* Every accepted item leaves the queue in the end, also when commands of  *)
(* Redis fail and when the node is restarted, unless it is shut down.      *)
(***************************************************************************)
EventuallyLeaves == \A i \in Ids : i \in accepted ~> ~Live(i) \/ cancelled

(***************************************************************************)
(* Once the context is cancelled all workers return, whatever they were    *)
(* doing, so that the wait group of StartProcessLoop is released, unless   *)
(* the process ends before.                                                *)
(***************************************************************************)
WorkersExit == cancelled ~> (\A w \in Workers : pc[w] = "exited") \/ ~cancelled

-----------------------------------------------------------------------------
(***************************************************************************)
(* A statement of the documentation that the code does not keep.           *)
(***************************************************************************)

\* "MaxRetries is the maximum number of simulations for a single item."
SimsWithinMaxRetries == \A i \in Ids : sims[i] <= MaxRetries
=============================================================================
