--------------------------- MODULE SimQueueProofs ---------------------------
(***************************************************************************)
(* Proofs about SimQueue, for every number of clients, workers, blocks,    *)
(* items, retries, faults and crashes: the types, the shapes that its      *)
(* steps have, the blocks an item is simulated for, how many copies of it  *)
(* there are, how often it is simulated, which item a worker takes first,  *)
(* and by how much the queue can exceed its limit.                         *)
(***************************************************************************)
EXTENDS SimQueueLimits, FiniteSetTheorems, TLAPS

\* packData writes a member of the sorted set.
LEMMA PackType == ASSUME NEW a \in PackArgs PROVE packData(a) \in Entries
  BY DEF PackArgs, packData, Entries

\* unpackData reads packArgs.
LEMMA UnpackType == ASSUME NEW z \in Entries PROVE unpackData(z) \in PackArgs
  BY DEF PackArgs, unpackData, Entries

\* What a worker pops is what was pushed.
LEMMA PackRoundTrip == ASSUME NEW a \in PackArgs PROVE unpackData(packData(a)) = a
  BY SMT, SMTT(30) DEF PackArgs, unpackData, packData

\* ZADD keeps the sorted set finite and well typed.
LEMMA ZAddType ==
  ASSUME NEW s, s \subseteq Entries, IsFiniteSet(s), NEW z \in Entries
  PROVE  ZAdd(s, z) \subseteq Entries /\ IsFiniteSet(ZAdd(s, z))
<1>1. IsFiniteSet({y \in s : y.member # z.member})
  BY FS_Subset
<1>2. IsFiniteSet({y \in s : y.member # z.member} \cup {z})
  BY <1>1, FS_AddElement, Zenon
<1>. QED  BY <1>2 DEF ZAdd

\* Both counts of queuedItems are natural numbers.
LEMMA CountType ==
  ASSUME NEW s, IsFiniteSet(s), NEW n
  PROVE  ZCountUpTo(s, n) \in Nat /\ ZCountFrom(s, n) \in Nat
<1>1. IsFiniteSet({z \in s : z.score <= n}) /\ IsFiniteSet({z \in s : n <= z.score})
  BY FS_Subset
<1>. QED  BY <1>1, FS_CardinalityType DEF ZCountUpTo, ZCountFrom

-----------------------------------------------------------------------------
\* Forgetting an item keeps the types.
LEMMA ReleaseType ==
  ASSUME TypeOK, NEW a \in Agents, Release(a)
  PROVE  /\ pc' \in [Agents -> PCs]
         /\ args' \in [Agents -> PackArgs]
         /\ nextBlock' \in [Agents -> Nat]
         /\ processable' \in [Agents -> Nat]
         /\ unprocessable' \in [Agents -> Nat]
         /\ tries' \in [Workers -> Nat]
<1>1. NoArgs \in PackArgs
  BY ConstantsAssumption, SMT, SMTT(30) DEF ConstantsAssumption, NoArgs, PackArgs
<1>. QED  BY <1>1 DEF Release, TypeOK, PCs

\* So does giving an item up for one of the reasons.
LEMMA DropType ==
  ASSUME TypeOK, NEW w \in Workers, NEW why \in Reasons, Drop(w, why)
  PROVE  dropped' \in [Ids -> SUBSET Reasons]
BY Zenon DEF Drop, TypeOK

\* And so does an error of pushToQueue.
LEMMA PushFailedType ==
  ASSUME TypeOK, NEW a \in Agents, PushFailed(a)
  PROVE  /\ pc' \in [Agents -> PCs]
         /\ args' \in [Agents -> PackArgs]
         /\ nextBlock' \in [Agents -> Nat]
         /\ processable' \in [Agents -> Nat]
         /\ unprocessable' \in [Agents -> Nat]
         /\ tries' \in [Workers -> Nat]
         /\ dropped' \in [Ids -> SUBSET Reasons]
<1>1. CASE Release(a) /\ UNCHANGED dropped
  BY <1>1, ReleaseType DEF TypeOK
<1>2. CASE a \in Workers /\ Drop(a, "requeueFailed")
  BY <1>2, ReleaseType, DropType, Zenon DEF Drop, Reasons
<1>3. CASE /\ a \in Workers
           /\ Goto(a, "load")
           /\ tries' = [tries EXCEPT ![a] = @ + 1]
           /\ UNCHANGED <<args, attempt, dropped>>
  BY <1>3, SMT, SMTT(30) DEF Goto, attempt, TypeOK, PCs, Pushing
<1>. QED  BY <1>1, <1>2, <1>3 DEF PushFailed

\* And retryItem.
LEMMA RetryType ==
  ASSUME TypeOK, NEW w \in Workers, NEW a \in PackArgs,
         NEW i \in BOOLEAN, NEW b \in BOOLEAN, retryItem(w, a, i, b)
  PROVE  /\ pc' \in [Agents -> PCs]
         /\ args' \in [Agents -> PackArgs]
         /\ nextBlock' \in [Agents -> Nat]
         /\ processable' \in [Agents -> Nat]
         /\ unprocessable' \in [Agents -> Nat]
         /\ tries' \in [Workers -> Nat]
         /\ dropped' \in [Ids -> SUBSET Reasons]
<1>0. w \in Agents
  BY DEF Agents
<1>1. CASE Drop(w, "maxRetries")
  BY <1>0, <1>1, ReleaseType, DropType, Zenon DEF Drop, Reasons
<1>2. CASE Drop(w, "noNextBlock")
  BY <1>0, <1>2, ReleaseType, DropType, Zenon DEF Drop, Reasons
<1>3. CASE /\ a.iteration < MaxRetries
           /\ args' = [args EXCEPT ![w] =
                [a EXCEPT !.iteration = IF i THEN @ + 1 ELSE @,
                          !.minTargetBlock = IF b THEN @ + 1 ELSE @]]
           /\ Goto(w, "load")
           /\ UNCHANGED <<attempt, tries, dropped>>
  <2>1. [a EXCEPT !.iteration = IF i THEN @ + 1 ELSE @,
                  !.minTargetBlock = IF b THEN @ + 1 ELSE @] \in PackArgs
    <3>1. a.iteration + 1 \in 0 .. MaxRetries /\ a.minTargetBlock + 1 \in Nat
      BY <1>3, ConstantsAssumption, SMT, SMTT(30) DEF ConstantsAssumption, PackArgs
    <3>. QED  BY <3>1, Zenon DEF PackArgs
  <2>. QED  BY <1>3, <2>1, Zenon DEF Goto, attempt, TypeOK, PCs, Pushing
<1>. QED  BY <1>1, <1>2, <1>3, ConstantsAssumption, SMT, SMTT(30) DEF retryItem, Exhausted, PackArgs, ConstantsAssumption

-----------------------------------------------------------------------------
(***************************************************************************)
(* The variables keep their types; in particular no iteration exceeds      *)
(* MaxRetries, so its 16 bits in the packed member never overflow.         *)
(***************************************************************************)
THEOREM TypeCorrect == Spec => []TypeOK
<1>1. Init => TypeOK
  <2>1. NoArgs \in PackArgs
    BY ConstantsAssumption, SMT, SMTT(30) DEF ConstantsAssumption, NoArgs, PackArgs
  <2>2. Init => /\ zset \subseteq Entries /\ IsFiniteSet(zset)
                /\ asked \in [Ids -> Nat \X Nat]
                /\ pushes \in 0 .. MaxPushes
    BY FS_EmptySet, ConstantsAssumption, SMT, SMTT(30) DEF Init, ConstantsAssumption
  <2>3. Init => cancelled \in BOOLEAN /\ repliesLost \in BOOLEAN
    BY Zenon DEF Init
  <2>4. Init => pc \in [Agents -> PCs] /\ args \in [Agents -> PackArgs]
    BY <2>1 DEF Init, PCs
  <2>. QED  BY <2>2, <2>3, <2>4, SMT, SMTT(30) DEF Init, TypeOK
<1>2. TypeOK /\ [Next]_vars => TypeOK'
  <2>. SUFFICES ASSUME TypeOK, [Next]_vars PROVE TypeOK'
    OBVIOUS
  <2>. USE DEF attempt, history
  <2>1. ASSUME NEW b \in Blocks, UpdateBlock(b) PROVE TypeOK'
    BY <2>1, SMT, SMTT(30) DEF UpdateBlock, TypeOK, Blocks
  <2>2. ASSUME NEW c \in Clients, NEW min \in Blocks, NEW max \in Blocks,
               NEW h \in BOOLEAN, Push(c, min, max, h)
        PROVE  TypeOK'
    <3>1. [minTargetBlock |-> IF min < currentBlock + 1 THEN currentBlock + 1 ELSE min,
           maxTargetBlock |-> max, highPriority |-> h,
           timestamp |-> pushes + 1, iteration |-> 0] \in PackArgs
      BY ConstantsAssumption, SMT, SMTT(30) DEF ConstantsAssumption, TypeOK, PackArgs, Blocks
    <3>2. <<min, max>> \in Nat \X Nat
      BY SMT, SMTT(30) DEF Blocks
    <3>3. args' \in [Agents -> PackArgs] /\ asked' \in [Ids -> Nat \X Nat]
      BY <2>2, <3>1, <3>2, Zenon DEF Push, TypeOK
    <3>4. pushes' \in 0 .. MaxPushes
      BY <2>2, ConstantsAssumption, SMT, SMTT(30) DEF ConstantsAssumption, Push, TypeOK
    <3>5. pc' \in [Agents -> PCs]
      BY <2>2, Zenon DEF Push, Goto, TypeOK, PCs, Pushing
    <3>. QED  BY <2>2, <3>3, <3>4, <3>5 DEF Push, TypeOK
  <2>3. ASSUME NEW a \in Agents, pushToQueue(a) PROVE TypeOK'
    <3>1. CASE LoadNextBlock(a)
      BY <3>1, SMT, SMTT(30) DEF LoadNextBlock, Goto, TypeOK, PCs, Pushing
    <3>2. CASE CountProcessable(a)
      BY <3>2, CountType DEF CountProcessable, Goto, TypeOK, PCs, Pushing
    <3>3. CASE CountUnprocessable(a)
      BY <3>3, CountType DEF CountUnprocessable, Goto, TypeOK, PCs, Pushing
    <3>4. CASE CheckRoom(a)
      <4>1. CASE Goto(a, "zadd") /\ UNCHANGED <<args, attempt, tries, dropped>>
        BY <3>4, <4>1 DEF CheckRoom, Goto, TypeOK, PCs, Pushing
      <4>2. CASE PushFailed(a)
        BY <3>4, <4>2, PushFailedType DEF CheckRoom, TypeOK
      <4>. QED  BY <3>4, <4>1, <4>2 DEF CheckRoom
    <3>5. CASE AddToQueue(a)
      <4>1. packData(args[a]) \in Entries
        BY PackType DEF TypeOK
      <4>2. zset' \subseteq Entries /\ IsFiniteSet(zset')
        BY <3>5, <4>1, ZAddType DEF AddToQueue, TypeOK
      <4>3. accepted' \subseteq Nat
        BY <3>5, Zenon DEF AddToQueue, TypeOK, PackArgs
      <4>. QED  BY <3>5, <4>2, <4>3, ReleaseType DEF AddToQueue, TypeOK
    <3>6. CASE CommandFails(a)
      BY <3>6, PushFailedType, SMT, SMTT(30) DEF CommandFails, TypeOK
    <3>7. CASE ReplyLost(a)
      <4>1. packData(args[a]) \in Entries
        BY PackType DEF TypeOK
      <4>2. zset' \subseteq Entries /\ IsFiniteSet(zset')
        BY <3>7, <4>1, ZAddType DEF ReplyLost, TypeOK
      <4>3. CASE PushFailed(a)
        BY <3>7, <4>2, <4>3, PushFailedType, SMT, SMTT(30) DEF ReplyLost, TypeOK
      <4>4. CASE UNCHANGED <<pc, args, attempt, tries, dropped>>
        BY <3>7, <4>2, <4>4, SMT, SMTT(30) DEF ReplyLost, TypeOK
      <4>. QED  BY <3>7, <4>3, <4>4 DEF ReplyLost
    <3>. QED  BY <2>3, <3>1, <3>2, <3>3, <3>4, <3>5, <3>6, <3>7 DEF pushToQueue
  <2>4. ASSUME NEW w \in Workers, processNextItem(w) PROVE TypeOK'
    <3>0. w \in Agents
      BY DEF Agents
    <3>1. CASE Poll(w)
      BY <3>1, Zenon DEF Poll, Goto, TypeOK, PCs
    <3>2. CASE PopNothing(w)
      <4>1. faults' \in Nat
        BY <3>2, SMT, SMTT(30) DEF PopNothing, TypeOK
      <4>2. pc' \in [Agents -> PCs]
        BY <3>2, Zenon DEF PopNothing, Goto, TypeOK, PCs
      <4>. QED  BY <3>2, <4>1, <4>2 DEF PopNothing, TypeOK
    <3>3. CASE PopItem(w)
      <4>1. PICK z \in zset : /\ zset' = zset \ {z}
                              /\ args' = [args EXCEPT ![w] = unpackData(z)]
        BY <3>3, Zenon DEF PopItem
      <4>2. zset' \subseteq Entries /\ IsFiniteSet(zset')
        BY <4>1, FS_Subset DEF TypeOK
      <4>3. args' \in [Agents -> PackArgs]
        BY <4>1, UnpackType, Zenon DEF TypeOK
      <4>. QED  BY <3>3, <4>2, <4>3 DEF PopItem, Goto, TypeOK, PCs
    <3>4. CASE PopReplyLost(w)
      <4>1. PICK z \in zset :
              /\ zset' = zset \ {z}
              /\ dropped' = [dropped EXCEPT ![unpackData(z).timestamp] = @ \cup {"popReplyLost"}]
        BY <3>4, Zenon DEF PopReplyLost
      <4>2. zset' \subseteq Entries /\ IsFiniteSet(zset')
        BY <4>1, FS_Subset DEF TypeOK
      <4>3. dropped' \in [Ids -> SUBSET Reasons]
        BY <4>1, Zenon DEF TypeOK, Reasons
      <4>4. pc' \in [Agents -> PCs]
        BY <3>4, Zenon DEF PopReplyLost, Goto, TypeOK, PCs
      <4>5. faults' \in Nat
        BY <3>4, SMT, SMTT(30) DEF PopReplyLost, TypeOK
      <4>. QED  BY <3>4, <4>2, <4>3, <4>4, <4>5 DEF PopReplyLost, TypeOK
    <3>5. CASE Dispatch(w)
      <4>0. args[w] \in PackArgs /\ currentBlock + 1 \in Nat
        BY <3>0, SMT, SMTT(30) DEF TypeOK
      <4>1. CASE retryItem(w, args[w], FALSE, FALSE)
        BY <3>5, <4>0, <4>1, RetryType, Zenon DEF Dispatch, TypeOK
      <4>2. CASE Drop(w, "stale")
        BY <3>0, <3>5, <4>2, ReleaseType, DropType, Zenon DEF Dispatch, Drop, Reasons, TypeOK
      <4>3. CASE retryItem(w, [args[w] EXCEPT !.minTargetBlock = currentBlock + 1], FALSE, FALSE)
        <5>1. [args[w] EXCEPT !.minTargetBlock = currentBlock + 1] \in PackArgs
          BY <4>0 DEF PackArgs
        <5>. QED  BY <3>5, <4>3, <5>1, RetryType, Zenon DEF Dispatch, TypeOK
      <4>4. CASE Goto(w, "process") /\ UNCHANGED <<args, attempt, tries, dropped>>
        BY <3>5, <4>4, Zenon DEF Dispatch, Goto, TypeOK, PCs
      <4>. QED  BY <3>5, <4>1, <4>2, <4>3, <4>4, Zenon DEF Dispatch, RollOver
    <3>6. ASSUME NEW o \in Outcomes, Processed(w, o) PROVE TypeOK'
      <4>0. args[w] \in PackArgs /\ sims' \in [Ids -> Nat]
        <5>1. sims' = sims \/ sims' = [sims EXCEPT ![args[w].timestamp] = @ + 1]
          BY <3>6 DEF Processed
        <5>. QED  BY <3>0, <5>1, SMT, SMTT(30) DEF TypeOK
      <4>1. o \in AllOutcomes
        BY ConstantsAssumption DEF ConstantsAssumption
      <4>2. CASE \E i, b \in BOOLEAN : retryItem(w, args[w], i, b)
        BY <3>6, <4>0, <4>2, RetryType, SMT, SMTT(30) DEF Processed, TypeOK
      <4>3. CASE Drop(w, "unrecoverable") \/ Drop(w, "otherError")
        BY <3>0, <3>6, <4>0, <4>3, ReleaseType, DropType, Zenon DEF Processed, Drop, Reasons, TypeOK
      <4>. QED  BY <3>6, <4>1, <4>2, <4>3, Zenon DEF Processed, AllOutcomes
    <3>. QED  BY <2>4, <3>1, <3>2, <3>3, <3>4, <3>5, <3>6 DEF processNextItem
  <2>5. ASSUME NEW w \in Workers, Exit(w) PROVE TypeOK'
    BY <2>5, Zenon DEF Exit, Goto, TypeOK, PCs
  <2>6. CASE Cancel
    BY <2>6 DEF Cancel, TypeOK
  <2>7. CASE Restart
    <3>1. NoArgs \in PackArgs
      BY ConstantsAssumption, SMT, SMTT(30) DEF ConstantsAssumption, NoArgs, PackArgs
    <3>2. dropped' \in [Ids -> SUBSET Reasons]
      BY <2>7 DEF Restart, TypeOK, Reasons
    <3>3. /\ pc' \in [Agents -> PCs]
          /\ args' \in [Agents -> PackArgs]
          /\ nextBlock' \in [Agents -> Nat]
          /\ processable' \in [Agents -> Nat]
          /\ unprocessable' \in [Agents -> Nat]
          /\ tries' \in [Workers -> Nat]
      BY <2>7, <3>1 DEF Restart, PCs
    <3>4. cancelled' \in BOOLEAN
      BY <2>7, Zenon DEF Restart
    <3>5. currentBlock' \in Nat /\ crashes' \in Nat
      BY <2>7, SMT, SMTT(30) DEF Restart, TypeOK
    <3>. QED  BY <2>7, <3>2, <3>3, <3>4, <3>5 DEF Restart, TypeOK
  <2>8. CASE UNCHANGED vars
    BY <2>8 DEF vars, TypeOK
  <2>. QED
    BY <2>1, <2>2, <2>3, <2>4, <2>5, <2>6, <2>7, <2>8
    DEF Next, BlockStep, WorkerStep, Agents
<1>. QED  BY <1>1, <1>2, PTL DEF Spec

-----------------------------------------------------------------------------
(***************************************************************************)
(* What a step does to the copies of the items, in six shapes.  The other  *)
(* agents keep what they hold or let go of it.                             *)
(***************************************************************************)
Keeps(b) == Holding(b)' => Holding(b) /\ args'[b] = args[b]
Others(a) == \A b \in Agents \ {a} : Keeps(b)
SameRequests == asked' = asked /\ pushes' = pushes
SameLosses == repliesLost' = repliesLost

\* Nothing new: copies can only go.
Quiet ==
  /\ \A b \in Agents : Keeps(b)
  /\ zset' \subseteq zset
  /\ SameRequests /\ SameLosses /\ sims' = sims

\* The agent puts its item into the sorted set and lets go of it, unless the
\* reply is lost.
Puts(a) ==
  /\ Holding(a)
  /\ zset' = ZAdd(zset, packData(args[a]))
  /\ \A b \in Agents : Keeps(b)
  /\ \/ ~Holding(a)' /\ SameLosses
     \/ repliesLost'
  /\ SameRequests /\ sims' = sims

\* The worker takes an item out of the sorted set.
Takes(w) ==
  /\ ~Holding(w)
  /\ \E z \in zset : zset' = zset \ {z} /\ args'[w] = unpackData(z)
  /\ Others(w)
  /\ SameRequests /\ SameLosses /\ sims' = sims

\* The worker changes its item, and counts the simulation it consumed.
Rewrites(w) ==
  /\ Holding(w) /\ zset' = zset
  /\ args'[w].timestamp = args[w].timestamp
  /\ args'[w].maxTargetBlock = args[w].maxTargetBlock
  /\ args[w].minTargetBlock <= args'[w].minTargetBlock
  /\ \/ args'[w].minTargetBlock = args[w].minTargetBlock
     \/ args'[w].minTargetBlock <= args[w].maxTargetBlock
  /\ \/ args'[w].iteration = args[w].iteration /\ sims' = sims
     \/ /\ args'[w].iteration = args[w].iteration + 1
        /\ sims' = [sims EXCEPT ![args[w].timestamp] = @ + 1]
  /\ Others(w)
  /\ SameRequests /\ SameLosses

\* The worker gives its item up after a simulation.
Finishes(w) ==
  /\ Holding(w) /\ ~Holding(w)' /\ zset' = zset
  /\ sims' = [sims EXCEPT ![args[w].timestamp] = @ + 1]
  /\ Others(w)
  /\ SameRequests /\ SameLosses

\* A client starts to push a new item.
Submits(c) ==
  /\ pushes' = pushes + 1 /\ pushes' \in Ids /\ zset' = zset
  /\ args'[c].timestamp = pushes' /\ args'[c].iteration = 0
  /\ \E min \in Nat :
       /\ asked' = [asked EXCEPT ![pushes + 1] = <<min, args'[c].maxTargetBlock>>]
       /\ min <= args'[c].minTargetBlock
       /\ args'[c].minTargetBlock <= args'[c].maxTargetBlock
  /\ Others(c)
  /\ SameLosses /\ sims' = sims

Shape ==
  \/ Quiet
  \/ \E a \in Agents : Puts(a) \/ Submits(a)
  \/ \E w \in Workers : Takes(w) \/ Rewrites(w) \/ Finishes(w)

\* An agent that releases its item holds none; the others are not concerned.
LEMMA ReleaseShape ==
  ASSUME TypeOK, NEW a \in Agents, Release(a)
  PROVE  ~Holding(a)' /\ \A b \in Agents : Keeps(b)
BY DEF Release, Holding, Keeps, TypeOK, Pushing

\* After an error of pushToQueue nobody holds anything else.
LEMMA PushFailedShape ==
  ASSUME TypeOK, NEW a \in Agents, Holding(a), PushFailed(a)
  PROVE  \A b \in Agents : Keeps(b)
<1>1. CASE Release(a)
  BY <1>1, ReleaseShape
<1>2. CASE Goto(a, "load") /\ UNCHANGED args
  BY <1>2 DEF Goto, Holding, Keeps, TypeOK
<1>. QED  BY <1>1, <1>2 DEF PushFailed, Drop

\* retryItem gives the item up or moves its block and its iteration.
LEMMA RetryShape ==
  ASSUME TypeOK, NEW w \in Workers, NEW a \in PackArgs, Holding(w),
         NEW i \in BOOLEAN, NEW b \in BOOLEAN, retryItem(w, a, i, b)
  PROVE  \/ ~Holding(w)' /\ \A x \in Agents : Keeps(x)
         \/ /\ Others(w)
            /\ args'[w].timestamp = a.timestamp
            /\ args'[w].maxTargetBlock = a.maxTargetBlock
            /\ a.minTargetBlock <= args'[w].minTargetBlock
            /\ \/ args'[w].minTargetBlock = a.minTargetBlock
               \/ args'[w].minTargetBlock <= a.maxTargetBlock
            /\ args'[w].iteration = IF i THEN a.iteration + 1 ELSE a.iteration
<1>0. w \in Agents
  BY Zenon DEF Agents
<1>1. CASE Release(w)
  BY <1>0, <1>1, ReleaseShape
<1>2. CASE /\ b => a.minTargetBlock < a.maxTargetBlock
           /\ args' = [args EXCEPT ![w] =
                [a EXCEPT !.iteration = IF i THEN @ + 1 ELSE @,
                          !.minTargetBlock = IF b THEN @ + 1 ELSE @]]
           /\ Goto(w, "load")
  <2>1. args'[w] = [a EXCEPT !.iteration = IF i THEN @ + 1 ELSE @,
                             !.minTargetBlock = IF b THEN @ + 1 ELSE @]
    BY <1>0, <1>2 DEF TypeOK
  <2>2. Others(w)
    BY <1>2 DEF Others, Keeps, Holding, Goto, TypeOK
  <2>3. a.minTargetBlock \in Nat /\ a.maxTargetBlock \in Nat
    BY DEF PackArgs
  <2>4. /\ args'[w].timestamp = a.timestamp
        /\ args'[w].maxTargetBlock = a.maxTargetBlock
        /\ args'[w].iteration = IF i THEN a.iteration + 1 ELSE a.iteration
        /\ args'[w].minTargetBlock = IF b THEN a.minTargetBlock + 1 ELSE a.minTargetBlock
    BY <2>1 DEF PackArgs
  <2>. QED  BY <1>2, <2>2, <2>3, <2>4, SMT, SMTT(30)
<1>. QED  BY <1>1, <1>2 DEF retryItem, Drop

\* Every step has one of the shapes.
LEMMA StepShape == TypeOK /\ [Next]_vars => Shape
<1>. SUFFICES ASSUME TypeOK, [Next]_vars PROVE Shape
  OBVIOUS
<1>. USE DEF attempt, history, SameRequests, SameLosses
<1>1. ASSUME NEW b \in Blocks, UpdateBlock(b) PROVE Shape
  BY <1>1 DEF UpdateBlock, Shape, Quiet, Keeps, Holding
<1>2. ASSUME NEW c \in Clients, NEW min \in Blocks, NEW max \in Blocks,
             NEW h \in BOOLEAN, Push(c, min, max, h)
      PROVE  Shape
  <2>0. c \in Agents
    BY DEF Agents
  <2>1. args'[c] =
          [minTargetBlock |-> IF min < currentBlock + 1 THEN currentBlock + 1 ELSE min,
           maxTargetBlock |-> max, highPriority |-> h,
           timestamp |-> pushes + 1, iteration |-> 0]
    BY <1>2, <2>0 DEF Push, TypeOK
  <2>2. /\ args'[c].timestamp = pushes + 1 /\ args'[c].iteration = 0
        /\ args'[c].maxTargetBlock = max
        /\ args'[c].minTargetBlock = IF min < currentBlock + 1 THEN currentBlock + 1 ELSE min
    BY <2>1, SMT, SMTT(30)
  <2>3. min \in Nat /\ max \in Nat /\ min <= max /\ max > currentBlock /\ currentBlock \in Nat
    BY <1>2, SMT, SMTT(30) DEF Push, Blocks, TypeOK
  <2>4. min <= args'[c].minTargetBlock /\ args'[c].minTargetBlock <= args'[c].maxTargetBlock
    BY <2>2, <2>3, SMT, SMTT(30)
  <2>5. Others(c)
    BY <1>2 DEF Push, Goto, Others, Keeps, Holding, TypeOK
  <2>6. pushes' = pushes + 1 /\ pushes' \in Ids
    BY <1>2, ConstantsAssumption, SMT, SMTT(30) DEF Push, TypeOK, Ids, ConstantsAssumption
  <2>7. Submits(c)
    BY <1>2, <2>2, <2>3, <2>4, <2>5, <2>6, Zenon DEF Push, Submits
  <2>. QED  BY <2>0, <2>7 DEF Shape
<1>3. ASSUME NEW a \in Agents, pushToQueue(a) PROVE Shape
  <2>1. CASE LoadNextBlock(a)
    BY <2>1 DEF LoadNextBlock, Goto, Shape, Quiet, Keeps, Holding, TypeOK, Pushing
  <2>2. CASE CountProcessable(a)
    BY <2>2 DEF CountProcessable, Goto, Shape, Quiet, Keeps, Holding, TypeOK, Pushing
  <2>3. CASE CountUnprocessable(a)
    BY <2>3 DEF CountUnprocessable, Goto, Shape, Quiet, Keeps, Holding, TypeOK, Pushing
  <2>4. CASE CheckRoom(a)
    <3>0. Holding(a)
      BY <2>4 DEF CheckRoom, Holding, Pushing
    <3>1. CASE Goto(a, "zadd") /\ UNCHANGED args
      <4>1. \A b \in Agents : Keeps(b)
        BY <3>0, <3>1 DEF Goto, Keeps, Holding, TypeOK
      <4>. QED  BY <2>4, <4>1 DEF CheckRoom, Shape, Quiet
    <3>2. CASE PushFailed(a)
      BY <2>4, <3>0, <3>2, PushFailedShape DEF CheckRoom, Shape, Quiet
    <3>. QED  BY <2>4, <3>1, <3>2 DEF CheckRoom
  <2>5. CASE AddToQueue(a)
    <3>0. Holding(a)
      BY <2>5, Zenon DEF AddToQueue, Holding, Pushing
    <3>1. ~Holding(a)' /\ \A b \in Agents : Keeps(b)
      BY <2>5, ReleaseShape DEF AddToQueue
    <3>2. Puts(a)
      BY <2>5, <3>0, <3>1 DEF AddToQueue, Puts
    <3>. QED  BY <3>2, Zenon DEF Shape
  <2>6. CASE CommandFails(a)
    <3>0. Holding(a)
      BY <2>6 DEF CommandFails, Holding, Pushing
    <3>. QED  BY <2>6, <3>0, PushFailedShape DEF CommandFails, Shape, Quiet
  <2>7. CASE ReplyLost(a)
    <3>0. Holding(a)
      BY <2>7 DEF ReplyLost, Holding, Pushing
    <3>1. \A b \in Agents : Keeps(b)
      <4>1. CASE PushFailed(a)
        BY <3>0, <4>1, PushFailedShape
      <4>2. CASE UNCHANGED <<pc, args>>
        BY <4>2 DEF Keeps, Holding
      <4>. QED  BY <2>7, <4>1, <4>2 DEF ReplyLost
    <3>2. Puts(a)
      BY <2>7, <3>0, <3>1 DEF ReplyLost, Puts
    <3>. QED  BY <3>2 DEF Shape
  <2>. QED  BY <1>3, <2>1, <2>2, <2>3, <2>4, <2>5, <2>6, <2>7, Zenon DEF pushToQueue
<1>4. ASSUME NEW w \in Workers, processNextItem(w) PROVE Shape
  <2>0. w \in Agents /\ args[w] \in PackArgs
    BY DEF Agents, TypeOK
  <2>1. CASE Poll(w)
    BY <2>1 DEF Poll, Goto, Shape, Quiet, Keeps, Holding, TypeOK, Pushing
  <2>2. CASE PopNothing(w)
    BY <2>2 DEF PopNothing, Goto, Shape, Quiet, Keeps, Holding, TypeOK, Pushing
  <2>3. CASE PopItem(w)
    <3>1. PICK z \in zset : zset' = zset \ {z} /\ args' = [args EXCEPT ![w] = unpackData(z)]
      BY <2>3, Zenon DEF PopItem
    <3>2. args'[w] = unpackData(z)
      BY <2>0, <3>1 DEF TypeOK
    <3>3. Others(w) /\ ~Holding(w)
      BY <2>3, <3>1 DEF PopItem, Goto, Others, Keeps, Holding, TypeOK, Pushing
    <3>4. Takes(w)
      BY <2>3, <3>1, <3>2, <3>3 DEF PopItem, Takes
    <3>. QED  BY <3>4 DEF Shape
  <2>4. CASE PopReplyLost(w)
    <3>1. zset' \subseteq zset
      BY <2>4 DEF PopReplyLost
    <3>2. \A b \in Agents : Keeps(b)
      BY <2>4 DEF PopReplyLost, Goto, Keeps, Holding, TypeOK, Pushing
    <3>. QED  BY <2>4, <3>1, <3>2 DEF PopReplyLost, Shape, Quiet
  <2>5. CASE Dispatch(w)
    <3>0. Holding(w) /\ currentBlock \in Nat
      BY <2>5 DEF Dispatch, Holding, TypeOK
    <3>1. /\ UNCHANGED <<zset, sims>> /\ SameRequests /\ SameLosses
      BY <2>5, Zenon DEF Dispatch
    <3>2. CASE retryItem(w, args[w], FALSE, FALSE)
      <4>1. CASE \A x \in Agents : Keeps(x)
        BY <3>1, <4>1 DEF Shape, Quiet
      <4>2. CASE ~\A x \in Agents : Keeps(x)
        <5>1. Rewrites(w)
          BY <2>0, <3>0, <3>1, <3>2, <4>2, RetryShape, Zenon DEF Rewrites
        <5>. QED  BY <5>1 DEF Shape
      <4>. QED  BY <4>1, <4>2
    <3>3. CASE Drop(w, "stale")
      BY <2>0, <3>1, <3>3, ReleaseShape DEF Drop, Shape, Quiet
    <3>4. CASE /\ currentBlock + 1 > args[w].minTargetBlock
               /\ currentBlock + 1 <= args[w].maxTargetBlock
               /\ retryItem(w, [args[w] EXCEPT !.minTargetBlock = currentBlock + 1], FALSE, FALSE)
      <4>. DEFINE a == [args[w] EXCEPT !.minTargetBlock = currentBlock + 1]
      <4>1. /\ a \in PackArgs
            /\ a.timestamp = args[w].timestamp /\ a.maxTargetBlock = args[w].maxTargetBlock
            /\ a.iteration = args[w].iteration /\ a.minTargetBlock = currentBlock + 1
            /\ args[w].minTargetBlock \in Nat /\ args[w].maxTargetBlock \in Nat
        BY <2>0, <3>0, SMT, SMTT(30) DEF PackArgs
      <4>2. CASE \A x \in Agents : Keeps(x)
        BY <3>1, <4>2 DEF Shape, Quiet
      <4>3. CASE ~\A x \in Agents : Keeps(x)
        <5>0. /\ Others(w)
              /\ args'[w].timestamp = a.timestamp
              /\ args'[w].maxTargetBlock = a.maxTargetBlock
              /\ a.minTargetBlock <= args'[w].minTargetBlock
              /\ \/ args'[w].minTargetBlock = a.minTargetBlock
                 \/ args'[w].minTargetBlock <= a.maxTargetBlock
              /\ args'[w].iteration = a.iteration
          BY <3>0, <3>4, <4>1, <4>3, RetryShape, Zenon
        <5>1. args'[w].minTargetBlock \in Nat
          BY <2>0, <3>4, <4>1, RetryType, Zenon DEF PackArgs
        <5>. HIDE DEF a
        <5>2. Rewrites(w)
          BY <3>0, <3>1, <3>4, <4>1, <5>0, <5>1, SMT, SMTT(30) DEF Rewrites
        <5>. QED  BY <5>2 DEF Shape
      <4>. QED  BY <4>2, <4>3
    <3>5. CASE Goto(w, "process") /\ UNCHANGED args
      <4>1. \A b \in Agents : Keeps(b)
        BY <3>0, <3>5 DEF Goto, Keeps, Holding, TypeOK
      <4>. QED  BY <3>1, <4>1 DEF Shape, Quiet
    <3>6. args[w].minTargetBlock \in Nat /\ args[w].maxTargetBlock \in Nat
      BY <2>0 DEF PackArgs
    <3>7. CASE currentBlock + 1 > args[w].minTargetBlock /\ ~Stale(args[w]) /\ RollOver(w)
      <4>1. currentBlock + 1 <= args[w].maxTargetBlock
        BY <3>0, <3>6, <3>7, SMT, SMTT(30) DEF Stale
      <4>. QED  BY <3>4, <3>7, <4>1 DEF RollOver
    <3>. QED  BY <2>5, <3>2, <3>3, <3>5, <3>7, Zenon DEF Dispatch
  <2>6. ASSUME NEW o \in Outcomes, Processed(w, o) PROVE Shape
    <3>0. Holding(w) /\ o \in AllOutcomes
      BY <2>6, ConstantsAssumption DEF Processed, Holding, ConstantsAssumption
    <3>1. UNCHANGED zset /\ SameRequests /\ SameLosses
      BY <2>6 DEF Processed
    <3>2. CASE o = "lagging"
      <4>1. retryItem(w, args[w], FALSE, FALSE) /\ sims' = sims
        BY <2>6, <3>2, Zenon DEF Processed
      <4>2. CASE \A x \in Agents : Keeps(x)
        BY <3>1, <4>1, <4>2 DEF Shape, Quiet
      <4>3. CASE ~\A x \in Agents : Keeps(x)
        <5>1. Rewrites(w)
          BY <2>0, <3>0, <3>1, <4>1, <4>3, RetryShape, Zenon DEF Rewrites
        <5>. QED  BY <5>1 DEF Shape
      <4>. QED  BY <4>2, <4>3
    <3>3. CASE o \in {"workerError", "nextBlock", "ok"}
      <4>1. /\ \E b \in BOOLEAN : retryItem(w, args[w], TRUE, b)
            /\ sims' = [sims EXCEPT ![args[w].timestamp] = @ + 1]
        BY <2>6, <3>3, Zenon DEF Processed
      <4>2. CASE ~Holding(w)' /\ \A x \in Agents : Keeps(x)
        BY <3>0, <3>1, <4>1, <4>2, Zenon DEF Shape, Finishes, Others
      <4>3. CASE ~(~Holding(w)' /\ \A x \in Agents : Keeps(x))
        <5>1. Rewrites(w)
          BY <2>0, <3>0, <3>1, <4>1, <4>3, RetryShape, Zenon DEF Rewrites
        <5>. QED  BY <5>1 DEF Shape
      <4>. QED  BY <4>2, <4>3
    <3>4. CASE o \in {"unrecoverable", "other"}
      <4>1. Release(w) /\ sims' = [sims EXCEPT ![args[w].timestamp] = @ + 1]
        BY <2>6, <3>4, Zenon DEF Processed, Drop
      <4>. QED  BY <2>0, <3>0, <3>1, <4>1, ReleaseShape, Zenon DEF Shape, Finishes, Others
    <3>. QED  BY <3>0, <3>2, <3>3, <3>4 DEF AllOutcomes
  <2>. QED  BY <1>4, <2>1, <2>2, <2>3, <2>4, <2>5, <2>6 DEF processNextItem
<1>5. ASSUME NEW w \in Workers, Exit(w) PROVE Shape
  BY <1>5 DEF Exit, Goto, Shape, Quiet, Keeps, Holding, TypeOK, Pushing
<1>6. CASE Cancel
  BY <1>6, Zenon DEF Cancel, Shape, Quiet, Keeps, Holding
<1>7. CASE Restart
  BY <1>7, Zenon DEF Restart, Shape, Quiet, Keeps, Holding, Pushing
<1>8. CASE UNCHANGED vars
  BY <1>8, Zenon DEF vars, Shape, Quiet, Keeps, Holding
<1>. QED
  BY <1>1, <1>2, <1>3, <1>4, <1>5, <1>6, <1>7, <1>8
  DEF Next, BlockStep, WorkerStep, Agents

-----------------------------------------------------------------------------
\* A member of the sorted set after a ZADD was there before or is the new one.
LEMMA ZAddMember ==
  ASSUME NEW s, NEW z, NEW y \in ZAdd(s, z) PROVE y \in s \/ y = z
BY DEF ZAdd

\* The items that exist are among those that were pushed.
LEMMA InRangeId ==
  ASSUME TypeOK, NEW x \in PackArgs, InRange(x)
  PROVE  /\ x.timestamp \in Ids
         /\ x.timestamp < pushes + 1
         /\ asked[x.timestamp][1] \in Nat /\ asked[x.timestamp][2] \in Nat
<1>1. x.timestamp \in Ids /\ x.timestamp < pushes + 1
  <2>1. x.timestamp \in 1 .. pushes /\ pushes \in 0 .. MaxPushes /\ MaxPushes \in Nat
    BY ConstantsAssumption DEF ConstantsAssumption, InRange, TypeOK
  <2>. QED  BY <2>1, SMT, SMTT(30) DEF Ids
<1>2. asked[x.timestamp] \in Nat \X Nat
  BY <1>1 DEF TypeOK
<1>. QED  BY <1>1, <1>2

(***************************************************************************)
(* Every copy of an item stays within the block range its sender asked     *)
(* for: Push only raises the minimum to a block that is still in range,    *)
(* the rollover and retryItem never move it past the maximum, and the      *)
(* maximum survives packData and unpackData.                               *)
(***************************************************************************)
THEOREM RangeInvariant == Spec => []CopiesInRange
<1>1. Init => CopiesInRange
  BY DEF Init, CopiesInRange, Holding, Pushing
<1>2. TypeOK /\ TypeOK' /\ CopiesInRange /\ [Next]_vars => CopiesInRange'
  <2>. SUFFICES ASSUME TypeOK, TypeOK', CopiesInRange, Shape PROVE CopiesInRange'
    BY StepShape, Zenon
  <2>1. CASE Quiet
    BY <2>1 DEF Quiet, CopiesInRange, InRange, Keeps, SameRequests
  <2>2. ASSUME NEW a \in Agents, Puts(a) PROVE CopiesInRange'
    <3>1. args[a] \in PackArgs /\ InRange(args[a])
      BY <2>2 DEF Puts, CopiesInRange, TypeOK
    <3>2. InRange(unpackData(packData(args[a])))
      BY <3>1, PackRoundTrip
    <3>3. ASSUME NEW z \in zset' PROVE InRange(unpackData(z))
      BY <2>2, <3>2, ZAddMember DEF Puts, CopiesInRange
    <3>4. ASSUME NEW b \in Agents, Holding(b)' PROVE InRange(args'[b])
      BY <2>2, <3>4 DEF Puts, Keeps, CopiesInRange
    <3>. QED  BY <2>2, <3>3, <3>4, Zenon DEF Puts, CopiesInRange, InRange, SameRequests
  <2>3. ASSUME NEW c \in Agents, Submits(c) PROVE CopiesInRange'
    <3>1. ASSUME NEW x \in PackArgs, InRange(x)
          PROVE  x.timestamp \in 1 .. pushes' /\ asked'[x.timestamp] = asked[x.timestamp]
      <4>1. x.timestamp \in 1 .. pushes /\ pushes \in Nat /\ pushes' = pushes + 1
        BY <2>3, <3>1, SMT, SMTT(30) DEF Submits, InRange, TypeOK
      <4>2. x.timestamp \in Ids /\ x.timestamp # pushes + 1
        <5>1. x.timestamp \in Ids /\ x.timestamp < pushes + 1
          BY <3>1, InRangeId, Zenon
        <5>2. x.timestamp # pushes + 1
          BY <4>1, SMT, Zenon, SMTT(30)
        <5>. QED  BY <5>1, <5>2, Zenon
      <4>. QED  BY <2>3, <4>1, <4>2, SMT, SMTT(30) DEF Submits, TypeOK
    <3>2. ASSUME NEW z \in zset' PROVE InRange(unpackData(z))'
      <4>1. z \in zset /\ unpackData(z) \in PackArgs
        BY <2>3, <3>2, UnpackType, ZenonT(30) DEF Submits, TypeOK
      <4>. QED  BY <3>1, <4>1 DEF CopiesInRange, InRange
    <3>3. ASSUME NEW b \in Agents, b # c, Holding(b)' PROVE InRange(args[b])'
      <4>1. Holding(b) /\ args'[b] = args[b] /\ args[b] \in PackArgs
        BY <2>3, <3>3 DEF Submits, Others, Keeps, TypeOK
      <4>2. InRange(args[b])
        BY <4>1 DEF CopiesInRange
      <4>. QED  BY <3>1, <4>1, <4>2 DEF InRange
    <3>4. InRange(args[c])'
      <4>1. PICK min \in Nat :
              /\ asked' = [asked EXCEPT ![pushes + 1] = <<min, args'[c].maxTargetBlock>>]
              /\ min <= args'[c].minTargetBlock
              /\ args'[c].minTargetBlock <= args'[c].maxTargetBlock
        BY <2>3, Zenon DEF Submits
      <4>2. pushes' = pushes + 1 /\ pushes + 1 \in Ids /\ args'[c].timestamp = pushes + 1
        BY <2>3 DEF Submits
      <4>3. asked'[pushes + 1] = <<min, args'[c].maxTargetBlock>>
        BY <4>1, <4>2 DEF TypeOK
      <4>4. pushes + 1 \in 1 .. pushes'
        BY <4>2, SMT, SMTT(30) DEF TypeOK
      <4>. QED  BY <4>1, <4>2, <4>3, <4>4, SMT, SMTT(30) DEF InRange
    <3>5. ASSUME NEW b \in Agents, Holding(b)' PROVE InRange(args[b])'
      BY <3>3, <3>4, <3>5
    <3>. QED  BY <3>2, <3>5 DEF CopiesInRange
  <2>4. ASSUME NEW w \in Workers, Takes(w) PROVE CopiesInRange'
    <3>1. PICK z \in zset : zset' = zset \ {z} /\ args'[w] = unpackData(z)
      BY <2>4 DEF Takes
    <3>2. InRange(args'[w])
      BY <3>1, Zenon DEF CopiesInRange
    <3>3. ASSUME NEW b \in Agents, b # w, Holding(b)' PROVE InRange(args'[b])
      BY <2>4, <3>3 DEF Takes, Others, Keeps, CopiesInRange
    <3>4. \A y \in zset' : InRange(unpackData(y))
      BY <3>1 DEF CopiesInRange
    <3>. QED  BY <2>4, <3>2, <3>3, <3>4, Zenon DEF Takes, CopiesInRange, InRange, SameRequests
  <2>5. ASSUME NEW w \in Workers, Rewrites(w) PROVE CopiesInRange'
    <3>0. w \in Agents /\ args[w] \in PackArgs /\ args'[w] \in PackArgs /\ InRange(args[w])
      BY <2>5, Zenon DEF Agents, TypeOK, Rewrites, CopiesInRange
    <3>1. asked[args[w].timestamp][1] \in Nat
      BY <3>0, InRangeId, Zenon
    <3>2. InRange(args'[w])
      <4>1. /\ args'[w].timestamp = args[w].timestamp
            /\ args'[w].maxTargetBlock = args[w].maxTargetBlock
            /\ args[w].minTargetBlock <= args'[w].minTargetBlock
            /\ \/ args'[w].minTargetBlock = args[w].minTargetBlock
               \/ args'[w].minTargetBlock <= args[w].maxTargetBlock
        BY <2>5, Zenon DEF Rewrites
      <4>2. args[w].minTargetBlock \in Nat /\ args'[w].minTargetBlock \in Nat
        BY <3>0, Zenon DEF PackArgs
      <4>. QED  BY <3>0, <3>1, <4>1, <4>2, SMT, SMTT(30) DEF InRange
    <3>3. ASSUME NEW b \in Agents, b # w, Holding(b)' PROVE InRange(args'[b])
      BY <2>5, <3>3, Zenon DEF Rewrites, Others, Keeps, CopiesInRange
    <3>. QED  BY <2>5, <3>2, <3>3, Zenon DEF Rewrites, CopiesInRange, InRange, SameRequests
  <2>6. ASSUME NEW w \in Workers, Finishes(w) PROVE CopiesInRange'
    <3>1. ASSUME NEW b \in Agents, Holding(b)' PROVE InRange(args'[b])
      BY <2>6, <3>1 DEF Finishes, Others, Keeps, CopiesInRange
    <3>. QED  BY <2>6, <3>1, Zenon DEF Finishes, CopiesInRange, InRange, SameRequests
  <2>. QED  BY <2>1, <2>2, <2>3, <2>4, <2>5, <2>6 DEF Shape
<1>. QED  BY <1>1, <1>2, TypeCorrect, PTL DEF Spec

-----------------------------------------------------------------------------
\* A simulation that is under way goes on for the same item.
Resumes == \A w \in Workers : pc'[w] = "process" => pc[w] = "process" /\ args'[w] = args[w]

\* Only Dispatch starts a simulation.
LEMMA StepResumes ==
  ASSUME TypeOK, [Next]_vars
  PROVE  \/ Resumes /\ (currentBlock' = currentBlock \/ currentBlock' > currentBlock)
         \/ Restart
         \/ \E w \in Workers : /\ Dispatch(w) /\ Goto(w, "process") /\ args' = args
                               /\ currentBlock + 1 = args[w].minTargetBlock
<1>. USE DEF attempt, history, Resumes
<1>1. ASSUME NEW a \in Agents, Release(a) PROVE Resumes
  BY <1>1, Zenon DEF Release, TypeOK, Agents
<1>2. ASSUME NEW a \in Agents, PushFailed(a) PROVE Resumes
  BY <1>1, <1>2 DEF PushFailed, Drop, Goto, TypeOK, Agents
<1>3. ASSUME NEW w \in Workers, NEW a, NEW i, NEW b, retryItem(w, a, i, b) PROVE Resumes
  BY <1>1, <1>3 DEF retryItem, Drop, Goto, TypeOK, Agents
<1>4. ASSUME NEW b \in Blocks, UpdateBlock(b)
      PROVE  Resumes /\ currentBlock' > currentBlock
  BY <1>4, Zenon DEF UpdateBlock, Blocks, TypeOK
<1>5. ASSUME NEW c \in Clients, NEW min, NEW max, NEW h, Push(c, min, max, h)
      PROVE  Resumes /\ currentBlock' = currentBlock
  BY <1>5, ConstantsAssumption DEF Push, Goto, TypeOK, Agents, ConstantsAssumption
<1>6. ASSUME NEW a \in Agents, pushToQueue(a) PROVE Resumes /\ currentBlock' = currentBlock
  <2>1. CASE LoadNextBlock(a)
    BY <2>1 DEF LoadNextBlock, Goto, TypeOK, Agents
  <2>2. CASE CountProcessable(a)
    BY <2>2 DEF CountProcessable, Goto, TypeOK, Agents
  <2>3. CASE CountUnprocessable(a)
    BY <2>3, Zenon DEF CountUnprocessable, Goto, TypeOK, Agents
  <2>4. CASE CheckRoom(a)
    BY <1>2, <2>4 DEF CheckRoom, Goto, TypeOK, Agents
  <2>5. CASE AddToQueue(a)
    BY <1>1, <2>5, Zenon DEF AddToQueue
  <2>6. CASE CommandFails(a)
    BY <1>2, <2>6, Zenon DEF CommandFails
  <2>7. CASE ReplyLost(a)
    BY <1>2, <2>7, Zenon DEF ReplyLost
  <2>. QED  BY <1>6, <2>1, <2>2, <2>3, <2>4, <2>5, <2>6, <2>7, Zenon DEF pushToQueue
<1>7. ASSUME NEW w \in Workers, processNextItem(w), ~Dispatch(w)
      PROVE  Resumes /\ currentBlock' = currentBlock
  <2>1. CASE Poll(w) \/ PopNothing(w)
    BY <2>1 DEF Poll, PopNothing, Goto, TypeOK, Agents
  <2>2. CASE PopItem(w)
    BY <2>2 DEF PopItem, Goto, TypeOK, Agents
  <2>3. CASE PopReplyLost(w)
    BY <2>3 DEF PopReplyLost, Goto, TypeOK, Agents
  <2>4. ASSUME NEW o \in Outcomes, Processed(w, o)
        PROVE  Resumes /\ currentBlock' = currentBlock
    <3>1. \/ \E i, b \in BOOLEAN : retryItem(w, args[w], i, b)
          \/ Release(w)
      BY <2>4, ConstantsAssumption, ZenonT(30) DEF Processed, Drop, AllOutcomes, ConstantsAssumption
    <3>. QED  BY <1>1, <1>3, <2>4, <3>1 DEF Processed, Agents
  <2>. QED  BY <1>7, <2>1, <2>2, <2>3, <2>4, Zenon DEF processNextItem
<1>8. ASSUME NEW w \in Workers, Dispatch(w)
      PROVE  \/ Resumes /\ currentBlock' = currentBlock
             \/ Goto(w, "process") /\ args' = args /\ currentBlock + 1 = args[w].minTargetBlock
  <2>1. args[w].minTargetBlock \in Nat /\ currentBlock \in Nat
    BY DEF Agents, TypeOK, PackArgs
  <2>2. CASE currentBlock + 1 <= args[w].minTargetBlock /\ ~TooEarly(args[w])
    <3>1. currentBlock + 1 = args[w].minTargetBlock
      BY <2>1, <2>2, SMT, SMTT(30) DEF TooEarly
    <3>. QED  BY <1>8, <1>1, <1>3, <3>1, Zenon DEF Dispatch, Drop, RollOver, Agents
  <2>3. CASE ~(currentBlock + 1 <= args[w].minTargetBlock /\ ~TooEarly(args[w]))
    BY <1>1, <1>3, <1>8, <2>3, Zenon DEF Dispatch, Drop, RollOver, Agents
  <2>. QED  BY <2>2, <2>3
<1>9. ASSUME NEW w \in Workers, Exit(w) PROVE Resumes /\ currentBlock' = currentBlock
  BY <1>9, Zenon DEF Exit, Goto, TypeOK, Agents
<1>10. CASE Cancel
  BY <1>10 DEF Cancel
<1>11. CASE UNCHANGED vars
  BY <1>11 DEF vars
<1>. QED
  BY <1>4, <1>5, <1>6, <1>7, <1>8, <1>9, <1>10, <1>11, Zenon
  DEF Next, BlockStep, WorkerStep, Agents

\* No item is simulated before its block is the next one.
THEOREM NotEarlyInvariant == Spec => []NotEarly
<1>1. Init => NotEarly
  BY DEF Init, NotEarly, Agents
<1>2. TypeOK /\ TypeOK' /\ NotEarly /\ [Next]_vars => NotEarly'
  <2>. SUFFICES ASSUME TypeOK, TypeOK', NotEarly, [Next]_vars PROVE NotEarly'
    BY Zenon
  <2>1. CASE Resumes /\ (currentBlock' = currentBlock \/ currentBlock' > currentBlock)
    BY <2>1, SMTT(30), SMTT(60) DEF Resumes, NotEarly, TypeOK, PackArgs, Agents
  <2>2. CASE Restart
    BY <2>2, Zenon DEF Restart, NotEarly, Agents
  <2>3. ASSUME NEW w \in Workers, Dispatch(w), Goto(w, "process"), args' = args,
               currentBlock + 1 = args[w].minTargetBlock
        PROVE  NotEarly'
    BY <2>3, SMT, SMTT(30) DEF Dispatch, Goto, NotEarly, TypeOK, PackArgs, Agents
  <2>. QED  BY <2>1, <2>2, <2>3, StepResumes
<1>. QED  BY <1>1, <1>2, TypeCorrect, PTL DEF Spec

(***************************************************************************)
(* A bundle is simulated only for a block of the range asked for, and not  *)
(* before the block that precedes it is known.                             *)
(***************************************************************************)
THEOREM SimulatedInRange == Spec => []ProcessedInRange
<1>1. TypeOK /\ CopiesInRange /\ NotEarly => ProcessedInRange
  BY Zenon DEF CopiesInRange, InRange, NotEarly, ProcessedInRange, Holding, Agents
<1>. QED  BY <1>1, TypeCorrect, RangeInvariant, NotEarlyInvariant, PTL

-----------------------------------------------------------------------------
\* ClaimedOnce, copy by copy.
Unique ==
  ~repliesLost =>
    /\ \A a, b \in Agents : Holding(a) /\ Holding(b) /\ args[a].timestamp = args[b].timestamp => a = b
    /\ \A y, z \in zset : unpackData(y).timestamp = unpackData(z).timestamp => y = z
    /\ \A a \in Agents, z \in zset : Holding(a) => args[a].timestamp # unpackData(z).timestamp

\* A step keeps the copies apart.
LEMMA UniqueStep ==
  ASSUME TypeOK, TypeOK', CopiesInRange, Unique, Shape, ~repliesLost'
  PROVE  /\ \A a, b \in Agents : Holding(a)' /\ Holding(b)' /\ args'[a].timestamp = args'[b].timestamp => a = b
         /\ \A y, z \in zset' : unpackData(y).timestamp = unpackData(z).timestamp => y = z
         /\ \A a \in Agents, z \in zset' : Holding(a)' => args'[a].timestamp # unpackData(z).timestamp
<1>. DEFINE Goal ==
       /\ \A a, b \in Agents : Holding(a)' /\ Holding(b)' /\ args'[a].timestamp = args'[b].timestamp => a = b
       /\ \A y, z \in zset' : unpackData(y).timestamp = unpackData(z).timestamp => y = z
       /\ \A a \in Agents, z \in zset' : Holding(a)' => args'[a].timestamp # unpackData(z).timestamp
<1>0. ~repliesLost
  BY Zenon DEF Shape, Quiet, Puts, Submits, Takes, Rewrites, Finishes, SameLosses
<1>1. CASE Quiet
  BY <1>0, <1>1, ZenonT(30) DEF Quiet, Keeps, Unique
<1>2. ASSUME NEW a \in Agents, Puts(a) PROVE Goal
  <2>1. ~Holding(a)' /\ Holding(a) /\ zset' = ZAdd(zset, packData(args[a]))
    BY <1>2 DEF Puts
  <2>2. unpackData(packData(args[a])) = args[a]
    BY PackRoundTrip, Zenon DEF TypeOK
  <2>3. \A b \in Agents : Holding(b)' => b # a /\ Holding(b) /\ args'[b] = args[b]
    BY <1>2, <2>1 DEF Puts, Keeps
  <2>4. \A y \in zset' : y \in zset \/ y = packData(args[a])
    BY <2>1, ZAddMember, Zenon
  <2>5. \A b, c \in Agents : Holding(b)' /\ Holding(c)' /\ args'[b].timestamp = args'[c].timestamp => b = c
    BY <1>0, <2>3, Zenon DEF Unique
  <2>6. \A y, z \in zset' : unpackData(y).timestamp = unpackData(z).timestamp => y = z
    <3>1. \A y \in zset : unpackData(y).timestamp # unpackData(packData(args[a])).timestamp
      BY <1>0, <2>1, <2>2, Zenon DEF Unique
    <3>2. \A y, z \in zset : unpackData(y).timestamp = unpackData(z).timestamp => y = z
      BY <1>0, Zenon DEF Unique
    <3>. QED  BY <2>4, <3>1, <3>2, Zenon
  <2>7. \A b \in Agents, z \in zset' : Holding(b)' => args'[b].timestamp # unpackData(z).timestamp
    BY <1>0, <2>1, <2>2, <2>3, <2>4, Zenon DEF Unique
  <2>. QED  BY <2>5, <2>6, <2>7, Zenon
<1>3. ASSUME NEW c \in Agents, Submits(c) PROVE Goal
  <2>1. \A b \in Agents : Holding(b) => args[b].timestamp # pushes + 1
    BY InRangeId, SMTT(30), SMTT(60) DEF CopiesInRange, TypeOK
  <2>2. \A z \in zset : unpackData(z).timestamp # pushes + 1
    BY InRangeId, UnpackType, SMTT(30), SMTT(60) DEF CopiesInRange, TypeOK
  <2>3. args'[c].timestamp = pushes + 1 /\ zset' = zset
    BY <1>3, Zenon DEF Submits
  <2>4. \A b \in Agents \ {c} : Holding(b)' => Holding(b) /\ args'[b] = args[b]
    BY <1>3, Zenon DEF Submits, Others, Keeps
  <2>. QED  BY <1>0, <2>1, <2>2, <2>3, <2>4, Zenon DEF Unique
<1>4. ASSUME NEW w \in Workers, Takes(w) PROVE Goal
  <2>1. PICK z \in zset : zset' = zset \ {z} /\ args'[w] = unpackData(z)
    BY <1>4, Zenon DEF Takes
  <2>2. \A b \in Agents \ {w} : Holding(b)' => Holding(b) /\ args'[b] = args[b]
    BY <1>4, Zenon DEF Takes, Others, Keeps
  <2>3. \A y \in zset' : y \in zset /\ y # z
    BY <2>1, Zenon
  <2>4. \A b, c \in Agents : Holding(b)' /\ Holding(c)' /\ args'[b].timestamp = args'[c].timestamp => b = c
    BY <1>0, <2>1, <2>2, Zenon DEF Unique
  <2>5. \A x, y \in zset' : unpackData(x).timestamp = unpackData(y).timestamp => x = y
    BY <1>0, <2>3, Zenon DEF Unique
  <2>6. \A b \in Agents, y \in zset' : Holding(b)' => args'[b].timestamp # unpackData(y).timestamp
    BY <1>0, <2>1, <2>2, <2>3, Zenon DEF Unique
  <2>. QED  BY <2>4, <2>5, <2>6, Zenon
<1>5. ASSUME NEW w \in Workers, Rewrites(w) \/ Finishes(w) PROVE Goal
  <2>1. /\ Holding(w) /\ zset' = zset /\ w \in Agents
        /\ Holding(w)' => args'[w].timestamp = args[w].timestamp
    BY <1>5, Zenon DEF Rewrites, Finishes, Agents
  <2>2. \A b \in Agents \ {w} : Holding(b)' => Holding(b) /\ args'[b] = args[b]
    BY <1>5 DEF Rewrites, Finishes, Others, Keeps
  <2>. QED  BY <1>0, <2>1, <2>2, ZenonT(30) DEF Unique
<1>. QED  BY <1>1, <1>2, <1>3, <1>4, <1>5, Zenon DEF Shape

\* Unique is an invariant: an id is new when Push takes it.
THEOREM UniqueInvariant == Spec => []Unique
<1>1. Init => Unique
  BY Zenon DEF Init, Unique, Holding, Pushing
<1>2. TypeOK /\ TypeOK' /\ CopiesInRange /\ Unique /\ [Next]_vars => Unique'
  BY StepShape, UniqueStep DEF Unique
<1>. QED  BY <1>1, <1>2, TypeCorrect, RangeInvariant, PTL DEF Spec

(***************************************************************************)
(* Two workers never hold the same item, and no worker holds an item that  *)
(* is still in the sorted set, unless the reply to a ZADD was lost.        *)
(***************************************************************************)
THEOREM SingleClaim == Spec => []ClaimedOnce
<1>1. Unique => ClaimedOnce
  BY DEF Unique, ClaimedOnce, Holders, Queued
<1>. QED  BY <1>1, UniqueInvariant, PTL

-----------------------------------------------------------------------------
\* RetriesCounted, copy by copy.
Counted ==
  ~repliesLost =>
    /\ \A a \in Agents : Holding(a) => args[a].iteration = sims[args[a].timestamp]
    /\ \A z \in zset : unpackData(z).iteration = sims[unpackData(z).timestamp]

\* An id that is not used yet has no simulations, the others have a bounded number.
Bounded ==
  /\ \A i \in Ids : i > pushes => sims[i] = 0
  /\ ~repliesLost => \A i \in Ids : sims[i] <= MaxRetries + 1

\* The simulations a step counts are those of the worker's own item.
LEMMA CountStep ==
  ASSUME TypeOK, TypeOK', CopiesInRange, Unique, Counted, Bounded, Shape
  PROVE  Counted' /\ Bounded'
<1>. USE ConstantsAssumption DEF ConstantsAssumption
<1>0. ~repliesLost' => ~repliesLost
  BY Zenon DEF Shape, Quiet, Puts, Submits, Takes, Rewrites, Finishes, SameLosses
<1>1. CASE Quiet
  <2>1. Counted'
    BY <1>0, <1>1 DEF Quiet, Keeps, Counted
  <2>. QED  BY <1>0, <1>1, <2>1, Zenon DEF Quiet, Bounded, SameRequests
<1>2. ASSUME NEW a \in Agents, Puts(a) PROVE Counted' /\ Bounded'
  <2>1. Holding(a) /\ zset' = ZAdd(zset, packData(args[a])) /\ sims' = sims
    BY <1>2, SMT, Zenon, SMTT(30) DEF Puts
  <2>2. unpackData(packData(args[a])) = args[a]
    BY PackRoundTrip DEF TypeOK
  <2>3. \A y \in zset' : y \in zset \/ y = packData(args[a])
    BY <2>1, ZAddMember, Zenon
  <2>4. Counted'
    BY <1>0, <1>2, <2>1, <2>2, <2>3, SMT, SMTT(30) DEF Puts, Keeps, Counted
  <2>. QED  BY <1>0, <1>2, <2>4 DEF Puts, Bounded, SameRequests
<1>3. ASSUME NEW c \in Agents, Submits(c) PROVE Counted' /\ Bounded'
  <2>1. /\ pushes' = pushes + 1 /\ pushes + 1 \in Ids /\ pushes \in Nat
        /\ args'[c].timestamp = pushes + 1 /\ args'[c].iteration = 0
        /\ zset' = zset /\ sims' = sims
    BY <1>3, SMTT(30), SMTT(60) DEF Submits, TypeOK
  <2>2. sims[pushes + 1] = 0
    BY <2>1, SMTT(30), SMTT(60) DEF Bounded
  <2>3. \A b \in Agents \ {c} : Holding(b)' => Holding(b) /\ args'[b] = args[b]
    BY <1>3, Zenon DEF Submits, Others, Keeps
  <2>4. Counted'
    BY <1>0, <2>1, <2>2, <2>3, Zenon DEF Counted
  <2>5. Bounded'
    BY <1>0, <2>1, SMTT(30), SMTT(60) DEF Bounded, Ids
  <2>. QED  BY <2>4, <2>5, Zenon
<1>4. ASSUME NEW w \in Workers, Takes(w) PROVE Counted' /\ Bounded'
  <2>1. PICK z \in zset : zset' = zset \ {z} /\ args'[w] = unpackData(z)
    BY <1>4, Zenon DEF Takes
  <2>2. \A b \in Agents \ {w} : Holding(b)' => Holding(b) /\ args'[b] = args[b]
    BY <1>4, ZenonT(30) DEF Takes, Others, Keeps
  <2>3. Counted'
    <3>1. sims' = sims /\ \A y \in zset' : y \in zset
      BY <1>4, <2>1, Zenon DEF Takes
    <3>2. ASSUME ~repliesLost', NEW b \in Agents, Holding(b)'
          PROVE  args'[b].iteration = sims'[args'[b].timestamp]
      <4>1. CASE b = w
        BY <1>0, <2>1, <3>1, <3>2, <4>1, Zenon DEF Counted
      <4>2. CASE b # w
        BY <1>0, <2>2, <3>1, <3>2, <4>2, Zenon DEF Counted
      <4>. QED  BY <4>1, <4>2, Zenon
    <3>3. ASSUME ~repliesLost', NEW y \in zset'
          PROVE  unpackData(y).iteration = sims'[unpackData(y).timestamp]
      BY <1>0, <3>1, <3>3, Zenon DEF Counted
    <3>. QED  BY <3>2, <3>3, Zenon DEF Counted
  <2>. QED  BY <1>0, <1>4, <2>3, Zenon DEF Takes, Bounded, SameRequests
<1>5. ASSUME NEW w \in Workers, Rewrites(w) \/ Finishes(w) PROVE Counted' /\ Bounded'
  <2>. DEFINE i == args[w].timestamp
  <2>0. w \in Agents /\ args[w] \in PackArgs /\ Holding(w) /\ InRange(args[w])
    BY <1>5, ZenonT(30) DEF Agents, TypeOK, Rewrites, Finishes, CopiesInRange
  <2>1. i \in Ids /\ i < pushes + 1 /\ sims[i] \in Nat /\ pushes \in Nat
    BY <2>0, InRangeId, SMTT(30), SMTT(60) DEF TypeOK
  <2>2. /\ zset' = zset /\ pushes' = pushes /\ repliesLost' = repliesLost
        /\ \A b \in Agents \ {w} : Holding(b)' => Holding(b) /\ args'[b] = args[b]
        /\ Holding(w)' => args'[w].timestamp = i
    BY <1>5, Zenon DEF Rewrites, Finishes, Others, Keeps, SameRequests, SameLosses
  <2>3. ~repliesLost => /\ \A b \in Agents \ {w} : Holding(b) => args[b].timestamp # i
                        /\ \A z \in zset : unpackData(z).timestamp # i
    BY <2>0, ZenonT(30) DEF Unique
  <2>4. ~repliesLost => args[w].iteration = sims[i] /\ sims[i] <= MaxRetries
    <3>1. args[w].iteration \in 0 .. MaxRetries
      BY <2>0, Zenon DEF PackArgs
    <3>2. args[w].iteration <= MaxRetries
      BY <3>1, SMT, SMTT(30)
    <3>3. ~repliesLost => args[w].iteration = sims[i]
      BY <2>0, Zenon DEF Counted
    <3>. QED  BY <3>2, <3>3, Zenon
  <2>5. CASE sims' = sims /\ (Holding(w)' => args'[w].iteration = args[w].iteration)
    <3>1. Counted'
      BY <2>2, <2>4, <2>5, Zenon DEF Counted
    <3>. QED  BY <2>2, <2>5, <3>1, ZenonT(30) DEF Bounded
  <2>6. CASE /\ sims' = [sims EXCEPT ![i] = @ + 1]
             /\ Holding(w)' => args'[w].iteration = args[w].iteration + 1
    <3>1. sims'[i] = sims[i] + 1
      BY <2>1, <2>6, Zenon DEF TypeOK
    <3>2. \A j \in Ids \ {i} : sims'[j] = sims[j]
      BY <2>6, Zenon DEF TypeOK
    <3>3. \A z \in zset : unpackData(z).timestamp \in Ids
      BY InRangeId, UnpackType, Zenon DEF CopiesInRange, TypeOK
    <3>4. \A b \in Agents : Holding(b) => args[b].timestamp \in Ids
      BY InRangeId, ZenonT(30) DEF CopiesInRange, TypeOK
    <3>. HIDE DEF i
    <3>5. Counted'
      <4>. SUFFICES ASSUME ~repliesLost
                    PROVE  /\ \A b \in Agents : Holding(b)' => args'[b].iteration = sims'[args'[b].timestamp]
                           /\ \A z \in zset' : unpackData(z).iteration = sims'[unpackData(z).timestamp]
        BY <2>2, Zenon DEF Counted
      <4>1. Holding(w)' => args'[w].iteration = sims'[args'[w].timestamp]
        BY <2>2, <2>4, <2>6, <3>1, Zenon
      <4>2. ASSUME NEW b \in Agents \ {w}, Holding(b)'
            PROVE  args'[b].iteration = sims'[args'[b].timestamp]
        <5>1. Holding(b) /\ args'[b] = args[b] /\ args[b].timestamp \in Ids \ {i}
          BY <2>2, <2>3, <3>4, <4>2, Zenon
        <5>. QED  BY <3>2, <5>1, Zenon DEF Counted
      <4>3. ASSUME NEW z \in zset' PROVE unpackData(z).iteration = sims'[unpackData(z).timestamp]
        <5>1. z \in zset /\ unpackData(z).timestamp \in Ids \ {i}
          BY <2>2, <2>3, <3>3, ZenonT(30)
        <5>. QED  BY <3>2, <5>1, Zenon DEF Counted
      <4>. QED  BY <4>1, <4>2, <4>3, Zenon
    <3>6. Bounded'
      <4>1. ASSUME NEW j \in Ids, j > pushes PROVE sims'[j] = 0
        BY <2>1, <3>2, <4>1, SMT, Zenon, SMTT(30) DEF Bounded, Ids
      <4>2. ASSUME NEW j \in Ids, ~repliesLost PROVE sims'[j] <= MaxRetries + 1
        BY <2>1, <2>4, <3>1, <3>2, <4>2, SMT, SMTT(30) DEF Bounded
      <4>. QED  BY <2>2, <4>1, <4>2, Zenon DEF Bounded
    <3>. QED  BY <3>5, <3>6, Zenon
  <2>. QED  BY <1>5, <2>5, <2>6, Zenon DEF Rewrites, Finishes
<1>. QED  BY <1>1, <1>2, <1>3, <1>4, <1>5, Zenon DEF Shape

\* The first half of RetriesCounted, copy by copy.
Paid ==
  /\ \A a \in Agents : Holding(a) => args[a].iteration <= sims[args[a].timestamp]
  /\ \A z \in zset : unpackData(z).iteration <= sims[unpackData(z).timestamp]

\* A copy gets a retry only together with the simulation it paid for.
LEMMA PaidStep ==
  ASSUME TypeOK, TypeOK', CopiesInRange, Paid, Shape
  PROVE  Paid'
<1>1. CASE Quiet
  BY <1>1 DEF Quiet, Keeps, Paid
<1>2. ASSUME NEW a \in Agents, Puts(a) PROVE Paid'
  <2>1. Holding(a) /\ zset' = ZAdd(zset, packData(args[a])) /\ sims' = sims
    BY <1>2, SMT, Zenon, SMTT(30) DEF Puts
  <2>2. unpackData(packData(args[a])) = args[a]
    BY PackRoundTrip DEF TypeOK
  <2>3. \A y \in zset' : y \in zset \/ y = packData(args[a])
    BY <2>1, ZAddMember, Zenon
  <2>. QED  BY <1>2, <2>1, <2>2, <2>3, SMT, Zenon, SMTT(30) DEF Puts, Keeps, Paid
<1>3. ASSUME NEW c \in Agents, Submits(c) PROVE Paid'
  <2>1. /\ args'[c].timestamp \in Ids /\ args'[c].iteration = 0
        /\ zset' = zset /\ sims' = sims
    BY <1>3, Zenon DEF Submits
  <2>2. args'[c].iteration <= sims'[args'[c].timestamp]
    <3>1. sims'[args'[c].timestamp] \in Nat
      BY <2>1, Zenon DEF TypeOK
    <3>. QED  BY <2>1, <3>1, SMT, SMTT(30)
  <2>3. \A b \in Agents \ {c} : Holding(b)' => Holding(b) /\ args'[b] = args[b]
    BY <1>3, Zenon DEF Submits, Others, Keeps
  <2>. QED  BY <2>1, <2>2, <2>3, Zenon DEF Paid
<1>4. ASSUME NEW w \in Workers, Takes(w) PROVE Paid'
  <2>1. PICK z \in zset : zset' = zset \ {z} /\ args'[w] = unpackData(z)
    BY <1>4, Zenon DEF Takes
  <2>2. \A b \in Agents \ {w} : Holding(b)' => Holding(b) /\ args'[b] = args[b]
    BY <1>4, ZenonT(30) DEF Takes, Others, Keeps
  <2>3. sims' = sims /\ \A y \in zset' : y \in zset
    BY <1>4, <2>1, Zenon DEF Takes
  <2>4. args'[w].iteration <= sims'[args'[w].timestamp]
    BY <2>1, <2>3, Zenon DEF Paid
  <2>. QED  BY <2>2, <2>3, <2>4, Zenon DEF Paid
<1>5. ASSUME NEW w \in Workers, Rewrites(w) \/ Finishes(w) PROVE Paid'
  <2>. DEFINE i == args[w].timestamp
  <2>0. w \in Agents /\ args[w] \in PackArgs /\ Holding(w) /\ InRange(args[w])
    BY <1>5, ZenonT(30) DEF Agents, TypeOK, Rewrites, Finishes, CopiesInRange
  <2>1. i \in Ids /\ args[w].iteration \in Nat /\ args[w].iteration <= sims[i]
    <3>1. args[w].iteration \in 0 .. MaxRetries /\ MaxRetries \in Nat
      BY <2>0, ConstantsAssumption, Zenon DEF PackArgs, ConstantsAssumption
    <3>2. args[w].iteration \in Nat
      BY <3>1, SMT, SMTT(30)
    <3>. QED  BY <2>0, <3>2, InRangeId, Zenon DEF Paid
  <2>2. /\ zset' = zset
        /\ \A b \in Agents \ {w} : Holding(b)' => Holding(b) /\ args'[b] = args[b]
        /\ Holding(w)' => args'[w].timestamp = i
    BY <1>5, Zenon DEF Rewrites, Finishes, Others, Keeps
  <2>3. \A j \in Ids : sims[j] \in Nat /\ sims'[j] \in Nat
    BY Zenon DEF TypeOK
  <2>4. \/ sims' = sims /\ (Holding(w)' => args'[w].iteration = args[w].iteration)
        \/ /\ sims' = [sims EXCEPT ![i] = @ + 1]
           /\ Holding(w)' => args'[w].iteration = args[w].iteration + 1
    BY <1>5, Zenon DEF Rewrites, Finishes
  <2>5. /\ \A j \in Ids : sims[j] <= sims'[j]
        /\ Holding(w)' => args'[w].iteration <= sims'[i]
    <3>. HIDE DEF i
    <3>1. sims \in [Ids -> Nat]
      BY Zenon DEF TypeOK
    <3>. QED  BY <2>1, <2>3, <2>4, <3>1, SMT, SMTT(30)
  <2>6. \A x \in PackArgs : InRange(x) /\ x.iteration <= sims[x.timestamp] => x.iteration <= sims'[x.timestamp]
    <3>. SUFFICES ASSUME NEW x \in PackArgs, InRange(x), x.iteration <= sims[x.timestamp]
                  PROVE  x.iteration <= sims'[x.timestamp]
      OBVIOUS
    <3>1. x.timestamp \in Ids /\ x.iteration \in 0 .. MaxRetries
      BY InRangeId, Zenon DEF PackArgs
    <3>2. sims[x.timestamp] <= sims'[x.timestamp] /\ sims[x.timestamp] \in Nat /\ sims'[x.timestamp] \in Nat
      BY <2>3, <2>5, <3>1, Zenon
    <3>. QED  BY <3>1, <3>2, SMT, SMTT(30)
  <2>7. ASSUME NEW b \in Agents, Holding(b)' PROVE args'[b].iteration <= sims'[args'[b].timestamp]
    <3>1. CASE b = w
      BY <2>2, <2>5, <2>7, <3>1, Zenon
    <3>2. CASE b # w
      <4>1. Holding(b) /\ args'[b] = args[b]
        BY <2>2, <2>7, <3>2, Zenon
      <4>2. args[b] \in PackArgs /\ InRange(args[b]) /\ args[b].iteration <= sims[args[b].timestamp]
        BY <4>1, Zenon DEF TypeOK, CopiesInRange, Paid
      <4>. QED  BY <2>6, <4>1, <4>2, Zenon
    <3>. QED  BY <3>1, <3>2, Zenon
  <2>8. ASSUME NEW z \in zset' PROVE unpackData(z).iteration <= sims'[unpackData(z).timestamp]
    <3>1. z \in zset /\ z \in Entries
      BY <2>2, <2>8, Zenon DEF TypeOK
    <3>2. /\ unpackData(z) \in PackArgs /\ InRange(unpackData(z))
          /\ unpackData(z).iteration <= sims[unpackData(z).timestamp]
      BY <3>1, UnpackType, Zenon DEF CopiesInRange, Paid
    <3>. QED  BY <2>6, <3>2, Zenon
  <2>. QED  BY <2>7, <2>8, Zenon DEF Paid
<1>. QED  BY <1>1, <1>2, <1>3, <1>4, <1>5, Zenon DEF Shape

\* Paid is an invariant, lost replies or not.
THEOREM PaidInvariant == Spec => []Paid
<1>1. Init => Paid
  BY SMT, SMTT(30) DEF Init, Paid, Holding, Pushing
<1>2. TypeOK /\ TypeOK' /\ CopiesInRange /\ Paid /\ [Next]_vars => Paid'
  BY StepShape, PaidStep
<1>. QED  BY <1>1, <1>2, TypeCorrect, RangeInvariant, PTL DEF Spec

\* Both are invariants.
THEOREM CountInvariant == Spec => [](Counted /\ Bounded)
<1>1. Init => Counted /\ Bounded
  BY ConstantsAssumption, SMT, SMTT(30) DEF Init, Counted, Bounded, Holding, Pushing, ConstantsAssumption
<1>2. /\ TypeOK /\ TypeOK' /\ CopiesInRange /\ Unique /\ Counted /\ Bounded /\ [Next]_vars
      => Counted' /\ Bounded'
  BY StepShape, CountStep
<1>. QED  BY <1>1, <1>2, TypeCorrect, RangeInvariant, UniqueInvariant, PTL DEF Spec

(***************************************************************************)
(* The iteration an item carries through the sorted set is at most the     *)
(* number of its simulations; unless a reply was lost it is exactly that,  *)
(* and there are at most MaxRetries + 1 simulations.                       *)
(***************************************************************************)
THEOREM RetryBudget == Spec => []RetriesCounted
<1>1. Paid /\ Counted /\ Bounded => RetriesCounted
  BY Zenon DEF Paid, Counted, Bounded, RetriesCounted, Holders, Queued
<1>. QED  BY <1>1, PaidInvariant, CountInvariant, PTL

-----------------------------------------------------------------------------
\* A worker gets an item from BZPOPMIN only.
LEMMA StepPops ==
  ASSUME TypeOK, [Next]_vars, NEW w \in Workers, pc[w] = "popping", pc'[w] = "popped"
  PROVE  PopItem(w)
<1>. USE DEF attempt, history
<1>1. ASSUME NEW a \in Agents, Release(a) PROVE FALSE
  BY <1>1, Zenon DEF Release, TypeOK, Agents
<1>2. ASSUME NEW a \in Agents, PushFailed(a) PROVE FALSE
  BY <1>1, <1>2 DEF PushFailed, Drop, Goto, TypeOK, Agents
<1>3. ASSUME NEW v \in Workers, NEW a, NEW i, NEW b, retryItem(v, a, i, b) PROVE FALSE
  BY <1>1, <1>3, Zenon DEF retryItem, Drop, Goto, TypeOK, Agents
<1>4. ASSUME NEW c \in Clients, NEW min, NEW max, NEW h, Push(c, min, max, h) PROVE FALSE
  BY <1>4, Zenon DEF Push, Goto, TypeOK, Agents
<1>5. ASSUME NEW a \in Agents, pushToQueue(a) PROVE FALSE
  <2>1. CASE LoadNextBlock(a) \/ CountProcessable(a) \/ CountUnprocessable(a)
    BY <2>1, Zenon DEF LoadNextBlock, CountProcessable, CountUnprocessable, Goto, TypeOK, Agents
  <2>2. CASE CheckRoom(a)
    BY <1>2, <2>2 DEF CheckRoom, Goto, TypeOK, Agents
  <2>3. CASE AddToQueue(a) \/ CommandFails(a) \/ ReplyLost(a)
    BY <1>1, <1>2, <2>3, Zenon DEF AddToQueue, CommandFails, ReplyLost
  <2>. QED  BY <1>5, <2>1, <2>2, <2>3, Zenon DEF pushToQueue
<1>6. ASSUME NEW v \in Workers, processNextItem(v) PROVE PopItem(w)
  <2>1. CASE Poll(v) \/ PopNothing(v) \/ PopReplyLost(v)
    BY <2>1 DEF Poll, PopNothing, PopReplyLost, Goto, TypeOK, Agents
  <2>2. CASE PopItem(v)
    <3>1. v = w
      BY <2>2 DEF PopItem, Goto, TypeOK, Agents
    <3>. QED  BY <2>2, <3>1, ZenonT(30)
  <2>3. CASE Dispatch(v)
    BY <1>1, <1>3, <2>3, ZenonT(30) DEF Dispatch, Drop, RollOver, Goto, TypeOK, Agents
  <2>4. ASSUME NEW o \in Outcomes, Processed(v, o) PROVE FALSE
    <3>1. \/ \E i, b \in BOOLEAN : retryItem(v, args[v], i, b)
          \/ Release(v)
      BY <2>4, ConstantsAssumption, Zenon DEF Processed, Drop, AllOutcomes, ConstantsAssumption
    <3>. QED  BY <1>1, <1>3, <3>1 DEF Agents
  <2>. QED  BY <1>6, <2>1, <2>2, <2>3, <2>4, ZenonT(30) DEF processNextItem
<1>7. ASSUME NEW v \in Workers, Exit(v) PROVE FALSE
  BY <1>7, Zenon DEF Exit, Goto, TypeOK, Agents
<1>8. CASE Restart
  BY <1>8, Zenon DEF Restart, Agents
<1>9. CASE BlockStep \/ Cancel \/ UNCHANGED vars
  BY <1>9 DEF BlockStep, UpdateBlock, Cancel, vars
<1>. QED
  BY <1>4, <1>5, <1>6, <1>7, <1>8, <1>9, Zenon DEF Next, WorkerStep, Agents

(***************************************************************************)
(* A worker never takes a low priority item before a high priority one for *)
(* the same block: the first byte decides between members of equal score.  *)
(***************************************************************************)
THEOREM PriorityOrder == Spec => HighPriorityFirst
<1>. DEFINE A == \A w \in Workers :
       pc[w] = "popping" /\ pc'[w] = "popped" /\ ~args'[w].highPriority =>
         \A z \in zset : unpackData(z).highPriority =>
                          z.score > args'[w].minTargetBlock
<1>1. ASSUME TypeOK, [Next]_vars PROVE A
  <2>. SUFFICES ASSUME NEW w \in Workers, pc[w] = "popping", pc'[w] = "popped",
                       ~args'[w].highPriority, NEW y \in zset, unpackData(y).highPriority
                PROVE  y.score > args'[w].minTargetBlock
    BY Zenon
  <2>1. PopItem(w)
    BY <1>1, StepPops, Zenon
  <2>2. PICK z \in zset : IsMin(z) /\ args' = [args EXCEPT ![w] = unpackData(z)]
    BY <2>1, Zenon DEF PopItem
  <2>3. args'[w] = unpackData(z)
    BY <1>1, <2>2, Zenon DEF TypeOK, Agents
  <2>4. y \in Entries /\ z \in Entries
    BY <1>1, Zenon DEF TypeOK
  <2>5. y.member[1] = 0 /\ z.member[1] = 1 /\ args'[w].minTargetBlock = z.score
    <3>1. ~unpackData(z).highPriority
      BY <2>3, Zenon
    <3>2. y.member[1] = 0 /\ z.member[1] # 0
      BY <3>1, Zenon DEF unpackData
    <3>3. args'[w].minTargetBlock = z.score
      BY <2>3, SMTT(30), SMTT(60) DEF unpackData
    <3>4. z.member[1] \in {0, 1}
      BY <2>4, SMT, Zenon, SMTT(30), SMTT(60) DEF Entries
    <3>. QED  BY <3>2, <3>3, <3>4, ZenonT(30)
  <2>6. y # z /\ Before(z, y)
    BY <2>2, <2>5, SMTT(30), SMTT(60) DEF IsMin
  <2>7. ~LexLess(z.member, y.member)
    <3>. SUFFICES ASSUME NEW k \in 1 .. 4, z.member[k] < y.member[k],
                         \A j \in 1 .. k - 1 : z.member[j] = y.member[j]
                  PROVE  FALSE
      BY DEF LexLess
    <3>1. CASE k = 1
      BY <2>5, <3>1, SMTT(30), SMTT(60)
    <3>2. CASE k # 1
      <4>1. 1 \in 1 .. k - 1
        BY <3>2, SMTT(30), SMTT(60)
      <4>. QED  BY <2>5, <4>1, SMTT(30), SMTT(60)
    <3>. QED  BY <3>1, <3>2, Zenon
  <2>8. z.score < y.score
    BY <2>6, <2>7 DEF Before
  <2>. QED  BY <2>4, <2>5, <2>8, ZenonT(30) DEF Entries
<1>2. TypeOK /\ [Next]_vars => [A]_vars
  BY <1>1
<1>. QED  BY <1>2, TypeCorrect, PTL DEF Spec, HighPriorityFirst

-----------------------------------------------------------------------------
(***************************************************************************)
(* The limit on items for later blocks is exceeded by races only.  While   *)
(* the limit is reached no new count lets an agent pass, so what is queued *)
(* and what may still be added can only shrink together.                   *)
(***************************************************************************)
Counting == {"zcount1", "zcount2", "check", "zadd"}

\* The agents that have counted fewer items than the limit allows.
Cleared ==
  {a \in Agents : pc[a] \in {"check", "zadd"} /\ unprocessable[a] < MaxUnprocessable}

\* A count is taken for a block that is not ahead, and an item that is added for
\* a later block has been compared with the limit for later blocks.
CountsSound ==
  \A a \in Agents :
    /\ pc[a] \in {"zcount1", "zcount2"} => nextBlock[a] <= currentBlock + 1
    /\ pc[a] = "zadd" /\ args[a].minTargetBlock > currentBlock + 1 =>
         unprocessable[a] < MaxUnprocessable

\* Together the queued items and the cleared agents stay below the bound.
Room ==
  \/ Unprocessable = {} /\ Cleared = {}
  \/ Cardinality(Unprocessable) + Cardinality(Cleared) < MaxUnprocessable + width

LimitInv ==
  /\ width \in Nat /\ Cardinality(InPush) <= width
  /\ crashes = 0 => CountsSound /\ (~repliesLost => Room)

-----------------------------------------------------------------------------
\* What a step of agent a leaves alone.
OthersWait(a) ==
  \A b \in Agents \ {a} :
    pc'[b] = pc[b] /\ args'[b] = args[b] /\ nextBlock'[b] = nextBlock[b]
      /\ unprocessable'[b] = unprocessable[b]

Bystanders == currentBlock' = currentBlock /\ crashes' = crashes

\* The agent is not counting after the step.
Elsewhere(a) == OthersWait(a) /\ pc'[a] \notin Counting

\* An agent that releases its item is elsewhere.
LEMMA ReleaseElsewhere ==
  ASSUME TypeOK, NEW a \in Agents, Release(a) PROVE Elsewhere(a)
BY DEF Release, Elsewhere, OthersWait, Counting, TypeOK

\* So is one whose push has failed,
LEMMA PushFailedElsewhere ==
  ASSUME TypeOK, NEW a \in Agents, PushFailed(a) PROVE Elsewhere(a)
<1>1. CASE Release(a)
  BY <1>1, ReleaseElsewhere, Zenon
<1>2. CASE Goto(a, "load") /\ UNCHANGED <<args, attempt>>
  BY <1>2 DEF Goto, attempt, Elsewhere, OthersWait, Counting, TypeOK
<1>. QED  BY <1>1, <1>2 DEF PushFailed, Drop

\* and one that has just called retryItem.
LEMMA RetryElsewhere ==
  ASSUME TypeOK, NEW w \in Workers, NEW a, NEW i, NEW b, retryItem(w, a, i, b)
  PROVE  Elsewhere(w)
<1>0. w \in Agents
  BY DEF Agents
<1>1. CASE Release(w)
  BY <1>0, <1>1, ReleaseElsewhere, Zenon
<1>2. ASSUME NEW r, args' = [args EXCEPT ![w] = r], Goto(w, "load"), UNCHANGED attempt
      PROVE  Elsewhere(w)
  BY <1>0, <1>2 DEF Goto, attempt, Elsewhere, OthersWait, Counting, TypeOK
<1>. QED  BY <1>1, <1>2 DEF retryItem, Drop

-----------------------------------------------------------------------------
\* The steps, as far as the limit is concerned.
Leaves(a) == Elsewhere(a) /\ zset' \subseteq zset /\ Bystanders
Loses == /\ Bystanders /\ repliesLost'
         /\ \E a \in Agents : Elsewhere(a) \/ UNCHANGED <<pc, args, nextBlock, unprocessable>>
Waits == /\ UNCHANGED <<pc, args, nextBlock, unprocessable, zset, crashes>>
         /\ currentBlock' = currentBlock \/ currentBlock' > currentBlock
PassesRoom(a) ==
  /\ pc[a] = "check" /\ HasRoom(a) /\ Goto(a, "zadd")
  /\ UNCHANGED <<args, nextBlock, unprocessable, zset>> /\ Bystanders

LimitShape ==
  \/ Waits
  \/ Loses
  \/ \E a \in Agents :
       Leaves(a) \/ LoadNextBlock(a) \/ CountProcessable(a) \/ CountUnprocessable(a)
         \/ PassesRoom(a) \/ AddToQueue(a)

\* Every step but a restart has one of these shapes.
LEMMA LimitStepShape ==
  ASSUME TypeOK, [Next]_vars PROVE LimitShape \/ Restart
<1>. USE DEF attempt, history, Bystanders
<1>1. ASSUME NEW b \in Blocks, UpdateBlock(b) PROVE Waits
  BY <1>1, ZenonT(30) DEF UpdateBlock, Waits, TypeOK, Blocks
<1>2. ASSUME NEW c \in Clients, NEW min, NEW max, NEW h, Push(c, min, max, h) PROVE Leaves(c)
  BY <1>2 DEF Push, Goto, Leaves, Elsewhere, OthersWait, Counting, TypeOK, Agents
<1>3. ASSUME NEW a \in Agents, pushToQueue(a) PROVE LimitShape
  <2>1. CASE CheckRoom(a)
    <3>1. CASE HasRoom(a) /\ Goto(a, "zadd") /\ UNCHANGED <<args, attempt, tries, dropped>>
      BY <2>1, <3>1, Zenon DEF CheckRoom, PassesRoom, LimitShape
    <3>2. CASE PushFailed(a)
      BY <2>1, <3>2, PushFailedElsewhere DEF CheckRoom, Leaves, LimitShape
    <3>. QED  BY <2>1, <3>1, <3>2, Zenon DEF CheckRoom
  <2>2. CASE CommandFails(a)
    BY <2>2, PushFailedElsewhere, Zenon DEF CommandFails, Leaves, LimitShape
  <2>3. CASE ReplyLost(a)
    BY <2>3, PushFailedElsewhere, Zenon DEF ReplyLost, Loses, LimitShape
  <2>. QED  BY <1>3, <2>1, <2>2, <2>3, Zenon DEF pushToQueue, LimitShape
<1>4. ASSUME NEW w \in Workers, processNextItem(w) \/ Exit(w) PROVE Leaves(w)
  <2>0. w \in Agents
    BY DEF Agents
  <2>1. CASE Poll(w) \/ PopNothing(w) \/ Exit(w)
    BY <2>0, <2>1, Zenon DEF Poll, PopNothing, Exit, Goto, Leaves, Elsewhere, OthersWait, Counting, TypeOK
  <2>2. CASE PopItem(w)
    BY <2>0, <2>2, Zenon DEF PopItem, Goto, Leaves, Elsewhere, OthersWait, Counting, TypeOK
  <2>3. CASE PopReplyLost(w)
    BY <2>0, <2>3 DEF PopReplyLost, Goto, Leaves, Elsewhere, OthersWait, Counting, TypeOK
  <2>4. CASE Dispatch(w)
    <3>1. CASE Goto(w, "process") /\ UNCHANGED <<args, attempt, tries, dropped>>
      BY <2>0, <2>4, <3>1, ZenonT(30) DEF Dispatch, Goto, Leaves, Elsewhere, OthersWait, Counting, TypeOK
    <3>2. CASE Elsewhere(w)
      BY <2>4, <3>2, Zenon DEF Dispatch, Leaves
    <3>. QED
      BY <2>0, <2>4, <3>1, <3>2, RetryElsewhere, ReleaseElsewhere, Zenon DEF Dispatch, Drop, RollOver
  <2>5. ASSUME NEW o \in Outcomes, Processed(w, o) PROVE Leaves(w)
    <3>1. (\E i, b \in BOOLEAN : retryItem(w, args[w], i, b)) \/ Release(w)
      BY <2>5, ConstantsAssumption, Zenon DEF Processed, Drop, AllOutcomes, ConstantsAssumption
    <3>2. Elsewhere(w)
      BY <2>0, <3>1, RetryElsewhere, ReleaseElsewhere, Zenon
    <3>. QED  BY <2>5, <3>2 DEF Processed, Leaves
  <2>. QED  BY <1>4, <2>1, <2>2, <2>3, <2>4, <2>5, Zenon DEF processNextItem
<1>5. CASE Cancel \/ UNCHANGED vars
  BY <1>5, Zenon DEF Cancel, vars, Waits, LimitShape
<1>. QED
  <2>1. CASE BlockStep \/ Cancel \/ UNCHANGED vars
    BY <1>1, <1>5, <2>1 DEF BlockStep, LimitShape
  <2>2. ASSUME NEW c \in Clients,
               \/ \E min, max \in Blocks, h \in BOOLEAN : Push(c, min, max, h)
               \/ pushToQueue(c)
        PROVE  LimitShape
    BY <1>2, <1>3, <2>2 DEF LimitShape, Agents
  <2>3. ASSUME NEW w \in Workers, WorkerStep(w) PROVE LimitShape
    BY <1>3, <1>4, <2>3 DEF WorkerStep, LimitShape, Agents
  <2>. QED  BY <2>1, <2>2, <2>3 DEF Next

-----------------------------------------------------------------------------
\* The sets whose sizes the proof compares are finite.
LEMMA FiniteSets ==
  ASSUME TypeOK
  PROVE  /\ IsFiniteSet(Agents) /\ IsFiniteSet(InPush)
         /\ IsFiniteSet(Cleared) /\ IsFiniteSet(Unprocessable)
<1>1. IsFiniteSet(Agents)
  BY ConstantsAssumption, FS_Union, Zenon DEF ConstantsAssumption, Agents
<1>2. IsFiniteSet(zset)
  BY DEF TypeOK
<1>. QED  BY <1>1, <1>2, FS_Subset DEF InPush, Cleared, Unprocessable

\* The bound is a number.
LEMMA BoundType == MaxUnprocessable \in Nat
BY ConstantsAssumption DEF ConstantsAssumption, MaxUnprocessable

\* A step keeps the counts sound.
LEMMA SoundStep ==
  ASSUME TypeOK, TypeOK', CountsSound, LimitShape PROVE CountsSound'
<1>. USE BoundType DEF Bystanders
<1>1. CASE Waits
  <2>. SUFFICES ASSUME NEW a \in Agents
                PROVE  /\ pc'[a] \in {"zcount1", "zcount2"} => nextBlock'[a] <= currentBlock' + 1
                       /\ pc'[a] = "zadd" /\ args'[a].minTargetBlock > currentBlock' + 1 =>
                            unprocessable'[a] < MaxUnprocessable
    BY Zenon DEF CountsSound
  <2>1. /\ nextBlock[a] \in Nat /\ args[a].minTargetBlock \in Nat
        /\ currentBlock \in Nat /\ currentBlock' \in Nat
    BY Zenon DEF TypeOK, PackArgs
  <2>2. /\ pc' = pc /\ args' = args /\ nextBlock' = nextBlock /\ unprocessable' = unprocessable
        /\ currentBlock' = currentBlock \/ currentBlock' > currentBlock
    BY <1>1, Zenon DEF Waits
  <2>3. /\ nextBlock[a] <= currentBlock + 1 => nextBlock[a] <= currentBlock' + 1
        /\ args[a].minTargetBlock > currentBlock' + 1 => args[a].minTargetBlock > currentBlock + 1
    BY <2>1, <2>2, SMT, SMTT(30)
  <2>. QED
    BY <2>2, <2>3, Zenon DEF CountsSound
<1>2. ASSUME NEW a \in Agents, Elsewhere(a), Bystanders PROVE CountsSound'
  BY <1>2, Zenon DEF Elsewhere, OthersWait, Counting, CountsSound
<1>3. CASE Loses
  BY <1>2, <1>3, ZenonT(30) DEF Loses, CountsSound
<1>4. ASSUME NEW a \in Agents, LoadNextBlock(a) PROVE CountsSound'
  BY <1>4, SMTT(30), SMTT(60) DEF LoadNextBlock, Goto, CountsSound, TypeOK
<1>5. ASSUME NEW a \in Agents, CountProcessable(a) PROVE CountsSound'
  BY <1>5, Zenon DEF CountProcessable, Goto, CountsSound, TypeOK
<1>6. ASSUME NEW a \in Agents, CountUnprocessable(a) PROVE CountsSound'
  BY <1>6, Zenon DEF CountUnprocessable, Goto, CountsSound, TypeOK
<1>7. ASSUME NEW a \in Agents, PassesRoom(a) PROVE CountsSound'
  <2>1. args[a].highPriority \in BOOLEAN /\ args[a].minTargetBlock \in Nat /\ unprocessable[a] \in Nat
    BY Zenon DEF TypeOK, PackArgs
  <2>2. args[a].minTargetBlock > currentBlock + 1 => unprocessable[a] < MaxUnprocessable
    <3>. SUFFICES ASSUME args[a].minTargetBlock > currentBlock + 1
                  PROVE  unprocessable[a] < MaxUnprocessable
      BY Zenon
    <3>1. ~(args[a].minTargetBlock <= currentBlock + 1)
      BY <2>1, SMT, SMTT(30) DEF TypeOK
    <3>2. unprocessable[a] < IF args[a].highPriority THEN MaxQueuedUnprocessableItemsHighPrio
                                                     ELSE MaxQueuedUnprocessableItemsLowPrio
      BY <1>7, <2>1, <3>1 DEF PassesRoom, HasRoom, Threshold
    <3>. QED  BY <2>1, <3>2, ConstantsAssumption, SMT, SMTT(30) DEF ConstantsAssumption, MaxUnprocessable
  <2>. QED  BY <1>7, <2>2, Zenon DEF PassesRoom, Goto, CountsSound, TypeOK
<1>8. ASSUME NEW a \in Agents, AddToQueue(a) PROVE CountsSound'
  <2>1. Elsewhere(a) /\ Bystanders
    BY <1>8, ReleaseElsewhere, Zenon DEF AddToQueue
  <2>. QED  BY <1>2, <2>1, ZenonT(30)
<1>. QED  BY <1>1, <1>2, <1>3, <1>4, <1>5, <1>6, <1>7, <1>8, ZenonT(30) DEF LimitShape, Leaves

\* A lost reply and a restart are not forgotten.
LEMMA LossesStay ==
  ASSUME TypeOK, [Next]_vars
  PROVE  (crashes' = 0 => crashes = 0) /\ (~repliesLost' => ~repliesLost)
<1>. USE DEF attempt, history
<1>1. ASSUME NEW a \in Agents, pushToQueue(a)
      PROVE  crashes' = crashes /\ (repliesLost' = repliesLost \/ repliesLost')
  BY <1>1, Zenon DEF pushToQueue, LoadNextBlock, CountProcessable, CountUnprocessable, CheckRoom,
       AddToQueue, CommandFails, ReplyLost
<1>2. ASSUME NEW w \in Workers, processNextItem(w) \/ Exit(w)
      PROVE  crashes' = crashes /\ repliesLost' = repliesLost
  BY <1>2, Zenon DEF processNextItem, Poll, PopNothing, PopItem, PopReplyLost, Dispatch, Processed, Exit
<1>3. CASE Restart
  <2>1. crashes \in Nat
    BY Zenon DEF TypeOK
  <2>2. crashes' = crashes + 1 /\ repliesLost' = repliesLost
    BY <1>3, Zenon DEF Restart
  <2>3. crashes' # 0
    BY <2>1, <2>2, SMT, Zenon, SMTT(30)
  <2>. QED
    BY <2>2, <2>3, Zenon
<1>4. CASE BlockStep \/ Cancel \/ UNCHANGED vars
  BY <1>4, SMTT(30), SMTT(60) DEF BlockStep, UpdateBlock, Cancel, vars
<1>5. ASSUME NEW c \in Clients, NEW min, NEW max, NEW h, Push(c, min, max, h)
      PROVE  crashes' = crashes /\ repliesLost' = repliesLost
  BY <1>5 DEF Push
<1>. QED
  BY <1>1, <1>2, <1>3, <1>4, <1>5, Zenon DEF Next, WorkerStep, Agents

-----------------------------------------------------------------------------
\* What is queued and what may be added shrink together, unless the limit is
\* not reached.
LEMMA RoomStep ==
  ASSUME TypeOK, TypeOK', CountsSound, Room, LimitShape, ~repliesLost',
         width \in Nat, width' \in Nat, width <= width',
         Cardinality(InPush') <= width'
  PROVE  Room'
<1>. DEFINE U == Unprocessable
            C == Cleared
<1>. USE BoundType
<1>1. /\ IsFiniteSet(U) /\ IsFiniteSet(C) /\ IsFiniteSet(U') /\ IsFiniteSet(C')
      /\ Cardinality(U) \in Nat /\ Cardinality(C) \in Nat
      /\ Cardinality(U') \in Nat /\ Cardinality(C') \in Nat
  <2>1. IsFiniteSet(U) /\ IsFiniteSet(C)
    BY FiniteSets, Zenon
  <2>2. IsFiniteSet(Agents) /\ IsFiniteSet(zset')
    BY FiniteSets DEF TypeOK
  <2>3. C' \in SUBSET Agents /\ U' \in SUBSET zset'
    BY DEF Cleared, Unprocessable
  <2>4. IsFiniteSet(C') /\ IsFiniteSet(U')
    BY <2>2, <2>3, FS_Subset
  <2>. QED  BY <2>1, <2>4, FS_CardinalityType
<1>2. ASSUME U' \subseteq U, C' \subseteq C PROVE Room'
  <2>1. Cardinality(U') <= Cardinality(U) /\ Cardinality(C') <= Cardinality(C)
    BY <1>1, <1>2, FS_Subset
  <2>2. CASE U = {} /\ C = {}
    BY <1>2, <2>2, Zenon DEF Room
  <2>3. CASE Cardinality(U) + Cardinality(C) < MaxUnprocessable + width
    BY <1>1, <2>1, <2>3, SMT, SMTT(30) DEF Room
  <2>. QED  BY <2>2, <2>3 DEF Room
<1>3. ASSUME Cardinality(U') < MaxUnprocessable PROVE Room'
  <2>1. C' \in SUBSET InPush' /\ InPush' \in SUBSET Agents
    BY DEF Cleared, InPush, Pushing
  <2>2. IsFiniteSet(InPush') /\ Cardinality(InPush') \in Nat
    BY <2>1, FiniteSets, FS_Subset, FS_CardinalityType
  <2>3. Cardinality(C') <= Cardinality(InPush')
    BY <2>1, <2>2, FS_Subset
  <2>. QED  BY <1>1, <1>3, <2>2, <2>3, SMT, SMTT(30) DEF Room
<1>4. CASE Waits
  <2>1. U' \subseteq U
    <3>1. \A z \in zset : z.score \in Nat
      BY Zenon DEF TypeOK, Entries
    <3>2. /\ zset' = zset /\ currentBlock \in Nat /\ currentBlock' \in Nat
          /\ currentBlock' = currentBlock \/ currentBlock' > currentBlock
      BY <1>4, Zenon DEF Waits, TypeOK
    <3>3. \A z \in zset : z.score > currentBlock' + 1 => z.score > currentBlock + 1
      BY <3>1, <3>2, SMT, SMTT(30)
    <3>. QED
      BY <3>2, <3>3, Zenon DEF Unprocessable
  <2>2. C' \subseteq C
    BY <1>4, Zenon DEF Waits, Cleared
  <2>. QED  BY <1>2, <2>1, <2>2, Zenon
<1>5. ASSUME NEW a \in Agents, Elsewhere(a) PROVE C' \subseteq C \ {a}
  BY <1>5 DEF Elsewhere, OthersWait, Counting, Cleared
<1>6. ASSUME NEW a \in Agents, Leaves(a) PROVE Room'
  <2>1. U' \subseteq U
    BY <1>6 DEF Leaves, Bystanders, Unprocessable
  <2>. QED  BY <1>2, <1>5, <1>6, <2>1, Zenon DEF Leaves
<1>7. ASSUME NEW a \in Agents, LoadNextBlock(a) \/ CountProcessable(a) \/ PassesRoom(a)
      PROVE  Room'
  <2>1. U' \subseteq U
    BY <1>7, Zenon DEF LoadNextBlock, CountProcessable, PassesRoom, Bystanders, Unprocessable
  <2>2. C' \subseteq C
    BY <1>7 DEF LoadNextBlock, CountProcessable, PassesRoom, Goto, Cleared, TypeOK
  <2>. QED  BY <1>2, <2>1, <2>2, Zenon
<1>8. ASSUME NEW a \in Agents, CountUnprocessable(a) PROVE Room'
  <2>1. U' = U
    BY <1>8, Zenon DEF CountUnprocessable, Unprocessable
  <2>2. CASE Cardinality(U) < MaxUnprocessable
    BY <1>3, <2>1, <2>2
  <2>3. CASE ~(Cardinality(U) < MaxUnprocessable)
    <3>1. nextBlock[a] <= currentBlock + 1 /\ nextBlock[a] \in Nat /\ currentBlock \in Nat
      BY <1>8, Zenon DEF CountUnprocessable, CountsSound, TypeOK
    <3>2. U \subseteq {z \in zset : nextBlock[a] + 1 <= z.score}
      <4>1. \A z \in zset : z.score \in Nat
        BY Zenon DEF TypeOK, Entries
      <4>2. \A z \in zset : z.score > currentBlock + 1 => nextBlock[a] + 1 <= z.score
        BY <3>1, <4>1, SMT, SMTT(30)
      <4>. QED
        BY <4>2, Zenon DEF Unprocessable
    <3>3. IsFiniteSet({z \in zset : nextBlock[a] + 1 <= z.score})
      BY FS_Subset DEF TypeOK
    <3>4. Cardinality(U) <= ZCountFrom(zset, nextBlock[a] + 1)
      BY <3>2, <3>3, FS_Subset, Zenon DEF ZCountFrom
    <3>5. unprocessable'[a] = ZCountFrom(zset, nextBlock[a] + 1) /\ unprocessable'[a] \in Nat
      BY <1>8, Zenon DEF CountUnprocessable, TypeOK
    <3>6. ~(unprocessable'[a] < MaxUnprocessable)
      BY <1>1, <2>3, <3>4, <3>5, SMTT(30), SMTT(60)
    <3>7. C' \subseteq C
      BY <1>8, <3>6, Zenon DEF CountUnprocessable, Goto, Cleared, TypeOK
    <3>. QED  BY <1>2, <2>1, <3>7, Zenon
  <2>. QED  BY <2>2, <2>3, ZenonT(30)
<1>9. ASSUME NEW a \in Agents, AddToQueue(a) PROVE Room'
  <2>. DEFINE z == packData(args[a])
  <2>1. /\ pc[a] = "zadd" /\ zset' = ZAdd(zset, z) /\ currentBlock' = currentBlock
        /\ C' \subseteq C \ {a}
    BY <1>5, <1>9, ReleaseElsewhere, Zenon DEF AddToQueue
  <2>2. z.score = args[a].minTargetBlock
    BY DEF packData
  <2>3. CASE ~(z.score > currentBlock + 1)
    <3>1. U' \subseteq U
      BY <2>1, <2>3, Zenon DEF ZAdd, Unprocessable
    <3>. QED  BY <1>2, <2>1, <3>1, Zenon
  <2>4. CASE z.score > currentBlock + 1
    <3>1. a \in C
      BY <2>1, <2>2, <2>4, Zenon DEF CountsSound, Cleared
    <3>2. U' \subseteq U \cup {z}
      BY <2>1, Zenon DEF ZAdd, Unprocessable
    <3>3. Cardinality(U') <= Cardinality(U) + 1
      <4>1. IsFiniteSet(U \cup {z}) /\ Cardinality(U \cup {z}) <= Cardinality(U) + 1
        <5>1. IsFiniteSet(U \cup {z})
          BY <1>1, FS_AddElement, Zenon
        <5>. QED  BY <1>1, <5>1, FS_AddElement, SMT, SMTT(30)
      <4>2. Cardinality(U') <= Cardinality(U \cup {z}) /\ Cardinality(U \cup {z}) \in Nat
        BY <3>2, <4>1, FS_Subset, FS_CardinalityType, Zenon
      <4>. QED  BY <1>1, <4>1, <4>2, SMTT(30), SMTT(60)
    <3>4. Cardinality(C') <= Cardinality(C) - 1
      <4>1. IsFiniteSet(C \ {a}) /\ Cardinality(C \ {a}) = Cardinality(C) - 1
        BY <1>1, <3>1, FS_RemoveElement, Zenon
      <4>. QED  BY <1>1, <2>1, <4>1, FS_Subset, SMTT(30), SMTT(60)
    <3>5. Cardinality(U) + Cardinality(C) < MaxUnprocessable + width
      BY <3>1 DEF Room
    <3>. QED  BY <1>1, <3>3, <3>4, <3>5, SMTT(30), SMTT(60) DEF Room
  <2>. QED  BY <2>3, <2>4, Zenon
<1>10. ~Loses
  BY DEF Loses
<1>. QED  BY <1>4, <1>6, <1>7, <1>8, <1>9, <1>10, Zenon DEF LimitShape

-----------------------------------------------------------------------------
(***************************************************************************)
(* The limit on items for later blocks is exceeded only by races, for any  *)
(* number of clients and workers and for any limits: by less than the      *)
(* number of agents that ever pushed at the same time.                     *)
(***************************************************************************)
THEOREM LimitHolds == LimitSpec => []LimitExceededByRacesOnly
<1>1. LimitInit => LimitInv
  <2>. SUFFICES ASSUME LimitInit PROVE LimitInv
    OBVIOUS
  <2>1. InPush = {} /\ Cleared = {} /\ Unprocessable = {}
    BY DEF LimitInit, Init, InPush, Pushing, Cleared, Unprocessable
  <2>2. CountsSound
    BY DEF LimitInit, Init, CountsSound
  <2>. QED  BY <2>1, <2>2, FS_EmptySet, SMT, SMTT(30) DEF LimitInit, LimitInv, Room
<1>2. TypeOK /\ TypeOK' /\ LimitInv /\ [LimitNext]_<<vars, width>> => LimitInv'
  <2>. SUFFICES ASSUME TypeOK, TypeOK', LimitInv, [LimitNext]_<<vars, width>> PROVE LimitInv'
    OBVIOUS
  <2>0. InPush' \in SUBSET Agents
    BY DEF InPush
  <2>1. Cardinality(InPush') \in Nat
    BY <2>0, FiniteSets, FS_Subset, FS_CardinalityType
  <2>2. width' \in Nat /\ width <= width' /\ Cardinality(InPush') <= width'
    <3>1. CASE LimitNext
      BY <2>1, <3>1, SMT, SMTT(30) DEF LimitNext, LimitInv
    <3>2. CASE UNCHANGED <<vars, width>>
      BY <3>2, SMT, SMTT(30) DEF LimitInv, vars, InPush
    <3>. QED  BY <3>1, <3>2
  <2>3. [Next]_vars
    BY ZenonT(30) DEF LimitNext
  <2>4. CASE Restart
    <3>1. crashes \in Nat /\ crashes' = crashes + 1
      BY <2>4, Zenon DEF Restart, TypeOK
    <3>2. crashes' # 0
      BY <3>1, SMT, SMTT(30)
    <3>. QED
      BY <2>2, <3>2, Zenon DEF LimitInv
  <2>5. CASE LimitShape
    <3>1. /\ crashes' = 0 => crashes = 0
          /\ ~repliesLost' => ~repliesLost
      BY <2>3, <2>5, LossesStay
    <3>. QED  BY <2>2, <2>5, <3>1, SoundStep, RoomStep DEF LimitInv
  <2>. QED  BY <2>3, <2>4, <2>5, LimitStepShape
<1>3. TypeOK /\ LimitInv => LimitExceededByRacesOnly
  <2>. SUFFICES ASSUME TypeOK, LimitInv, crashes = 0, ~repliesLost, Unprocessable # {}
                PROVE  Cardinality(Unprocessable) < MaxUnprocessable + width
    BY DEF LimitExceededByRacesOnly
  <2>1. Cardinality(Unprocessable) + Cardinality(Cleared) < MaxUnprocessable + width
    BY DEF LimitInv, Room
  <2>. QED  BY <2>1, BoundType, FiniteSets, FS_CardinalityType, SMT, SMTT(30) DEF LimitInv
<1>4. LimitSpec => Spec
  <2>1. LimitInit => Init
    BY DEF LimitInit
  <2>2. [LimitNext]_<<vars, width>> => [Next]_vars
    BY DEF LimitNext
  <2>. QED  BY <2>1, <2>2, PTL DEF LimitSpec, Spec
<1>. QED  BY <1>1, <1>2, <1>3, <1>4, TypeCorrect, PTL DEF LimitSpec
=============================================================================
