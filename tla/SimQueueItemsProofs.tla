------------------------ MODULE SimQueueItemsProofs ------------------------
(***************************************************************************)
(* What becomes of an item.  Proof that SimQueue implements ItemQueue:     *)
(* each step concerns at most one item, whose place before and after the   *)
(* step is read off the single copy it has (Unique).  Then how an item     *)
(* leaves the queue, and why.                                              *)
(***************************************************************************)
EXTENDS SimQueueItems, SimQueueProofs

\* The item an agent holds, an entry stands for, or nobody has.
HeldItem(a) ==
  [place |-> IF a \in Clients THEN "offered" ELSE IF pc[a] = "process" THEN "running" ELSE "held",
   target |-> args[a].minTargetBlock, last |-> args[a].maxTargetBlock,
   runs |-> sims[args[a].timestamp]]

QueuedItem(z) ==
  [place |-> "waiting", target |-> z.score, last |-> unpackData(z).maxTargetBlock,
   runs |-> sims[unpackData(z).timestamp]]

AbsentItem(i) ==
  [place |-> IF i > pushes THEN "new" ELSE "gone", target |-> 0, last |-> asked[i][2],
   runs |-> sims[i]]

\* What the mapping makes of each item.
Seen ==
  /\ \A a \in Agents : Holding(a) => Items[args[a].timestamp] = HeldItem(a)
  /\ \A z \in zset : Items[unpackData(z).timestamp] = QueuedItem(z)
  /\ \A i \in Ids : ~Live(i) => Items[i] = AbsentItem(i)

\* The invariants the proof needs.
ItemInv == TypeOK /\ CopiesInRange /\ Unique /\ Counted /\ Bounded /\ ~repliesLost

\* Since an item has one copy, the mapping reads that copy.
LEMMA MappingSeen == ItemInv => Seen
<1>. SUFFICES ASSUME ItemInv PROVE Seen
  OBVIOUS
<1>. USE DEF ItemInv
<1>1. ASSUME NEW a \in Agents, Holding(a) PROVE Items[args[a].timestamp] = HeldItem(a)
  <2>. DEFINE i == args[a].timestamp
  <2>1. i \in Ids /\ asked[i][2] = args[a].maxTargetBlock
    BY <1>1, InRangeId DEF CopiesInRange, InRange, TypeOK
  <2>2. Holders(i) = {a}
    BY <1>1 DEF Unique, Holders
  <2>3. (CHOOSE b \in {a} : TRUE) = a
    OBVIOUS
  <2>4. TargetOf({a}, Queued(i)) = args[a].minTargetBlock
    BY <2>3 DEF TargetOf
  <2>5. PlaceOf(i, {a}, Queued(i)) = HeldItem(a).place
    BY DEF PlaceOf, HeldItem
  <2>. QED  BY <2>1, <2>2, <2>4, <2>5, Zenon DEF Items, ItemOf, HeldItem
<1>2. ASSUME NEW z \in zset PROVE Items[unpackData(z).timestamp] = QueuedItem(z)
  <2>. DEFINE i == unpackData(z).timestamp
  <2>1. i \in Ids /\ asked[i][2] = unpackData(z).maxTargetBlock
    BY InRangeId, UnpackType DEF CopiesInRange, InRange, TypeOK
  <2>2. Holders(i) = {} /\ Queued(i) = {z}
    BY DEF Unique, Holders, Queued
  <2>3. (CHOOSE y \in {z} : TRUE) = z
    OBVIOUS
  <2>4. TargetOf({}, {z}) = z.score
    BY <2>3 DEF TargetOf
  <2>5. PlaceOf(i, {}, {z}) = "waiting"
    BY DEF PlaceOf
  <2>. QED  BY <2>1, <2>2, <2>4, <2>5, Zenon DEF Items, ItemOf, QueuedItem
<1>3. ASSUME NEW i \in Ids, ~Live(i) PROVE Items[i] = AbsentItem(i)
  <2>1. Holders(i) = {} /\ Queued(i) = {}
    BY <1>3 DEF Live
  <2>2. TargetOf({}, {}) = 0
    BY DEF TargetOf
  <2>3. PlaceOf(i, {}, {}) = AbsentItem(i).place
    BY DEF PlaceOf, AbsentItem
  <2>. QED  BY <2>1, <2>2, <2>3 DEF Items, ItemOf, AbsentItem
<1>. QED  BY <1>1, <1>2, <1>3 DEF Seen

\* And so after the step.
LEMMA MappingSeenNext == ItemInv' => Seen'
BY MappingSeen, PTL

-----------------------------------------------------------------------------
\* A step of agent a concerns item i only.
Alone(a) == \A b \in Agents \ {a} : pc'[b] = pc[b] /\ args'[b] = args[b]

Local(a, i) ==
  /\ Alone(a)
  /\ Holding(a) => args[a].timestamp = i
  /\ Holding(a)' => args'[a].timestamp = i
  /\ \A y \in zset \cup zset' : unpackData(y).timestamp # i => y \in zset /\ y \in zset'
  /\ \A j \in Ids \ {i} : asked'[j] = asked[j] /\ sims'[j] = sims[j] /\ (j > pushes' <=> j > pushes)

\* The other items look the same.
LEMMA FrameItem ==
  ASSUME NEW a \in Agents, NEW i, Local(a, i), NEW j \in Ids \ {i}
  PROVE  Items'[j] = Items[j]
<1>1. Holders(j)' = Holders(j)
  <2>1. \A b \in Agents : Holding(b)' /\ args'[b].timestamp = j <=> Holding(b) /\ args[b].timestamp = j
    BY SMT, SMTT(30) DEF Local, Alone, Holding
  <2>. QED  BY <2>1 DEF Holders
<1>2. \A b \in Holders(j) : pc'[b] = pc[b] /\ args'[b] = args[b]
  BY DEF Local, Alone, Holders
<1>3. Queued(j)' = Queued(j)
  BY DEF Local, Queued
<1>4. PlaceOf(j, Holders(j), Queued(j))' = PlaceOf(j, Holders(j), Queued(j))
  BY <1>1, <1>2, <1>3 DEF PlaceOf, Local
<1>5. TargetOf(Holders(j), Queued(j))' = TargetOf(Holders(j), Queued(j))
  <2>1. CASE Holders(j) # {}
    <3>1. (CHOOSE b \in Holders(j) : TRUE) \in Holders(j)
      BY <2>1
    <3>. QED  BY <1>1, <1>2, <2>1, <3>1, SMT, SMTT(30) DEF TargetOf
  <2>2. CASE Holders(j) = {}
    BY <1>1, <1>3, <2>2, SMT, SMTT(30) DEF TargetOf
  <2>. QED  BY <2>1, <2>2
<1>. QED  BY <1>1, <1>3, <1>4, <1>5 DEF Local, Items, ItemOf

\* So the step is one of ItemQueue if what it does to its item is.
MovesItem(i) ==
  \/ Promise!Offer(i) \/ Promise!Accept(i) \/ Promise!Refuse(i) \/ Promise!Claim(i)
  \/ Promise!Start(i) \/ Promise!Reschedule(i) \/ Promise!Return(i) \/ Promise!GiveUp(i)
  \/ Promise!Lose(i)

Implements == [Promise!Next]_(Promise!vars)

\* A step that concerns one item implements what that item does.
LEMMA OneItem ==
  ASSUME NEW a \in Agents, NEW i, Local(a, i), currentBlock' = currentBlock,
         i \in Ids => Items'[i] = Items[i] \/ MovesItem(i)
  PROVE  Implements
<1>1. \A j \in Ids \ {i} : Items'[j] = Items[j]
  BY FrameItem
<1>2. CASE i \in Ids /\ Items'[i] # Items[i]
  <2>1. Promise!Step(i)
    BY <1>1, <1>2 DEF MovesItem, Promise!Step
  <2>. QED  BY <1>2, <2>1 DEF Implements, Promise!Next
<1>3. CASE ~(i \in Ids /\ Items'[i] # Items[i])
  <2>1. \A j \in Ids : Items'[j] = Items[j]
    BY <1>1, <1>3
  <2>2. Items' = Items
    BY <2>1 DEF Items
  <2>. QED  BY <2>2 DEF Implements, Promise!vars
<1>. QED  BY <1>2, <1>3

-----------------------------------------------------------------------------
(***************************************************************************)
(* The kinds of steps of an agent, and the steps of ItemQueue they are.    *)
(***************************************************************************)
SameQueue == UNCHANGED <<zset, pushes, asked, currentBlock>>

\* A simulation that returns may cost the item a retry.
Charged(a) ==
  \/ sims' = sims
  \/ a \notin Clients /\ pc[a] = "process" /\ sims' = [sims EXCEPT ![args[a].timestamp] = @ + 1]

Idles(a) == Alone(a) /\ SameQueue /\ sims' = sims /\ ~Holding(a) /\ ~Holding(a)'

\* The agent lets its item go; it goes on with it; a worker starts to simulate it.
Ends(a) == Alone(a) /\ SameQueue /\ Holding(a) /\ ~Holding(a)' /\ Charged(a)

GoesOn(a) ==
  /\ Alone(a) /\ SameQueue /\ Holding(a) /\ Holding(a)' /\ Charged(a)
  /\ pc'[a] # "process"
  /\ args'[a].timestamp = args[a].timestamp
  /\ args[a].minTargetBlock <= args'[a].minTargetBlock
  /\ a \in Clients => args'[a] = args[a]

Starts(w) ==
  /\ Alone(w) /\ SameQueue /\ sims' = sims
  /\ pc[w] = "popped" /\ pc'[w] = "process" /\ args' = args
  /\ currentBlock + 1 = args[w].minTargetBlock

\* What the invariants say of the item of an agent.
LEMMA OwnItem ==
  ASSUME ItemInv, NEW a \in Agents, Holding(a)
  PROVE  /\ args[a] \in PackArgs /\ InRange(args[a])
         /\ args[a].timestamp \in Ids
         /\ args[a].maxTargetBlock = asked[args[a].timestamp][2]
         /\ sims[args[a].timestamp] \in Nat
         /\ args[a].timestamp < pushes + 1 /\ pushes \in Nat
         /\ Items[args[a].timestamp] = HeldItem(a)
         /\ \A b \in Agents \ {a} : Holding(b) => args[b].timestamp # args[a].timestamp
         /\ \A z \in zset : unpackData(z).timestamp # args[a].timestamp
<1>. USE DEF ItemInv
<1>1. args[a] \in PackArgs /\ InRange(args[a])
  BY DEF TypeOK, CopiesInRange
<1>2. args[a].timestamp \in Ids /\ args[a].timestamp < pushes + 1
  BY <1>1, InRangeId
<1>3. Items[args[a].timestamp] = HeldItem(a)
  BY MappingSeen DEF Seen
<1>. QED  BY <1>1, <1>2, <1>3, SMT, SMTT(30) DEF InRange, Unique, TypeOK

\* An agent without an item implements a stuttering step.
LEMMA IdlesImplements ==
  ASSUME NEW a \in Agents, Idles(a) PROVE Implements
<1>1. Local(a, 0) /\ 0 \notin Ids
  BY SMT, SMTT(30) DEF Idles, SameQueue, Local, Ids
<1>. QED  BY <1>1, OneItem DEF Idles, SameQueue

\* An agent that gives its item up implements its end.
LEMMA EndsImplements ==
  ASSUME ItemInv, ItemInv', NEW a \in Agents, Ends(a) PROVE Implements
<1>0. PICK i : i = args[a].timestamp
  OBVIOUS
<1>. USE <1>0
<1>1. /\ i \in Ids /\ sims[i] \in Nat /\ i < pushes + 1 /\ pushes \in Nat
      /\ args[a].maxTargetBlock = asked[i][2] /\ Items[i] = HeldItem(a)
  BY OwnItem DEF Ends
<1>2. Local(a, i)
  BY <1>1 DEF Ends, SameQueue, Charged, Local, ItemInv, TypeOK
<1>3. ~Live(i)'
  <2>1. \A b \in Agents : Holding(b)' => args'[b].timestamp # i
    BY OwnItem, SMT, SMTT(30) DEF Ends, Alone, Holding
  <2>2. \A z \in zset' : unpackData(z).timestamp # i
    BY OwnItem DEF Ends, SameQueue
  <2>. QED  BY <2>1, <2>2 DEF Live, Holders, Queued
<1>4. Items'[i] = AbsentItem(i)'
  BY <1>1, <1>3, MappingSeenNext, Zenon DEF Seen
<1>5. AbsentItem(i)' = [place |-> "gone", target |-> 0, last |-> args[a].maxTargetBlock, runs |-> sims'[i]]
  BY <1>1, SMT, SMTT(30) DEF Ends, SameQueue, AbsentItem, Ids
<1>6. \/ sims'[i] = sims[i]
      \/ pc[a] = "process" /\ sims'[i] = sims[i] + 1
  BY <1>1 DEF Ends, Charged, ItemInv, TypeOK
<1>7. sims'[i] <= MaxRetries + 1
  BY <1>1, Zenon DEF ItemInv, Bounded
<1>8. CASE a \in Clients
  <2>1. sims' = sims
    BY <1>8, Zenon DEF Ends, Charged
  <2>2. Promise!Refuse(i)
    BY <1>1, <1>4, <1>5, <1>8, <2>1, SMTT(30), SMTT(60)
    DEF HeldItem, Promise!Refuse, Promise!Moves, Promise!SameRange, Promise!SameRuns
  <2>. QED  BY <1>1, <1>2, <2>2, OneItem DEF MovesItem, Ends, SameQueue
<1>9. CASE a \notin Clients
  <2>1. Promise!GiveUp(i)
    BY <1>1, <1>4, <1>5, <1>6, <1>7, <1>9, SMTT(30), SMTT(60)
    DEF HeldItem, Promise!GiveUp, Promise!Moves, Promise!SameRange, Promise!SameRuns, Promise!MoreRuns
  <2>. QED  BY <1>1, <1>2, <2>1, OneItem, Zenon DEF MovesItem, Ends, SameQueue
<1>. QED  BY <1>8, <1>9

\* An agent that keeps its item implements a move to a later block, or nothing.
LEMMA GoesOnImplements ==
  ASSUME ItemInv, ItemInv', NEW a \in Agents, GoesOn(a) PROVE Implements
<1>0. PICK i : i = args[a].timestamp
  OBVIOUS
<1>. USE <1>0
<1>1. /\ i \in Ids /\ sims[i] \in Nat /\ Items[i] = HeldItem(a)
      /\ args[a].maxTargetBlock = asked[i][2] /\ args[a] \in PackArgs
  BY OwnItem DEF GoesOn
<1>2. Local(a, i)
  BY <1>1, Zenon DEF GoesOn, SameQueue, Charged, Local, ItemInv, TypeOK
<1>3. Items'[i] = HeldItem(a)'
  BY MappingSeenNext DEF Seen, GoesOn
<1>4. InRange(args[a])' /\ args'[a] \in PackArgs
  BY SMT, Zenon, SMTT(30) DEF ItemInv, TypeOK, CopiesInRange, GoesOn
<1>5. /\ args'[a].maxTargetBlock = args[a].maxTargetBlock
      /\ args'[a].minTargetBlock \in args[a].minTargetBlock .. args[a].maxTargetBlock
  BY <1>1, <1>4, SMTT(30), SMTT(60) DEF InRange, GoesOn, SameQueue, PackArgs
<1>6. \/ sims'[i] = sims[i]
      \/ a \notin Clients /\ pc[a] = "process" /\ sims'[i] = sims[i] + 1
  BY <1>1 DEF GoesOn, Charged, ItemInv, TypeOK
<1>7. sims'[i] <= MaxRetries + 1
  BY <1>1, Zenon DEF ItemInv, Bounded
<1>8. CASE a \in Clients
  <2>1. Items'[i] = Items[i]
    BY <1>1, <1>3, <1>6, <1>8, ZenonT(30) DEF GoesOn, HeldItem
  <2>. QED  BY <1>2, <2>1, OneItem, Zenon DEF GoesOn, SameQueue
<1>9. CASE a \notin Clients
  <2>1. Promise!Reschedule(i)
    <3>1. /\ Items[i].place = IF pc[a] = "process" THEN "running" ELSE "held"
          /\ Items[i].target = args[a].minTargetBlock
          /\ Items[i].last = args[a].maxTargetBlock /\ Items[i].runs = sims[i]
      BY <1>1, <1>9, SMT, SMTT(30) DEF HeldItem
    <3>2. /\ Items'[i].place = "held" /\ Items'[i].target = args'[a].minTargetBlock
          /\ Items'[i].last = args[a].maxTargetBlock /\ Items'[i].runs = sims'[i]
      BY <1>3, <1>5, <1>9, SMTT(30), SMTT(60) DEF HeldItem, GoesOn
    <3>3. Promise!SameRange(i) /\ Items'[i].target \in Items[i].target .. Items[i].last
      BY <1>5, <3>1, <3>2, Zenon DEF Promise!SameRange
    <3>4. CASE pc[a] = "process"
      <4>1. Promise!Moves(i, {"running"}, "held") /\ Promise!MoreRuns(i)
        BY <1>6, <1>7, <3>1, <3>2, <3>4, Zenon DEF Promise!Moves, Promise!MoreRuns
      <4>. QED  BY <3>3, <4>1, Zenon DEF Promise!Reschedule
    <3>5. CASE pc[a] # "process"
      <4>1. Promise!Moves(i, {"held"}, "held") /\ Promise!SameRuns(i)
        BY <1>6, <3>1, <3>2, <3>5, Zenon DEF Promise!Moves, Promise!SameRuns
      <4>. QED  BY <3>3, <4>1 DEF Promise!Reschedule
    <3>. QED  BY <3>4, <3>5
  <2>. QED  BY <1>2, <2>1, OneItem DEF MovesItem, GoesOn, SameQueue
<1>. QED  BY <1>8, <1>9

\* A simulation implements the start of an item that is due.
LEMMA StartsImplements ==
  ASSUME ItemInv, ItemInv', NEW w \in Workers, Starts(w) PROVE Implements
<1>0. PICK i : i = args[w].timestamp
  OBVIOUS
<1>. USE <1>0
<1>1. w \in Agents /\ w \notin Clients /\ Holding(w) /\ Holding(w)'
  BY ConstantsAssumption DEF ConstantsAssumption, Agents, Starts, Holding
<1>2. i \in Ids /\ Items[i] = HeldItem(w)
  BY <1>1, OwnItem
<1>3. Local(w, i)
  BY <1>1 DEF Starts, SameQueue, Local
<1>4. Items'[i] = HeldItem(w)'
  BY <1>1, MappingSeenNext DEF Seen, Starts
<1>5. args[w].minTargetBlock \in Nat /\ currentBlock \in Nat
  BY <1>1 DEF ItemInv, TypeOK, PackArgs
<1>6. Promise!Start(i)
  BY <1>1, <1>2, <1>4, <1>5, SMTT(30), SMTT(60)
  DEF Starts, HeldItem, Promise!Start, Promise!Moves, Promise!Same, Promise!SameRange, Promise!SameRuns
<1>. QED  BY <1>1, <1>3, <1>6, OneItem DEF MovesItem, Starts, SameQueue

\* A ZADD implements the return of the item to those that wait.
LEMMA AddImplements ==
  ASSUME ItemInv, ItemInv', NEW a \in Agents, AddToQueue(a) PROVE Implements
<1>. USE DEF history
<1>0. PICK i : i = args[a].timestamp
  OBVIOUS
<1>. USE <1>0
<1>1. PICK z : z = packData(args[a])
  OBVIOUS
<1>2. pc[a] = "zadd" /\ Holding(a)
  BY Zenon DEF AddToQueue, Holding, Pushing
<1>3. i \in Ids /\ Items[i] = HeldItem(a) /\ args[a] \in PackArgs
  BY <1>2, OwnItem, Zenon
<1>4. unpackData(z) = args[a] /\ z.score = args[a].minTargetBlock
  BY <1>1, <1>3, PackRoundTrip DEF packData
<1>5. zset' = ZAdd(zset, z) /\ z \in zset'
  BY <1>1, Zenon DEF AddToQueue, ZAdd
<1>6. ~Holding(a)' /\ Alone(a)
  BY ZenonT(30) DEF AddToQueue, Release, Holding, Pushing, Alone, ItemInv, TypeOK
<1>7. Local(a, i)
  <2>1. \A y \in zset \cup zset' : unpackData(y).timestamp # i => y \in zset /\ y \in zset'
    <3>1. \A y \in zset : y.member = z.member => unpackData(y).timestamp = i
      BY <1>4, SMTT(30), SMTT(60) DEF unpackData
    <3>. QED  BY <1>4, <1>5, <3>1 DEF ZAdd
  <2>. QED  BY <1>6, <2>1 DEF AddToQueue, Local
<1>8. Items'[i] = QueuedItem(z)'
  BY <1>4, <1>5, MappingSeenNext, Zenon DEF Seen
<1>9. QueuedItem(z)' = [place |-> "waiting", target |-> args[a].minTargetBlock,
                        last |-> args[a].maxTargetBlock, runs |-> sims[i]]
  BY <1>4, Zenon DEF QueuedItem, AddToQueue
<1>10. Promise!Accept(i) \/ Promise!Return(i)
  BY <1>2, <1>3, <1>8, <1>9, SMTT(30), SMTT(60)
  DEF HeldItem, Promise!Accept, Promise!Return, Promise!Moves, Promise!Same, Promise!SameRange,
      Promise!SameRuns
<1>. QED  BY <1>7, <1>10, OneItem DEF MovesItem, AddToQueue

\* What the invariants say of an entry of the sorted set.
LEMMA OwnEntry ==
  ASSUME ItemInv, NEW z \in zset
  PROVE  /\ unpackData(z).timestamp \in Ids /\ unpackData(z).timestamp < pushes + 1
         /\ pushes \in Nat
         /\ unpackData(z).maxTargetBlock = asked[unpackData(z).timestamp][2]
         /\ unpackData(z).minTargetBlock = z.score
         /\ Items[unpackData(z).timestamp] = QueuedItem(z)
         /\ \A b \in Agents : Holding(b) => args[b].timestamp # unpackData(z).timestamp
         /\ \A y \in zset \ {z} : unpackData(y).timestamp # unpackData(z).timestamp
<1>. USE DEF ItemInv
<1>1. unpackData(z) \in PackArgs /\ InRange(unpackData(z))
  BY UnpackType DEF TypeOK, CopiesInRange
<1>2. unpackData(z).timestamp \in Ids /\ unpackData(z).timestamp < pushes + 1
  BY <1>1, InRangeId
<1>3. Items[unpackData(z).timestamp] = QueuedItem(z)
  BY MappingSeen DEF Seen
<1>4. unpackData(z).minTargetBlock = z.score
  BY Zenon DEF unpackData
<1>. QED  BY <1>1, <1>2, <1>3, <1>4, SMT, SMTT(30) DEF InRange, Unique, TypeOK

\* A pop implements the taking of an item.
LEMMA PopImplements ==
  ASSUME ItemInv, ItemInv', NEW w \in Workers, PopItem(w) PROVE Implements
<1>. USE DEF history
<1>0. w \in Agents /\ w \notin Clients
  BY ConstantsAssumption DEF ConstantsAssumption, Agents
<1>1. PICK z \in zset : zset' = zset \ {z} /\ args' = [args EXCEPT ![w] = unpackData(z)]
  BY Zenon DEF PopItem
<1>2. PICK i : i = unpackData(z).timestamp
  OBVIOUS
<1>. USE <1>2
<1>3. i \in Ids /\ Items[i] = QueuedItem(z) /\ unpackData(z).minTargetBlock = z.score
  BY OwnEntry, Zenon
<1>4. args'[w] = unpackData(z) /\ pc'[w] = "popped" /\ Holding(w)' /\ ~Holding(w) /\ Alone(w)
  BY <1>0, <1>1, Zenon DEF PopItem, Goto, Holding, Pushing, Alone, ItemInv, TypeOK
<1>5. Local(w, i)
  BY <1>1, <1>4, Zenon DEF PopItem, Local
<1>6. Items'[i] = HeldItem(w)'
  BY <1>0, <1>4, MappingSeenNext, Zenon DEF Seen
<1>7. HeldItem(w)' = [place |-> "held", target |-> z.score,
                      last |-> unpackData(z).maxTargetBlock, runs |-> sims[i]]
  BY <1>0, <1>3, <1>4, Zenon DEF HeldItem, PopItem
<1>8. Promise!Claim(i)
  <2>1. /\ Items[i].place = "waiting" /\ Items[i].target = z.score
        /\ Items[i].last = unpackData(z).maxTargetBlock /\ Items[i].runs = sims[i]
    BY <1>3, SMT, SMTT(30) DEF QueuedItem
  <2>2. /\ Items'[i].place = "held" /\ Items'[i].target = z.score
        /\ Items'[i].last = unpackData(z).maxTargetBlock /\ Items'[i].runs = sims[i]
    BY <1>6, <1>7, SMTT(30), SMTT(60)
  <2>. QED  BY <2>1, <2>2
       DEF Promise!Claim, Promise!Moves, Promise!Same, Promise!SameRange, Promise!SameRuns
<1>. QED  BY <1>0, <1>5, <1>8, OneItem, Zenon DEF MovesItem, PopItem

\* A pop whose reply is lost implements the end of the item.
LEMMA PopLostImplements ==
  ASSUME ItemInv, ItemInv', NEW w \in Workers, PopReplyLost(w) PROVE Implements
<1>0. w \in Agents
  BY DEF Agents
<1>1. PICK z \in zset : zset' = zset \ {z}
  BY Zenon DEF PopReplyLost
<1>2. PICK i : i = unpackData(z).timestamp
  OBVIOUS
<1>. USE <1>2
<1>3. /\ i \in Ids /\ i < pushes + 1 /\ pushes \in Nat /\ Items[i] = QueuedItem(z)
      /\ unpackData(z).maxTargetBlock = asked[i][2]
      /\ \A b \in Agents : Holding(b) => args[b].timestamp # i
      /\ \A y \in zset \ {z} : unpackData(y).timestamp # i
  BY OwnEntry, Zenon
<1>4. ~Holding(w)' /\ ~Holding(w) /\ Alone(w) /\ UNCHANGED <<pushes, asked, sims, args, currentBlock>>
  BY <1>0, <1>1, Zenon DEF PopReplyLost, Goto, Holding, Pushing, Alone, ItemInv, TypeOK
<1>5. Local(w, i)
  BY <1>1, <1>4 DEF Local
<1>6. ~Live(i)'
  <2>1. \A b \in Agents : Holding(b)' => args'[b].timestamp # i
    BY <1>3, <1>4, Zenon DEF Alone, Holding
  <2>2. \A y \in zset' : unpackData(y).timestamp # i
    BY <1>1, <1>3, Zenon
  <2>. QED  BY <2>1, <2>2, Zenon DEF Live, Holders, Queued
<1>7. Items'[i] = AbsentItem(i)'
  BY <1>3, <1>6, MappingSeenNext, Zenon DEF Seen
<1>8. AbsentItem(i)' = [place |-> "gone", target |-> 0, last |-> asked[i][2], runs |-> sims[i]]
  BY <1>3, <1>4, SMTT(30), SMTT(60) DEF AbsentItem, Ids
<1>9. Promise!Lose(i)
  BY <1>3, <1>7, <1>8, SMTT(30), SMTT(60) DEF QueuedItem, Promise!Lose, Promise!Moves, Promise!SameRange, Promise!SameRuns
<1>. QED  BY <1>0, <1>4, <1>5, <1>9, OneItem DEF MovesItem

\* A push implements the offer of a new item.
LEMMA PushImplements ==
  ASSUME ItemInv, ItemInv', NEW c \in Clients, NEW min \in Blocks, NEW max \in Blocks,
         NEW h \in BOOLEAN, Push(c, min, max, h)
  PROVE  Implements
<1>. USE DEF attempt
<1>0. c \in Agents
  BY DEF Agents
<1>1. PICK i : i = pushes + 1
  BY Zenon
<1>2. i \in Ids /\ pushes' = i /\ i > pushes /\ ~(i > pushes')
      /\ \A j \in Ids \ {i} : (j > pushes' <=> j > pushes)
  BY <1>1, ConstantsAssumption, SMTT(30), SMTT(60) DEF ConstantsAssumption, Push, ItemInv, TypeOK, Ids
<1>3. /\ args'[c].timestamp = i /\ args'[c].maxTargetBlock = max
      /\ args'[c].minTargetBlock = IF min < currentBlock + 1 THEN currentBlock + 1 ELSE min
      /\ Holding(c)' /\ ~Holding(c) /\ Alone(c)
  BY <1>0, <1>1, Zenon DEF Push, Goto, Holding, Pushing, Alone, ItemInv, TypeOK
<1>4. \A j \in Ids \ {i} : asked'[j] = asked[j]
  BY <1>1 DEF Push, ItemInv, TypeOK
<1>5. Local(c, i)
  BY <1>2, <1>3, <1>4 DEF Push, Local
<1>6. ~Live(i)
  <2>1. \A b \in Agents : Holding(b) => args[b].timestamp # i
    BY <1>1, OwnItem, SMTT(30), SMTT(60)
  <2>2. \A z \in zset : unpackData(z).timestamp # i
    BY <1>1, OwnEntry, SMT, SMTT(30)
  <2>. QED  BY <2>1, <2>2, ZenonT(30) DEF Live, Holders, Queued
<1>7. Items[i] = AbsentItem(i)
  BY <1>2, <1>6, MappingSeen, Zenon DEF Seen
<1>8. Items'[i] = HeldItem(c)'
  BY <1>0, <1>3, MappingSeenNext, Zenon DEF Seen
<1>9. sims'[i] = 0
  BY <1>2, Zenon DEF Push, ItemInv, Bounded
<1>10. /\ currentBlock < args'[c].minTargetBlock
       /\ args'[c].minTargetBlock <= args'[c].maxTargetBlock
  BY <1>3, SMTT(30), SMTT(60) DEF Push, ItemInv, TypeOK, Blocks
<1>11. Promise!Offer(i)
  BY <1>2, <1>3, <1>7, <1>8, <1>9, <1>10, SMT, SMTT(30)
  DEF AbsentItem, HeldItem, Promise!Offer, Promise!Moves
<1>. QED  BY <1>0, <1>5, <1>11, OneItem, Zenon DEF MovesItem, Push

\* A restart implements the end of all that the process holds.
LEMMA RestartImplements ==
  ASSUME ItemInv, ItemInv', Restart PROVE Implements
<1>1. UNCHANGED <<zset, pushes, asked, sims>> /\ currentBlock' = 0 /\ \A b \in Agents : ~Holding(b)'
  BY DEF Restart, Holding, Pushing
<1>2. ASSUME NEW i \in Ids
      PROVE  IF Items[i].place \in {"offered", "held", "running"}
               THEN /\ Items'[i].place = "gone" /\ Items'[i].last = Items[i].last
                    /\ Items'[i].runs = Items[i].runs
               ELSE Items'[i] = Items[i]
  <2>1. ASSUME NEW a \in Agents, Holding(a), args[a].timestamp = i
        PROVE  /\ Items[i].place \in {"offered", "held", "running"}
               /\ Items'[i].place = "gone" /\ Items'[i].last = Items[i].last
               /\ Items'[i].runs = Items[i].runs
    <3>1. /\ i < pushes + 1 /\ pushes \in Nat /\ Items[i] = HeldItem(a)
          /\ args[a].maxTargetBlock = asked[i][2] /\ \A z \in zset : unpackData(z).timestamp # i
      BY <2>1, OwnItem, Zenon
    <3>2. ~Live(i)'
      BY <1>1, <3>1 DEF Live, Holders, Queued
    <3>3. Items'[i] = AbsentItem(i)'
      BY <3>2, MappingSeenNext, Zenon DEF Seen
    <3>. QED  BY <1>1, <2>1, <3>1, <3>3, SMTT(30), SMTT(60) DEF HeldItem, AbsentItem, Ids
  <2>2. ASSUME NEW z \in zset, unpackData(z).timestamp = i
        PROVE  Items[i].place = "waiting" /\ Items'[i] = Items[i]
    <3>1. Items[i] = QueuedItem(z)
      BY <2>2, OwnEntry, Zenon
    <3>2. Items'[i] = QueuedItem(z)'
      BY <1>1, <2>2, MappingSeenNext, Zenon DEF Seen
    <3>. QED  BY <1>1, <3>1, <3>2, SMTT(30), SMTT(60) DEF QueuedItem
  <2>3. ASSUME ~Live(i)
        PROVE  Items[i].place \in {"new", "gone"} /\ Items'[i] = Items[i]
    <3>1. Items[i] = AbsentItem(i)
      BY <2>3, MappingSeen DEF Seen
    <3>2. ~Live(i)'
      BY <1>1, <2>3 DEF Live, Holders, Queued
    <3>3. Items'[i] = AbsentItem(i)'
      BY <3>2, MappingSeenNext, Zenon DEF Seen
    <3>. QED  BY <1>1, <3>1, <3>3, SMTT(30), SMTT(60) DEF AbsentItem
  <2>. QED  BY <2>1, <2>2, <2>3, Zenon DEF Live, Holders, Queued
<1>3. Promise!Crash
  BY <1>1, <1>2 DEF Promise!Crash, Promise!SameRange, Promise!SameRuns
<1>. QED  BY <1>3, SMT, Zenon, SMTT(30) DEF Implements, Promise!Next

-----------------------------------------------------------------------------
\* The kinds of the steps that only an agent takes part in.
Kind(a) == Idles(a) \/ Ends(a) \/ GoesOn(a)

\* An agent that releases its item ends it.
LEMMA ReleaseEnds ==
  ASSUME TypeOK, NEW a \in Agents, Holding(a), Release(a), SameQueue, Charged(a) PROVE Ends(a)
<1>1. ~Holding(a)' /\ Alone(a)
  BY DEF Release, Holding, Pushing, Alone, TypeOK
<1>. QED  BY <1>1 DEF Ends

\* A failed attempt to push is one of the kinds of steps.
LEMMA PushFailedKind ==
  ASSUME TypeOK, NEW a \in Agents, Holding(a), PushFailed(a), SameQueue, sims' = sims PROVE Kind(a)
<1>1. CASE Release(a)
  BY <1>1, ReleaseEnds, Zenon DEF Kind, Charged
<1>2. CASE Goto(a, "load") /\ UNCHANGED args
  <2>1. Alone(a) /\ pc'[a] = "load" /\ Holding(a)'
    BY <1>2 DEF Goto, Alone, Holding, Pushing, TypeOK
  <2>2. args[a].minTargetBlock \in Nat
    BY DEF TypeOK, PackArgs
  <2>. QED  BY <1>2, <2>1, <2>2, SMT, SMTT(30) DEF GoesOn, Charged, Kind
<1>. QED  BY <1>1, <1>2 DEF PushFailed, Drop

\* So is retryItem.
LEMMA RetryKind ==
  ASSUME TypeOK, NEW w \in Workers, NEW a \in PackArgs, Holding(w), a.timestamp = args[w].timestamp,
         args[w].minTargetBlock <= a.minTargetBlock,
         NEW i \in BOOLEAN, NEW b \in BOOLEAN, retryItem(w, a, i, b), SameQueue, Charged(w)
  PROVE  Kind(w)
<1>0. w \in Agents /\ w \notin Clients /\ args[w] \in PackArgs
  BY ConstantsAssumption, Zenon DEF ConstantsAssumption, Agents, TypeOK
<1>1. CASE Release(w)
  BY <1>0, <1>1, ReleaseEnds, ZenonT(30) DEF Kind
<1>2. CASE /\ args' = [args EXCEPT ![w] =
                [a EXCEPT !.iteration = IF i THEN @ + 1 ELSE @,
                          !.minTargetBlock = IF b THEN @ + 1 ELSE @]]
           /\ Goto(w, "load")
  <2>1. Alone(w) /\ pc'[w] = "load" /\ Holding(w)'
    BY <1>0, <1>2 DEF Goto, Alone, Holding, Pushing, TypeOK
  <2>2. args'[w] = [a EXCEPT !.iteration = IF i THEN @ + 1 ELSE @,
                             !.minTargetBlock = IF b THEN @ + 1 ELSE @]
    BY <1>0, <1>2 DEF TypeOK
  <2>3. /\ args'[w].timestamp = a.timestamp
        /\ args'[w].minTargetBlock = IF b THEN a.minTargetBlock + 1 ELSE a.minTargetBlock
    BY <2>2, Zenon DEF PackArgs
  <2>4. args[w].minTargetBlock <= args'[w].minTargetBlock
    BY <1>0, <2>3, SMT, SMTT(30) DEF PackArgs
  <2>. QED  BY <1>0, <2>1, <2>3, <2>4 DEF GoesOn, Kind
<1>. QED  BY <1>1, <1>2, Zenon DEF retryItem, Drop

\* Every step is one of ItemQueue.
LEMMA StepImplements ==
  ASSUME ItemInv, ItemInv', [Next]_vars PROVE Implements
<1>. USE DEF attempt, history, SameQueue
<1>0. TypeOK
  BY DEF ItemInv
<1>1. ASSUME NEW a \in Agents, Kind(a) PROVE Implements
  BY <1>1, IdlesImplements, EndsImplements, GoesOnImplements DEF Kind
<1>2. ASSUME NEW b \in Blocks, UpdateBlock(b) PROVE Implements
  <2>1. Items' = Items
    BY <1>2, SMT, SMTT(30) DEF UpdateBlock, Items, ItemOf, PlaceOf, TargetOf, Holders, Holding, Queued
  <2>2. currentBlock' > currentBlock
    BY <1>0, <1>2 DEF UpdateBlock, Blocks, TypeOK
  <2>. QED  BY <2>1, <2>2 DEF Implements, Promise!Next, Promise!NewBlock
<1>3. ASSUME NEW a \in Agents, pushToQueue(a) PROVE Implements
  <2>0. pc[a] \in Pushing => Holding(a)
    BY DEF Holding
  <2>1. CASE LoadNextBlock(a) \/ CountProcessable(a) \/ CountUnprocessable(a)
    <3>1. GoesOn(a)
      <4>1. Alone(a) /\ pc'[a] # "process" /\ Holding(a) /\ Holding(a)'
        BY <1>0, <2>1, Zenon
        DEF LoadNextBlock, CountProcessable, CountUnprocessable, Goto, Alone, Holding, Pushing, TypeOK
      <4>2. UNCHANGED <<args, sims>> /\ SameQueue
        BY <2>1 DEF LoadNextBlock, CountProcessable, CountUnprocessable
      <4>3. args[a].minTargetBlock <= args[a].minTargetBlock
        <5>1. args[a].minTargetBlock \in Nat
          BY <1>0, Zenon DEF TypeOK, PackArgs
        <5>. QED  BY <5>1, SMT, SMTT(30)
      <4>. QED  BY <4>1, <4>2, <4>3, Zenon DEF GoesOn, Charged
    <3>. QED  BY <1>1, <3>1 DEF Kind
  <2>2. CASE CheckRoom(a)
    <3>0. Holding(a) /\ SameQueue /\ sims' = sims
      BY <2>0, <2>2, Zenon DEF CheckRoom, Pushing
    <3>1. CASE Goto(a, "zadd") /\ UNCHANGED args
      <4>1. Alone(a) /\ pc'[a] = "zadd" /\ Holding(a)'
        BY <1>0, <3>1, Zenon DEF Goto, Alone, Holding, Pushing, TypeOK
      <4>2. args[a].minTargetBlock <= args[a].minTargetBlock /\ pc'[a] # "process"
        <5>1. args[a].minTargetBlock \in Nat
          BY <1>0, Zenon DEF TypeOK, PackArgs
        <5>. QED  BY <4>1, <5>1, SMT, SMTT(30)
      <4>3. GoesOn(a)
        BY <3>0, <3>1, <4>1, <4>2, Zenon DEF GoesOn, Charged
      <4>. QED  BY <1>1, <4>3 DEF Kind
    <3>2. CASE PushFailed(a)
      BY <1>0, <1>1, <3>0, <3>2, PushFailedKind, Zenon
    <3>. QED  BY <2>2, <3>1, <3>2 DEF CheckRoom
  <2>3. CASE CommandFails(a)
    <3>1. Holding(a) /\ SameQueue /\ sims' = sims /\ PushFailed(a)
      BY <2>0, <2>3, Zenon DEF CommandFails, Pushing
    <3>. QED  BY <1>0, <1>1, <3>1, PushFailedKind
  <2>4. CASE ReplyLost(a)
    BY <2>4, Zenon DEF ReplyLost, ItemInv
  <2>. QED  BY <1>3, <2>1, <2>2, <2>3, <2>4, AddImplements DEF pushToQueue
<1>4. ASSUME NEW w \in Workers, Dispatch(w) PROVE Implements
  <2>0. /\ w \in Agents /\ Holding(w) /\ SameQueue /\ sims' = sims /\ Charged(w)
        /\ args[w] \in PackArgs /\ args[w].minTargetBlock \in Nat /\ currentBlock \in Nat
    BY <1>0, <1>4, Zenon DEF Dispatch, Agents, Holding, Charged, TypeOK, PackArgs
  <2>1. CASE retryItem(w, args[w], FALSE, FALSE)
    <3>1. args[w].minTargetBlock <= args[w].minTargetBlock
      BY <2>0, SMT, SMTT(30)
    <3>2. Kind(w)
      BY <1>0, <2>0, <2>1, <3>1, RetryKind, ZenonT(30)
    <3>. QED  BY <1>1, <2>0, <3>2, Zenon
  <2>2. CASE Drop(w, "stale")
    BY <1>0, <1>1, <2>0, <2>2, ReleaseEnds, Zenon DEF Drop, Kind
  <2>3. CASE currentBlock + 1 > args[w].minTargetBlock /\ RollOver(w)
    <3>. DEFINE a == [args[w] EXCEPT !.minTargetBlock = currentBlock + 1]
    <3>1. /\ a \in PackArgs /\ a.timestamp = args[w].timestamp
          /\ args[w].minTargetBlock <= a.minTargetBlock
      BY <2>0, <2>3, SMT, SMTT(30) DEF PackArgs
    <3>2. retryItem(w, a, FALSE, FALSE)
      BY <2>3, Zenon DEF RollOver
    <3>. HIDE DEF a
    <3>3. Kind(w)
      BY <1>0, <2>0, <3>1, <3>2, RetryKind, Zenon
    <3>. QED  BY <1>1, <2>0, <3>3, Zenon
  <2>4. CASE /\ currentBlock + 1 <= args[w].minTargetBlock /\ ~TooEarly(args[w])
             /\ Goto(w, "process") /\ UNCHANGED args
    <3>1. currentBlock + 1 = args[w].minTargetBlock
      <4>1. /\ currentBlock \in Nat /\ args[w].minTargetBlock \in Nat
            /\ currentBlock + 1 <= args[w].minTargetBlock
            /\ ~(currentBlock + 1 < args[w].minTargetBlock)
        BY <2>0, <2>4, Zenon DEF TooEarly, PackArgs
      <4>. QED  BY <4>1, SMT, SMTT(30)
    <3>2. Alone(w) /\ pc[w] = "popped" /\ pc'[w] = "process"
      BY <1>0, <1>4, <2>0, <2>4, Zenon DEF Dispatch, Goto, Alone, TypeOK
    <3>3. Starts(w)
      BY <2>0, <2>4, <3>1, <3>2, Zenon DEF Starts
    <3>. QED  BY <3>3, StartsImplements, Zenon
  <2>. QED  BY <1>4, <2>1, <2>2, <2>3, <2>4, Zenon DEF Dispatch
<1>5. ASSUME NEW w \in Workers, NEW o \in Outcomes, Processed(w, o) PROVE Implements
  <2>0. /\ w \in Agents /\ w \notin Clients /\ Holding(w) /\ SameQueue /\ o \in AllOutcomes
        /\ args[w] \in PackArgs /\ args[w].minTargetBlock \in Nat
    BY <1>0, <1>5, ConstantsAssumption
    DEF Processed, Agents, Holding, TypeOK, PackArgs, ConstantsAssumption
  <2>1. Charged(w)
    BY <1>5, <2>0, Zenon DEF Processed, Charged
  <2>2. (\E i, b \in BOOLEAN : retryItem(w, args[w], i, b)) \/ Release(w)
    BY <1>5, <2>0, Zenon DEF Processed, Drop, AllOutcomes
  <2>3. args[w].minTargetBlock <= args[w].minTargetBlock
    BY <2>0, SMT, SMTT(30)
  <2>4. CASE \E i, b \in BOOLEAN : retryItem(w, args[w], i, b)
    <3>1. Kind(w)
      BY <1>0, <2>0, <2>1, <2>3, <2>4, RetryKind, Zenon
    <3>. QED  BY <1>1, <2>0, <3>1, Zenon
  <2>5. CASE Release(w)
    <3>1. Ends(w)
      BY <1>0, <2>0, <2>1, <2>5, ReleaseEnds, Zenon
    <3>. QED  BY <1>1, <2>0, <3>1, Zenon DEF Kind
  <2>. QED  BY <2>2, <2>4, <2>5, Zenon
<1>6. ASSUME NEW w \in Workers, Poll(w) \/ PopNothing(w) \/ Exit(w) PROVE Implements
  <2>1. w \in Agents /\ Idles(w)
    BY <1>0, <1>6 DEF Agents, Poll, PopNothing, Exit, Goto, Idles, Alone, Holding, Pushing, TypeOK
  <2>. QED  BY <1>1, <2>1, ZenonT(30) DEF Kind
<1>7. ASSUME NEW w \in Workers, WorkerStep(w) PROVE Implements
  <2>1. w \in Agents
    BY DEF Agents
  <2>. QED
    BY <1>3, <1>4, <1>5, <1>6, <1>7, <2>1, PopImplements, PopLostImplements, Zenon
    DEF WorkerStep, processNextItem
<1>8. CASE Cancel \/ UNCHANGED vars
  <2>1. Items' = Items /\ currentBlock' = currentBlock
    BY <1>8, ZenonT(30) DEF Cancel, vars, Items, ItemOf, PlaceOf, TargetOf, Holders, Holding, Queued
  <2>. QED  BY <2>1, Zenon DEF Implements, Promise!vars
<1>. QED
  BY <1>2, <1>3, <1>7, <1>8, PushImplements, RestartImplements, Zenon DEF Next, BlockStep, Agents

(***************************************************************************)
(* As long as no reply to a ZADD is lost the queue keeps the promise of    *)
(* ItemQueue, for any number of clients, workers and items, with lost      *)
(* replies to BZPOPMIN, failed commands, cancellations and restarts.       *)
(***************************************************************************)
THEOREM QueueKeepsPromise == Spec /\ [](~repliesLost) => ImplementsItemQueue
<1>1. Init => Promise!Init
  <2>. SUFFICES ASSUME Init PROVE Promise!Init
    OBVIOUS
  <2>1. ASSUME NEW i \in Ids
        PROVE  ItemOf(i, Holders(i), Queued(i)) =
                 [place |-> "new", target |-> 0, last |-> 0, runs |-> 0]
    <3>1. Holders(i) = {} /\ Queued(i) = {}
      BY DEF Init, Holders, Holding, Pushing, Queued
    <3>2. i > pushes /\ asked[i][2] = 0 /\ sims[i] = 0
      BY SMT, SMTT(30) DEF Init, Ids
    <3>. QED  BY <3>1, <3>2, SMT, Zenon, SMTT(30) DEF ItemOf, PlaceOf, TargetOf
  <2>. QED  BY <2>1 DEF Init, Promise!Init, Items
<1>2. ItemInv /\ ItemInv' /\ [Next]_vars => [Promise!Next]_(Promise!vars)
  BY StepImplements DEF Implements
<1>3. Spec /\ [](~repliesLost) => []ItemInv
  BY TypeCorrect, RangeInvariant, UniqueInvariant, CountInvariant, PTL DEF ItemInv
<1>. QED  BY <1>1, <1>2, <1>3, PTL DEF Spec, ImplementsItemQueue, Promise!Spec

-----------------------------------------------------------------------------
(* How an item leaves the queue.                                           *)

\* The step gives an item up for a reason.
Gives(i, why) == dropped' = [dropped EXCEPT ![i] = @ \cup {why}]

\* A worker gives its item up, and for which reason it may.
WorkerGives(w, why) ==
  /\ Holding(w) /\ Gives(args[w].timestamp, why)
  /\ peak' = peak /\ asked' = asked
  /\ why = "stale" => currentBlock + 1 > args[w].maxTargetBlock
  /\ why = "noNextBlock" =>
       /\ pc[w] = "process" /\ args[w].minTargetBlock >= args[w].maxTargetBlock
       /\ sims' = [sims EXCEPT ![args[w].timestamp] = @ + 1]
  /\ why = "maxRetries" => args[w].iteration >= MaxRetries

PopLoses == \E z \in zset : zset' = zset \ {z} /\ Gives(unpackData(z).timestamp, "popReplyLost")

\* What a step does to the reasons.
DropShape ==
  \/ dropped' = dropped
  \/ \E w \in Workers : \E why \in Reasons : WorkerGives(w, why)
  \/ PopLoses
  \/ Restart

\* An agent that a step does not concern.
Untouched(b) == pc'[b] = pc[b] /\ args'[b] = args[b]

\* A worker goes on with its item.
KeepsItem(w) == Holding(w)' /\ args'[w].timestamp = args[w].timestamp

\* What a step does to the item of a worker.
HolderShape(w) ==
  \/ KeepsItem(w)
  \/ \E why \in Reasons : WorkerGives(w, why)
  \/ AddToQueue(w)
  \/ Restart

\* Releasing an item, or going elsewhere with it, does not concern the others.
LEMMA ReleaseUntouched ==
  ASSUME TypeOK, NEW a \in Agents, NEW b \in Agents, a # b, Release(a)
  PROVE  Untouched(b)
BY DEF Release, Untouched, TypeOK

\* An error of pushToQueue.
LEMMA PushFailedDrops ==
  ASSUME TypeOK, NEW a \in Agents, Holding(a), PushFailed(a), peak' = peak, asked' = asked
  PROVE  /\ dropped' = dropped \/ (a \in Workers /\ WorkerGives(a, "requeueFailed"))
         /\ a \in Workers => KeepsItem(a) \/ WorkerGives(a, "requeueFailed")
         /\ \A b \in Agents \ {a} : Untouched(b)
<1>1. CASE a \in Clients /\ Release(a) /\ UNCHANGED dropped
  <2>1. a \notin Workers
    BY <1>1, ConstantsAssumption DEF ConstantsAssumption
  <2>. QED  BY <1>1, <2>1, ReleaseUntouched, Zenon
<1>2. CASE a \in Workers /\ Drop(a, "requeueFailed")
  <2>1. WorkerGives(a, "requeueFailed")
    BY <1>2 DEF Drop, WorkerGives, Gives
  <2>. QED  BY <1>2, <2>1, ReleaseUntouched, Zenon DEF Drop
<1>3. CASE a \in Workers /\ Goto(a, "load") /\ UNCHANGED <<args, attempt, dropped>>
  BY <1>3 DEF Goto, KeepsItem, Untouched, Holding, Pushing, TypeOK
<1>. QED  BY <1>1, <1>2, <1>3 DEF PushFailed

\* retryItem.
LEMMA RetryDrops ==
  ASSUME TypeOK, NEW w \in Workers, NEW a \in PackArgs, Holding(w),
         a.timestamp = args[w].timestamp, a.iteration = args[w].iteration,
         NEW i \in BOOLEAN, NEW b \in BOOLEAN, retryItem(w, a, i, b),
         peak' = peak, asked' = asked,
         b => /\ a = args[w] /\ pc[w] = "process"
              /\ sims' = [sims EXCEPT ![args[w].timestamp] = @ + 1]
  PROVE  /\ \/ dropped' = dropped /\ KeepsItem(w)
            \/ \E why \in Reasons : WorkerGives(w, why)
         /\ \A x \in Agents \ {w} : Untouched(x)
<1>0. w \in Agents
  BY DEF Agents
<1>1. CASE Exhausted(a) /\ Drop(w, "maxRetries")
  <2>1. WorkerGives(w, "maxRetries")
    BY <1>1 DEF Exhausted, Drop, WorkerGives, Gives
  <2>. QED  BY <1>0, <1>1, <2>1, ReleaseUntouched, ZenonT(30) DEF Drop, Reasons
<1>2. CASE b /\ a.minTargetBlock >= a.maxTargetBlock /\ Drop(w, "noNextBlock")
  <2>1. WorkerGives(w, "noNextBlock")
    BY <1>2 DEF Drop, WorkerGives, Gives
  <2>. QED  BY <1>0, <1>2, <2>1, ReleaseUntouched, ZenonT(30) DEF Drop, Reasons
<1>3. CASE /\ args' = [args EXCEPT ![w] =
                [a EXCEPT !.iteration = IF i THEN @ + 1 ELSE @,
                          !.minTargetBlock = IF b THEN @ + 1 ELSE @]]
           /\ Goto(w, "load")
           /\ UNCHANGED <<attempt, tries, dropped>>
  <2>1. args'[w].timestamp = a.timestamp
    BY <1>0, <1>3, Zenon DEF TypeOK, PackArgs
  <2>2. pc'[w] = "load"
    BY <1>0, <1>3 DEF Goto, TypeOK
  <2>3. \A x \in Agents \ {w} : Untouched(x)
    BY <1>3 DEF Goto, Untouched, TypeOK
  <2>. QED  BY <1>3, <2>1, <2>2, <2>3, Zenon DEF KeepsItem, Holding, Pushing
<1>. QED  BY <1>1, <1>2, <1>3, ZenonT(30) DEF retryItem

\* What a step does to the sorted set.
SetShape ==
  \/ zset' = zset
  \/ PopLoses
  \/ \E a \in Agents : Holding(a) /\ zset' = ZAdd(zset, packData(args[a]))
  \/ \E w \in Workers : Holding(w)' /\ \E z \in zset : zset' = zset \ {z} /\ args'[w] = unpackData(z)

\* Only a client's push is accepted, and the chain is what UpdateBlock says.
AcceptShape == accepted' = accepted \/ \E c \in Clients : AddToQueue(c)
BlockShape ==
  \/ currentBlock' = currentBlock /\ peak' = peak
  \/ \E b \in Blocks : UpdateBlock(b)
  \/ Restart

LossShape ==
  /\ DropShape /\ SetShape /\ AcceptShape /\ BlockShape
  /\ \A w \in Workers : Holding(w) => HolderShape(w)

\* A step that changes none of it but one agent, which goes on with its item.
LEMMA CalmShape ==
  ASSUME dropped' = dropped, zset' = zset, accepted' = accepted,
         currentBlock' = currentBlock, peak' = peak,
         \A w \in Workers : Holding(w) => Untouched(w) \/ KeepsItem(w)
  PROVE  LossShape
<1>1. ASSUME NEW w \in Workers, Untouched(w), Holding(w) PROVE KeepsItem(w)
  BY <1>1, Zenon DEF Untouched, KeepsItem, Holding
<1>. QED  BY <1>1, Zenon DEF LossShape, DropShape, SetShape, AcceptShape, BlockShape, HolderShape

\* pushToQueue.
LEMMA PushLosses ==
  ASSUME TypeOK, NEW a \in Agents, pushToQueue(a)
  PROVE  LossShape
<1>. USE DEF attempt, history
<1>0. ASSUME NEW l, Goto(a, l), args' = args, l \in Pushing
      PROVE  \A w \in Workers : Holding(w) => Untouched(w) \/ KeepsItem(w)
  <2>. SUFFICES ASSUME NEW w \in Workers, Holding(w) PROVE Untouched(w) \/ KeepsItem(w)
    OBVIOUS
  <2>0. w \in Agents /\ pc \in [Agents -> PCs]
    BY DEF TypeOK, Agents
  <2>1. CASE w = a
    BY <1>0, <2>0, <2>1 DEF Goto, KeepsItem, Holding
  <2>2. CASE w # a
    BY <1>0, <2>0, <2>2 DEF Goto, Untouched
  <2>. QED  BY <2>1, <2>2
<1>1. CASE LoadNextBlock(a)
  BY <1>0, <1>1, CalmShape, Zenon DEF LoadNextBlock, Pushing
<1>2. CASE CountProcessable(a)
  BY <1>0, <1>2, CalmShape, Zenon DEF CountProcessable, Pushing
<1>3. CASE CountUnprocessable(a)
  BY <1>0, <1>3, CalmShape, Zenon DEF CountUnprocessable, Pushing
<1>4. ASSUME Holding(a), PushFailed(a), peak' = peak, asked' = asked
      PROVE  DropShape /\ \A w \in Workers : Holding(w) => HolderShape(w)
  <2>1. DropShape
    BY <1>4, PushFailedDrops, Zenon DEF DropShape, Reasons
  <2>2. ASSUME NEW w \in Workers, Holding(w) PROVE HolderShape(w)
    <3>1. CASE w = a
      BY <1>4, <2>2, <3>1, PushFailedDrops, Zenon DEF HolderShape, Reasons
    <3>2. CASE w # a
      <4>1. Untouched(w)
        BY <1>4, <3>2, PushFailedDrops, Zenon DEF Agents
      <4>. QED  BY <2>2, <4>1, Zenon DEF HolderShape, Untouched, KeepsItem, Holding
    <3>. QED  BY <3>1, <3>2
  <2>. QED  BY <2>1, <2>2
<1>5. CASE CheckRoom(a)
  <2>0. Holding(a)
    BY <1>5 DEF CheckRoom, Holding, Pushing
  <2>1. CASE Goto(a, "zadd") /\ UNCHANGED <<args, attempt, tries, dropped>>
    BY <1>0, <1>5, <2>1, CalmShape, Zenon DEF CheckRoom, Pushing
  <2>2. CASE PushFailed(a)
    BY <1>4, <1>5, <2>0, <2>2, Zenon DEF CheckRoom, LossShape, SetShape, AcceptShape, BlockShape
  <2>. QED  BY <1>5, <2>1, <2>2, Zenon DEF CheckRoom
<1>6. CASE AddToQueue(a)
  <2>0. Holding(a)
    BY <1>6 DEF AddToQueue, Holding, Pushing
  <2>1. AcceptShape
    BY <1>6, Zenon DEF AddToQueue, AcceptShape
  <2>2. ASSUME NEW w \in Workers, Holding(w) PROVE HolderShape(w)
    <3>1. CASE w # a
      <4>1. Untouched(w)
        BY <1>6, <3>1, ReleaseUntouched, Zenon DEF AddToQueue, Agents
      <4>. QED  BY <2>2, <4>1, Zenon DEF HolderShape, Untouched, KeepsItem, Holding
    <3>. QED  BY <1>6, <3>1, Zenon DEF HolderShape
  <2>. QED  BY <1>6, <2>0, <2>1, <2>2, Zenon DEF AddToQueue, LossShape, DropShape, SetShape, BlockShape
<1>7. CASE CommandFails(a)
  <2>0. Holding(a)
    BY <1>7 DEF CommandFails, Holding, Pushing
  <2>. QED
    BY <1>4, <1>7, <2>0, Zenon DEF CommandFails, LossShape, SetShape, AcceptShape, BlockShape
<1>8. CASE ReplyLost(a)
  <2>0. Holding(a)
    BY <1>8 DEF ReplyLost, Holding, Pushing
  <2>1. SetShape /\ AcceptShape /\ BlockShape
    BY <1>8, <2>0, Zenon DEF ReplyLost, SetShape, AcceptShape, BlockShape
  <2>2. CASE PushFailed(a)
    BY <1>4, <1>8, <2>0, <2>1, <2>2, Zenon DEF ReplyLost, LossShape
  <2>3. CASE UNCHANGED <<pc, args, attempt, tries, dropped>>
    BY <2>1, <2>3, Zenon DEF LossShape, DropShape, HolderShape, KeepsItem, Holding
  <2>. QED  BY <1>8, <2>2, <2>3, ZenonT(30) DEF ReplyLost
<1>. QED  BY <1>1, <1>2, <1>3, <1>5, <1>6, <1>7, <1>8, Zenon DEF pushToQueue

\* processNextItem.
LEMMA ProcessLosses ==
  ASSUME TypeOK, NEW w \in Workers, processNextItem(w)
  PROVE  LossShape
<1>. USE DEF attempt, history
<1>0. w \in Agents /\ args[w] \in PackArgs /\ pc \in [Agents -> PCs]
  BY DEF Agents, TypeOK
<1>1. ASSUME NEW l, Goto(w, l), ~Holding(w)
      PROVE  \A v \in Workers : Holding(v) => pc'[v] = pc[v] /\ v # w
  BY <1>0, <1>1 DEF Goto, Agents
<1>2. ASSUME NEW why \in Reasons, WorkerGives(w, why), \A x \in Agents \ {w} : Untouched(x)
      PROVE  DropShape /\ \A v \in Workers : Holding(v) => HolderShape(v)
  <2>1. ASSUME NEW v \in Workers, v # w, Holding(v) PROVE HolderShape(v)
    BY <1>2, <2>1, Zenon DEF HolderShape, Untouched, KeepsItem, Holding, Agents
  <2>. QED  BY <1>2, <2>1, Zenon DEF DropShape, HolderShape
<1>3. ASSUME KeepsItem(w), \A x \in Agents \ {w} : Untouched(x)
      PROVE  \A v \in Workers : Holding(v) => Untouched(v) \/ KeepsItem(v)
  BY <1>3, Zenon DEF Agents
<1>4. CASE Poll(w)
  <2>1. ~Holding(w)
    BY <1>4 DEF Poll, Holding, Pushing
  <2>. QED  BY <1>1, <1>4, <2>1, CalmShape, Zenon DEF Poll, Untouched
<1>5. CASE PopNothing(w)
  <2>1. ~Holding(w)
    BY <1>5 DEF PopNothing, Holding, Pushing
  <2>. QED  BY <1>1, <1>5, <2>1, CalmShape, Zenon DEF PopNothing, Untouched
<1>6. CASE PopItem(w)
  <2>1. ~Holding(w)
    BY <1>6 DEF PopItem, Holding, Pushing
  <2>2. PICK z \in zset : zset' = zset \ {z} /\ args' = [args EXCEPT ![w] = unpackData(z)]
    BY <1>6, Zenon DEF PopItem
  <2>3. args'[w] = unpackData(z) /\ \A v \in Agents \ {w} : args'[v] = args[v]
    BY <1>0, <2>2, SMT, Zenon, SMTT(30) DEF TypeOK
  <2>4. pc'[w] = "popped"
    BY <1>0, <1>6 DEF PopItem, Goto
  <2>5. SetShape
    BY <2>2, <2>3, <2>4, Zenon DEF SetShape, Holding
  <2>6. ASSUME NEW v \in Workers, Holding(v) PROVE HolderShape(v)
    BY <1>1, <1>6, <2>1, <2>3, <2>6, Zenon DEF PopItem, HolderShape, KeepsItem, Holding, Agents
  <2>. QED  BY <1>6, <2>5, <2>6, Zenon DEF PopItem, LossShape, DropShape, AcceptShape, BlockShape
<1>7. CASE PopReplyLost(w)
  <2>1. ~Holding(w)
    BY <1>7 DEF PopReplyLost, Holding, Pushing
  <2>2. PopLoses
    BY <1>7, Zenon DEF PopReplyLost, PopLoses, Gives
  <2>3. ASSUME NEW v \in Workers, Holding(v) PROVE HolderShape(v)
    BY <1>1, <1>7, <2>1, <2>3, Zenon DEF PopReplyLost, HolderShape, KeepsItem, Holding
  <2>. QED
    BY <1>7, <2>2, <2>3, Zenon
    DEF PopReplyLost, LossShape, DropShape, SetShape, AcceptShape, BlockShape
<1>8. CASE Dispatch(w)
  <2>0. /\ Holding(w) /\ currentBlock \in Nat
        /\ args[w].minTargetBlock \in Nat /\ args[w].maxTargetBlock \in Nat
    BY <1>0, <1>8 DEF Dispatch, Holding, TypeOK, PackArgs
  <2>1. UNCHANGED <<currentBlock, zset, asked, accepted, peak>>
    BY <1>8, Zenon DEF Dispatch
  <2>2. SetShape /\ AcceptShape /\ BlockShape
    BY <2>1, Zenon DEF SetShape, AcceptShape, BlockShape
  <2>3. ASSUME NEW a \in PackArgs, a.timestamp = args[w].timestamp,
               a.iteration = args[w].iteration, retryItem(w, a, FALSE, FALSE)
        PROVE  LossShape
    <3>1. /\ \/ dropped' = dropped /\ KeepsItem(w)
             \/ \E why \in Reasons : WorkerGives(w, why)
          /\ \A x \in Agents \ {w} : Untouched(x)
      BY <2>0, <2>1, <2>3, RetryDrops, Zenon
    <3>2. CASE dropped' = dropped /\ KeepsItem(w)
      BY <1>3, <2>1, <3>1, <3>2, CalmShape, Zenon
    <3>3. CASE \E why \in Reasons : WorkerGives(w, why)
      BY <1>2, <2>2, <3>1, <3>3, Zenon DEF LossShape
    <3>. QED  BY <3>1, <3>2, <3>3
  <2>4. CASE TooEarly(args[w]) /\ retryItem(w, args[w], FALSE, FALSE)
    BY <1>0, <2>3, <2>4, Zenon
  <2>5. CASE Stale(args[w]) /\ Drop(w, "stale")
    <3>1. WorkerGives(w, "stale")
      BY <2>0, <2>1, <2>5 DEF Stale, Drop, WorkerGives, Gives
    <3>2. \A x \in Agents \ {w} : Untouched(x)
      BY <1>0, <2>5, ReleaseUntouched, Zenon DEF Drop
    <3>. QED  BY <1>2, <2>2, <3>1, <3>2, Zenon DEF LossShape, Reasons
  <2>6. CASE RollOver(w)
    <3>1. PICK a : a = [args[w] EXCEPT !.minTargetBlock = currentBlock + 1]
      BY Zenon
    <3>2. a \in PackArgs /\ a.timestamp = args[w].timestamp /\ a.iteration = args[w].iteration
      BY <1>0, <2>0, <3>1, SMT, SMTT(30) DEF PackArgs
    <3>. QED  BY <2>3, <2>6, <3>1, <3>2, Zenon DEF RollOver
  <2>7. CASE Goto(w, "process") /\ UNCHANGED <<args, attempt, tries, dropped>>
    <3>1. KeepsItem(w) /\ \A x \in Agents \ {w} : Untouched(x)
      BY <1>0, <2>7 DEF Goto, KeepsItem, Holding, Untouched
    <3>. QED  BY <1>3, <2>1, <2>7, <3>1, CalmShape, Zenon
  <2>. QED  BY <1>8, <2>4, <2>5, <2>6, <2>7, ZenonT(30) DEF Dispatch
<1>9. ASSUME NEW o \in Outcomes, Processed(w, o) PROVE LossShape
  <2>0. Holding(w) /\ pc[w] = "process" /\ o \in AllOutcomes
    BY <1>9, ConstantsAssumption DEF Processed, Holding, ConstantsAssumption
  <2>1. UNCHANGED <<currentBlock, zset, asked, accepted, peak>>
    BY <1>9, Zenon DEF Processed
  <2>2. SetShape /\ AcceptShape /\ BlockShape
    BY <2>1, Zenon DEF SetShape, AcceptShape, BlockShape
  <2>3. ASSUME NEW i \in BOOLEAN, NEW b \in BOOLEAN, retryItem(w, args[w], i, b),
               b => sims' = [sims EXCEPT ![args[w].timestamp] = @ + 1]
        PROVE  LossShape
    <3>1. /\ \/ dropped' = dropped /\ KeepsItem(w)
             \/ \E why \in Reasons : WorkerGives(w, why)
          /\ \A x \in Agents \ {w} : Untouched(x)
      BY <1>0, <2>0, <2>1, <2>3, RetryDrops, Zenon
    <3>2. CASE dropped' = dropped /\ KeepsItem(w)
      BY <1>3, <2>1, <3>1, <3>2, CalmShape, Zenon
    <3>3. CASE \E why \in Reasons : WorkerGives(w, why)
      BY <1>2, <2>2, <3>1, <3>3, Zenon DEF LossShape
    <3>. QED  BY <3>1, <3>2, <3>3
  <2>4. CASE o = "lagging"
    BY <1>9, <2>3, <2>4, Zenon DEF Processed
  <2>5. CASE o \in {"workerError", "nextBlock", "ok"}
    BY <1>9, <2>3, <2>5, Zenon DEF Processed
  <2>6. ASSUME NEW why \in {"unrecoverable", "otherError"}, Drop(w, why) PROVE LossShape
    <3>1. WorkerGives(w, why)
      BY <2>0, <2>1, <2>6, Zenon DEF Drop, WorkerGives, Gives
    <3>2. \A x \in Agents \ {w} : Untouched(x)
      BY <1>0, <2>6, ReleaseUntouched, Zenon DEF Drop
    <3>. QED  BY <1>2, <2>2, <3>1, <3>2, Zenon DEF LossShape, Reasons
  <2>7. CASE o \in {"unrecoverable", "other"}
    BY <1>9, <2>6, <2>7, Zenon DEF Processed
  <2>. QED  BY <2>0, <2>4, <2>5, <2>7 DEF AllOutcomes
<1>. QED  BY <1>4, <1>5, <1>6, <1>7, <1>8, <1>9, ZenonT(30) DEF processNextItem

\* Every step.
LEMMA StepLosses == TypeOK /\ [Next]_vars => LossShape
<1>. SUFFICES ASSUME TypeOK, [Next]_vars PROVE LossShape
  OBVIOUS
<1>. USE DEF attempt, history
<1>1. ASSUME NEW b \in Blocks, UpdateBlock(b) PROVE LossShape
  BY <1>1, Zenon
  DEF UpdateBlock, LossShape, DropShape, SetShape, AcceptShape, BlockShape, HolderShape, KeepsItem, Holding
<1>2. ASSUME NEW c \in Clients, NEW min \in Blocks, NEW max \in Blocks,
             NEW h \in BOOLEAN, Push(c, min, max, h)
      PROVE  LossShape
  <2>1. \A w \in Workers : w # c /\ w \in Agents
    BY ConstantsAssumption, SMT, Zenon, SMTT(30) DEF ConstantsAssumption, Agents
  <2>2. \A w \in Workers : Untouched(w)
    BY <1>2, <2>1 DEF Push, Goto, Untouched, TypeOK
  <2>. QED  BY <1>2, <2>2, CalmShape, Zenon DEF Push
<1>3. ASSUME NEW w \in Workers, Exit(w) PROVE LossShape
  <2>1. \A v \in Workers : Holding(v) => Untouched(v)
    BY <1>3 DEF Exit, Goto, Untouched, Holding, Pushing, TypeOK, Agents
  <2>. QED  BY <1>3, <2>1, CalmShape, Zenon DEF Exit
<1>4. CASE Cancel
  BY <1>4, CalmShape, Zenon DEF Cancel, Untouched
<1>5. CASE Restart
  BY <1>5, Zenon
  DEF Restart, LossShape, DropShape, SetShape, AcceptShape, BlockShape, HolderShape
<1>6. CASE UNCHANGED vars
  BY <1>6, CalmShape, Zenon DEF vars, Untouched
<1>. QED
  BY <1>1, <1>2, <1>3, <1>4, <1>5, <1>6, PushLosses, ProcessLosses, Zenon
  DEF Next, BlockStep, WorkerStep, Agents

-----------------------------------------------------------------------------
(***************************************************************************)
(* What makes NothingVanishes inductive: the client that pushes an item is *)
(* the only one to have it, and has not been told yet that it is accepted. *)
(***************************************************************************)
ClientsApart ==
  /\ accepted \subseteq 1 .. pushes
  /\ \A c \in Clients : Holding(c) => args[c].timestamp \notin accepted
  /\ \A c, d \in Clients :
       Holding(c) /\ Holding(d) /\ args[c].timestamp = args[d].timestamp => c = d

\* What DropsJustified says of one reason.
Reason(i, why) ==
  /\ why = "stale" => peak >= asked[i][2]
  /\ why = "noNextBlock" => peak + 1 >= asked[i][2] /\ sims[i] > 0
  /\ why = "maxRetries" => repliesLost \/ sims[i] >= MaxRetries

(***************************************************************************)
(* What makes DropsJustified inductive: peak is never behind the block of  *)
(* the process, and only an item that was pushed is given up.              *)
(***************************************************************************)
DropInv ==
  /\ peak >= currentBlock
  /\ \A i \in Ids : \A why \in dropped[i] : i <= pushes /\ Reason(i, why)

\* What is in the sorted set after a ZADD.
LEMMA AddedIsQueued ==
  ASSUME TypeOK, NEW a \in Agents, zset' = ZAdd(zset, packData(args[a]))
  PROVE  \E z \in zset' : unpackData(z).timestamp = args[a].timestamp
<1>1. unpackData(packData(args[a])) = args[a]
  BY PackRoundTrip DEF TypeOK
<1>2. packData(args[a]) \in zset'
  BY DEF ZAdd
<1>. QED  BY <1>1, <1>2, Zenon

\* An item in the sorted set stays there, is taken by a worker, or is lost
\* with the reply.
LEMMA QueuedStays ==
  ASSUME TypeOK, TypeOK', CopiesInRange, LossShape, NEW i \in Ids, Queued(i) # {}
  PROVE  Live(i)' \/ dropped'[i] # {}
<1>1. PICK z \in zset : unpackData(z).timestamp = i
  BY DEF Queued
<1>2. CASE z \in zset'
  BY <1>1, <1>2 DEF Queued, Live
<1>3. CASE z \notin zset'
  <2>1. CASE PopLoses
    <3>1. PICK y \in zset : zset' = zset \ {y} /\ Gives(unpackData(y).timestamp, "popReplyLost")
      BY <2>1 DEF PopLoses
    <3>2. dropped' = [dropped EXCEPT ![i] = @ \cup {"popReplyLost"}]
      BY <1>1, <1>3, <3>1, Zenon DEF Gives
    <3>. QED  BY <3>2 DEF TypeOK
  <2>2. ASSUME NEW a \in Agents, zset' = ZAdd(zset, packData(args[a])) PROVE Live(i)'
    <3>1. packData(args[a]) \in zset' /\ z.member = packData(args[a]).member
      BY <1>3, <2>2 DEF ZAdd
    <3>2. unpackData(packData(args[a])).timestamp = i
      BY <1>1, <3>1, Zenon DEF unpackData
    <3>. QED  BY <3>1, <3>2 DEF Queued, Live
  <2>3. ASSUME NEW w \in Workers, Holding(w)',
               NEW y \in zset, zset' = zset \ {y}, args'[w] = unpackData(y)
        PROVE  Live(i)'
    <3>1. args'[w].timestamp = i
      BY <1>1, <1>3, <2>3
    <3>. QED  BY <2>3, <3>1 DEF Live, Holders, Agents
  <2>. QED  BY <1>3, <2>1, <2>2, <2>3, Zenon DEF LossShape, SetShape
<1>. QED  BY <1>2, <1>3

\* An item of a worker stays with it, goes back into the sorted set, or is
\* given up.
LEMMA HeldStays ==
  ASSUME TypeOK, TypeOK', LossShape, NEW w \in Workers, Holding(w),
         NEW i \in Ids, args[w].timestamp = i
  PROVE  Live(i)' \/ dropped'[i] # {}
<1>0. w \in Agents
  BY DEF Agents
<1>1. CASE KeepsItem(w)
  BY <1>0, <1>1 DEF KeepsItem, Live, Holders
<1>2. ASSUME NEW why \in Reasons, WorkerGives(w, why) PROVE dropped'[i] # {}
  <2>1. dropped' = [dropped EXCEPT ![i] = @ \cup {why}]
    BY <1>2, Zenon DEF WorkerGives, Gives
  <2>. QED  BY <2>1 DEF TypeOK
<1>3. CASE AddToQueue(w)
  <2>1. \E z \in zset' : unpackData(z).timestamp = i
    BY <1>0, <1>3, AddedIsQueued, Zenon DEF AddToQueue
  <2>. QED  BY <2>1 DEF Live, Queued
<1>4. CASE Restart
  <2>1. dropped'[i] = dropped[i] \cup
          {"crash" : v \in {u \in Workers : Holding(u) /\ args[u].timestamp = i}}
    BY <1>4, Zenon DEF Restart
  <2>2. "crash" \in dropped'[i]
    BY <2>1
  <2>. QED  BY <2>2
<1>. QED  BY <1>1, <1>2, <1>3, <1>4, Zenon DEF LossShape, HolderShape

\* A reason once given stays.
LEMMA ReasonsStay ==
  ASSUME TypeOK, LossShape, NEW i \in Ids PROVE dropped[i] \subseteq dropped'[i]
<1>1. ASSUME NEW j, NEW why, Gives(j, why) PROVE dropped[i] \subseteq dropped'[i]
  BY <1>1 DEF Gives, TypeOK
<1>2. CASE Restart
  BY <1>2 DEF Restart
<1>. QED  BY <1>1, <1>2, Zenon DEF LossShape, DropShape, WorkerGives, PopLoses

\* The clients stay apart: an id is new when Push takes it, and the client
\* whose ZADD is answered lets go of its item.
LEMMA ClientsStep ==
  ASSUME TypeOK, TypeOK', CopiesInRange, ClientsApart, Shape, LossShape
  PROVE  ClientsApart'
<1>0. /\ pushes \in Nat
      /\ \A c \in Clients : c \in Agents /\ c \notin Workers
      /\ \A c \in Clients : Holding(c) => args[c].timestamp \in 1 .. pushes
  BY ConstantsAssumption, SMT, SMTT(30) DEF ConstantsAssumption, Agents, TypeOK, CopiesInRange, InRange
<1>1. ASSUME NEW d \in Clients, AddToQueue(d) PROVE ClientsApart'
  <2>1. pc[d] = "zadd" /\ accepted' = accepted \cup {args[d].timestamp} /\ pushes' = pushes
    BY <1>1, Zenon DEF AddToQueue
  <2>2. Holding(d)
    BY <2>1 DEF Holding, Pushing
  <2>3. ~Holding(d)' /\ \A c \in Agents : Keeps(c)
    BY <1>0, <1>1, ReleaseShape DEF AddToQueue
  <2>4. accepted' \subseteq 1 .. pushes'
    BY <1>0, <2>1, <2>2, Zenon DEF ClientsApart
  <2>5. \A c \in Clients : Holding(c)' => c # d /\ Holding(c) /\ args'[c] = args[c]
    BY <1>0, <2>3 DEF Keeps
  <2>. QED  BY <2>1, <2>2, <2>4, <2>5, Zenon DEF ClientsApart
<1>2. CASE accepted' = accepted /\ pushes' = pushes /\ \A c \in Clients : Keeps(c)
  BY <1>2, Zenon DEF ClientsApart, Keeps
<1>3. ASSUME NEW a \in Agents, Submits(a), accepted' = accepted PROVE ClientsApart'
  <2>1. pushes' = pushes + 1 /\ args'[a].timestamp = pushes + 1
    BY <1>3, Zenon DEF Submits
  <2>2. \A c \in Clients \ {a} : Holding(c)' => Holding(c) /\ args'[c] = args[c]
    BY <1>0, <1>3, Zenon DEF Submits, Others, Keeps
  <2>3. pushes + 1 \notin accepted /\ accepted \subseteq 1 .. pushes'
    <3>1. accepted \subseteq 1 .. pushes
      BY Zenon DEF ClientsApart
    <3>2. pushes + 1 \notin 1 .. pushes /\ 1 .. pushes \subseteq 1 .. pushes'
      BY <1>0, <2>1, SMT, SMTT(30)
    <3>. QED  BY <3>1, <3>2, Zenon
  <2>4. \A c \in Clients : Holding(c) => args[c].timestamp # pushes + 1
    <3>1. pushes + 1 \notin 1 .. pushes
      BY <1>0, SMT, SMTT(30)
    <3>. QED  BY <1>0, <3>1, Zenon
  <2>. QED  BY <1>3, <2>1, <2>2, <2>3, <2>4, Zenon DEF ClientsApart
<1>4. \/ pushes' = pushes /\ \A c \in Clients : Keeps(c)
      \/ \E a \in Agents : Submits(a)
  BY <1>0, Zenon DEF Shape, Quiet, Puts, Takes, Rewrites, Finishes, Others, SameRequests
<1>. QED  BY <1>1, <1>2, <1>3, <1>4, ZenonT(30) DEF LossShape, AcceptShape

\* An accepted item stays, or is given up.
LEMMA VanishStep ==
  ASSUME TypeOK, TypeOK', CopiesInRange, ClientsApart, NothingVanishes, LossShape
  PROVE  NothingVanishes'
<1>. SUFFICES ASSUME NEW i \in accepted' PROVE Live(i)' \/ dropped'[i] # {}
  BY DEF NothingVanishes
<1>1. CASE i \in accepted
  <2>1. i \in Ids
    BY <1>1, ConstantsAssumption, SMT, SMTT(30) DEF ClientsApart, TypeOK, Ids, ConstantsAssumption
  <2>2. CASE dropped[i] # {}
    BY <2>1, <2>2, ReasonsStay, Zenon
  <2>3. CASE Queued(i) # {}
    BY <2>1, <2>3, QueuedStays, SMT, Zenon, SMTT(30)
  <2>4. CASE Holders(i) # {}
    <3>1. PICK a \in Agents : Holding(a) /\ args[a].timestamp = i
      BY <2>4 DEF Holders
    <3>2. a \in Workers
      BY <1>1, <3>1 DEF ClientsApart, Agents
    <3>. QED  BY <2>1, <3>1, <3>2, HeldStays
  <2>. QED  BY <1>1, <2>2, <2>3, <2>4, ZenonT(30) DEF NothingVanishes, Live
<1>2. CASE i \notin accepted
  <2>1. PICK c \in Clients : AddToQueue(c)
    BY <1>2, Zenon DEF LossShape, AcceptShape
  <2>2. i = args[c].timestamp /\ zset' = ZAdd(zset, packData(args[c])) /\ c \in Agents
    BY <1>2, <2>1, Zenon DEF AddToQueue, Agents
  <2>3. \E z \in zset' : unpackData(z).timestamp = i
    BY <2>2, AddedIsQueued
  <2>. QED  BY <2>3 DEF Live, Queued
<1>. QED  BY <1>1, <1>2

(***************************************************************************)
(* No accepted item disappears without a trace: whatever fails, is         *)
(* cancelled or restarted, it is in the sorted set, with an agent, or one  *)
(* of the ways to give it up was taken.                                    *)
(***************************************************************************)
THEOREM AcceptedDoNotVanish == Spec => []NothingVanishes
<1>1. Init => ClientsApart /\ NothingVanishes
  BY DEF Init, ClientsApart, NothingVanishes, Holding, Pushing, Agents
<1>2. /\ TypeOK /\ TypeOK' /\ CopiesInRange /\ ClientsApart /\ NothingVanishes /\ [Next]_vars
      => ClientsApart' /\ NothingVanishes'
  BY StepShape, StepLosses, ClientsStep, VanishStep
<1>. QED  BY <1>1, <1>2, TypeCorrect, RangeInvariant, PTL DEF Spec

-----------------------------------------------------------------------------
\* What a reason rests on only grows: the requests are kept, the simulations
\* are counted up, and peak never falls.
LEMMA GroundsStay ==
  ASSUME TypeOK, TypeOK', CopiesInRange, Shape, LossShape, peak >= currentBlock
  PROVE  /\ pushes' >= pushes
         /\ \A i \in Ids : i <= pushes => asked'[i] = asked[i]
         /\ \A i \in Ids : sims'[i] >= sims[i]
         /\ repliesLost => repliesLost'
         /\ peak' >= peak /\ peak' >= currentBlock'
<1>0. pushes \in Nat /\ peak \in Nat /\ currentBlock \in Nat /\ sims \in [Ids -> Nat]
  BY SMT, SMTT(30) DEF TypeOK
<1>1. \/ asked' = asked /\ pushes' = pushes
      \/ \E x : pushes' = pushes + 1 /\ asked' = [asked EXCEPT ![pushes + 1] = x]
  BY Zenon DEF Shape, Quiet, Puts, Submits, Takes, Rewrites, Finishes, SameRequests
<1>2. sims' = sims \/ \E j : sims' = [sims EXCEPT ![j] = @ + 1]
  BY Zenon DEF Shape, Quiet, Puts, Submits, Takes, Rewrites, Finishes
<1>3. repliesLost => repliesLost'
  BY Zenon DEF Shape, Quiet, Puts, Submits, Takes, Rewrites, Finishes, SameLosses
<1>4. \A i \in Ids : sims'[i] >= sims[i]
  BY <1>0, <1>2, SMT, SMTT(30)
<1>5. pushes' >= pushes /\ \A i \in Ids : i <= pushes => asked'[i] = asked[i]
  <2>1. asked \in [Ids -> Nat \X Nat] /\ \A i \in Ids : i \in Nat
    BY SMT, SMTT(30) DEF TypeOK, Ids
  <2>. QED  BY <1>0, <1>1, <2>1, SMT, Zenon, SMTT(30)
<1>6. peak' >= peak /\ peak' >= currentBlock'
  <2>1. ASSUME NEW b \in Blocks, UpdateBlock(b) PROVE peak' >= peak /\ peak' >= currentBlock'
    BY <1>0, <2>1, SMT, Zenon, SMTT(30) DEF UpdateBlock, Blocks
  <2>2. CASE Restart
    BY <1>0, <2>2, SMT, SMTT(30) DEF Restart
  <2>. QED  BY <1>0, <2>1, <2>2, SMT, SMTT(30) DEF LossShape, BlockShape
<1>. QED  BY <1>3, <1>4, <1>5, <1>6, ZenonT(30)

\* A reason that is given in a step holds after it.
LEMMA NewReason ==
  ASSUME TypeOK, TypeOK', CopiesInRange, Counted, NotEarly, Shape, LossShape,
         peak >= currentBlock, NEW i \in Ids, NEW why \in dropped'[i], why \notin dropped[i]
  PROVE  i <= pushes /\ Reason(i, why)'
<1>0. dropped \in [Ids -> SUBSET Reasons]
  BY DEF TypeOK
<1>1. ASSUME NEW w \in Workers, NEW y \in Reasons, WorkerGives(w, y)
      PROVE  i <= pushes /\ Reason(i, why)'
  <2>. DEFINE j == args[w].timestamp
  <2>0. w \in Agents /\ args[w] \in PackArgs /\ Holding(w)
    BY <1>1, Zenon DEF Agents, TypeOK, WorkerGives
  <2>1. InRange(args[w])
    BY <2>0 DEF CopiesInRange
  <2>2. /\ j \in Ids /\ j < pushes + 1 /\ asked[j][2] = args[w].maxTargetBlock
        /\ args[w].maxTargetBlock \in Nat /\ args[w].minTargetBlock \in Nat
        /\ args[w].iteration \in Nat /\ MaxRetries \in Nat
        /\ peak \in Nat /\ currentBlock \in Nat /\ sims[j] \in Nat /\ pushes \in Nat
    <3>1. j \in Ids /\ j < pushes + 1
      BY <2>0, <2>1, InRangeId, Zenon
    <3>2. asked[j][2] = args[w].maxTargetBlock
      BY <2>1, Zenon DEF InRange
    <3>3. /\ args[w].maxTargetBlock \in Nat /\ args[w].minTargetBlock \in Nat
          /\ args[w].iteration \in Nat /\ MaxRetries \in Nat
      BY <2>0, ConstantsAssumption, SMT, Zenon, SMTT(30) DEF PackArgs, ConstantsAssumption
    <3>4. peak \in Nat /\ currentBlock \in Nat /\ sims[j] \in Nat /\ pushes \in Nat
      BY <3>1, SMT, SMTT(30) DEF TypeOK
    <3>. QED  BY <3>1, <3>2, <3>3, <3>4, Zenon
  <2>3. dropped' = [dropped EXCEPT ![j] = @ \cup {y}] /\ peak' = peak /\ asked' = asked
    BY <1>1, Zenon DEF WorkerGives, Gives
  <2>4. i = j /\ why = y
    BY <1>0, <2>2, <2>3, Zenon
  <2>5. sims'[j] >= sims[j] /\ (repliesLost => repliesLost')
    BY <2>2, GroundsStay, Zenon
  <2>6. why = "stale" => currentBlock + 1 > args[w].maxTargetBlock
    BY <1>1, <2>4, Zenon DEF WorkerGives
  <2>7. why = "noNextBlock" => /\ args[w].minTargetBlock >= args[w].maxTargetBlock
                               /\ args[w].minTargetBlock <= currentBlock + 1
                               /\ sims' = [sims EXCEPT ![j] = @ + 1]
    BY <1>1, <2>4, ZenonT(30) DEF WorkerGives, NotEarly
  <2>8. why = "noNextBlock" => sims'[j] > 0
    BY <2>2, <2>7, SMTT(30), SMTT(60) DEF TypeOK
  <2>9. why = "maxRetries" => repliesLost \/ sims[j] >= MaxRetries
    BY <1>1, <2>0, <2>4, Zenon DEF WorkerGives, Counted
  <2>10. sims'[j] \in Nat
    BY <2>2, Zenon DEF TypeOK
  <2>11. asked'[i][2] = args[w].maxTargetBlock /\ peak' = peak
    BY <2>2, <2>3, <2>4, Zenon
  <2>12. ASSUME why = "stale" PROVE peak' >= asked'[i][2]
    <3>1. currentBlock + 1 > args[w].maxTargetBlock
      BY <2>6, <2>12, Zenon
    <3>2. /\ peak \in Nat /\ currentBlock \in Nat /\ peak >= currentBlock
          /\ args[w].maxTargetBlock \in Nat
      BY <2>2, Zenon
    <3>3. peak >= args[w].maxTargetBlock
      BY <3>1, <3>2, SMT, SMTT(30)
    <3>. QED  BY <2>11, <3>3, Zenon
  <2>13. ASSUME why = "noNextBlock" PROVE peak' + 1 >= asked'[i][2] /\ sims'[i] > 0
    <3>1. /\ args[w].minTargetBlock >= args[w].maxTargetBlock
          /\ args[w].minTargetBlock <= currentBlock + 1
      BY <2>7, <2>13, Zenon
    <3>2. /\ peak \in Nat /\ currentBlock \in Nat /\ peak >= currentBlock
          /\ args[w].maxTargetBlock \in Nat /\ args[w].minTargetBlock \in Nat
      BY <2>2, Zenon
    <3>3. peak + 1 >= args[w].maxTargetBlock
      BY <3>1, <3>2, SMT, Zenon, SMTT(30)
    <3>. QED  BY <2>4, <2>8, <2>11, <2>13, <3>3, Zenon
  <2>14. ASSUME why = "maxRetries" PROVE repliesLost' \/ sims'[i] >= MaxRetries
    <3>. SUFFICES ASSUME ~repliesLost' PROVE sims'[j] >= MaxRetries
      BY <2>4, Zenon
    <3>1. sims[j] >= MaxRetries /\ sims'[j] >= sims[j]
      BY <2>5, <2>9, <2>14, Zenon
    <3>2. sims[j] \in Nat /\ sims'[j] \in Nat /\ MaxRetries \in Nat
      BY <2>2, <2>10, Zenon
    <3>. QED  BY <3>1, <3>2, SMT, SMTT(30)
  <2>15. i <= pushes
    <3>1. i < pushes + 1 /\ pushes \in Nat
      BY <2>2, <2>4, Zenon
    <3>2. i \in Int
      BY SMT, SMTT(30) DEF Ids
    <3>. QED  BY <3>1, <3>2, SMT, SMTT(30)
  <2>. QED  BY <2>12, <2>13, <2>14, <2>15, Zenon DEF Reason
<1>2. CASE PopLoses
  <2>1. PICK z \in zset : Gives(unpackData(z).timestamp, "popReplyLost")
    BY <1>2, Zenon DEF PopLoses
  <2>2. why = "popReplyLost" /\ i = unpackData(z).timestamp
    BY <1>0, <2>1 DEF Gives
  <2>3. i < pushes + 1 /\ i \in Nat /\ pushes \in Nat
    <3>1. z \in Entries /\ pushes \in Nat
      BY SMT, SMTT(30) DEF TypeOK
    <3>2. unpackData(z) \in PackArgs /\ InRange(unpackData(z))
      BY <3>1, UnpackType, Zenon DEF CopiesInRange
    <3>3. i < pushes + 1
      BY <2>2, <3>2, InRangeId, Zenon
    <3>. QED  BY <3>1, <3>3, SMT, SMTT(30) DEF Ids
  <2>. QED  BY <2>2, <2>3, SMT, SMTT(30) DEF Reason
<1>3. CASE Restart
  <2>1. PICK w \in Workers : Holding(w) /\ args[w].timestamp = i /\ why = "crash"
    BY <1>3 DEF Restart
  <2>2. i < pushes + 1 /\ i \in Nat /\ pushes \in Nat
    <3>1. w \in Agents /\ args[w] \in PackArgs /\ pushes \in Nat
      BY SMT, SMTT(30) DEF TypeOK, Agents
    <3>2. i < pushes + 1
      BY <2>1, <3>1, InRangeId, Zenon DEF CopiesInRange
    <3>. QED  BY <3>1, <3>2, SMT, SMTT(30) DEF Ids
  <2>. QED  BY <2>1, <2>2, SMTT(30), SMTT(60) DEF Reason
<1>. QED  BY <1>1, <1>2, <1>3, Zenon DEF LossShape, DropShape

\* Both together keep the reasons true.
LEMMA DropStep ==
  ASSUME TypeOK, TypeOK', CopiesInRange, Counted, NotEarly, DropInv, Shape, LossShape
  PROVE  DropInv'
<1>0. /\ pushes' >= pushes
      /\ \A i \in Ids : i <= pushes => asked'[i] = asked[i]
      /\ \A i \in Ids : sims'[i] >= sims[i]
      /\ repliesLost => repliesLost'
      /\ peak' >= peak /\ peak' >= currentBlock'
  BY GroundsStay, Zenon DEF DropInv
<1>1. /\ pushes \in Nat /\ pushes' \in Nat /\ peak \in Nat /\ peak' \in Nat
      /\ MaxRetries \in Nat
      /\ \A i \in Ids : /\ i \in Nat /\ sims[i] \in Nat /\ sims'[i] \in Nat
                        /\ asked[i][2] \in Nat
  BY ConstantsAssumption, SMT, SMTT(30) DEF ConstantsAssumption, TypeOK, Ids
<1>2. ASSUME NEW i \in Ids, NEW why \in dropped'[i] PROVE i <= pushes' /\ Reason(i, why)'
  <2>1. CASE why \in dropped[i]
    <3>1. i <= pushes /\ Reason(i, why)
      BY <1>2, <2>1, Zenon DEF DropInv
    <3>2. /\ i \in Nat /\ sims[i] \in Nat /\ sims'[i] \in Nat /\ asked[i][2] \in Nat
          /\ asked'[i] = asked[i] /\ sims'[i] >= sims[i]
      BY <1>0, <1>1, <1>2, <3>1, Zenon
    <3>. QED  BY <1>0, <1>1, <3>1, <3>2, SMT, SMTT(30) DEF Reason
  <2>2. CASE why \notin dropped[i]
    <3>1. peak >= currentBlock
      BY Zenon DEF DropInv
    <3>2. i <= pushes /\ Reason(i, why)'
      BY <1>2, <2>2, <3>1, NewReason, Zenon
    <3>3. i \in Nat /\ pushes \in Nat /\ pushes' \in Nat /\ pushes' >= pushes
      BY <1>0, <1>1, Zenon
    <3>4. i <= pushes'
      BY <3>2, <3>3, SMT, SMTT(30)
    <3>. QED  BY <3>2, <3>4, Zenon
  <2>. QED  BY <2>1, <2>2, Zenon
<1>. QED  BY <1>0, <1>2 DEF DropInv

(***************************************************************************)
(* The queue gives an item up only for a reason that holds: as stale when  *)
(* the last block of its range is there, for lack of a next block when the *)
(* last one was tried, for its retries when it was simulated MaxRetries    *)
(* times.                                                                  *)
(***************************************************************************)
THEOREM DropsHaveGrounds == Spec => []DropsJustified
<1>1. Init => DropInv
  BY SMT, SMTT(30) DEF Init, DropInv
<1>2. /\ TypeOK /\ TypeOK' /\ CopiesInRange /\ Counted /\ NotEarly /\ DropInv /\ [Next]_vars
      => DropInv'
  BY StepShape, StepLosses, DropStep, SMT, Zenon, SMTT(30)
<1>3. DropInv => DropsJustified
  BY DEF DropInv, DropsJustified, Reason
<1>4. Spec => []DropInv
  BY <1>1, <1>2, TypeCorrect, RangeInvariant, CountInvariant, NotEarlyInvariant, PTL DEF Spec
<1>. QED  BY <1>3, <1>4, PTL
=============================================================================
