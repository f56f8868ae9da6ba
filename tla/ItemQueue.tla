----------------------------- MODULE ItemQueue -----------------------------
(***************************************************************************)
(* What the simulation queue promises its users, without Redis, packing,   *)
(* counting or goroutines: an item is in one place at a time, is simulated *)
(* when the block before its target is the latest one, moves only to later *)
(* blocks of its range, is simulated at most MaxRuns times at its own      *)
(* cost, and never comes back once it is gone.                             *)
(***************************************************************************)
EXTENDS Integers

CONSTANTS Ids, MaxRuns

VARIABLES
  block,    \* the latest block the queue has been told
  item      \* for each id where it is, its target block, its last block and its runs

vars == <<block, item>>

Init ==
  /\ block = 0
  /\ item = [i \in Ids |-> [place |-> "new", target |-> 0, last |-> 0, runs |-> 0]]

\* Item i goes from one of some places to another.
Moves(i, from, to) == item[i].place \in from /\ item'[i].place = to

\* What does not change while an item stays in the queue.
SameRange(i) == item'[i].last = item[i].last
SameRuns(i)  == item'[i].runs = item[i].runs
Same(i) == SameRange(i) /\ SameRuns(i) /\ item'[i].target = item[i].target

\* One more run, or none: a simulation on a lagging node is free.
MoreRuns(i) == item'[i].runs \in {item[i].runs, item[i].runs + 1} /\ item'[i].runs <= MaxRuns

\* Push is called for a block that is still to come, and succeeds or fails.
Offer(i) ==
  /\ Moves(i, {"new"}, "offered")
  /\ block < item'[i].target /\ item'[i].target <= item'[i].last
  /\ item'[i].runs = 0

Accept(i) == Moves(i, {"offered"}, "waiting") /\ Same(i)
Refuse(i) == Moves(i, {"offered"}, "gone") /\ SameRange(i) /\ SameRuns(i)

\* A worker takes an item, and simulates it if it is due.
Claim(i) == Moves(i, {"waiting"}, "held") /\ Same(i)
Start(i) == item[i].target = block + 1 /\ Moves(i, {"held"}, "running") /\ Same(i)

\* The simulation returns, or the item is not due: it is to be put back.
Reschedule(i) ==
  /\ \/ Moves(i, {"held"}, "held") /\ SameRuns(i)
     \/ Moves(i, {"running"}, "held") /\ MoreRuns(i)
  /\ item'[i].target \in item[i].target .. item[i].last
  /\ SameRange(i)

Return(i) == Moves(i, {"held"}, "waiting") /\ Same(i)

\* The item leaves the queue for good.
GiveUp(i) ==
  /\ \/ Moves(i, {"held"}, "gone") /\ SameRuns(i)
     \/ Moves(i, {"running"}, "gone") /\ MoreRuns(i)
  /\ SameRange(i)

\* The reply with an item that a worker takes is lost.
Lose(i) == Moves(i, {"waiting"}, "gone") /\ SameRange(i) /\ SameRuns(i)

NewBlock == block' > block /\ UNCHANGED item

\* The process is restarted: what waits is left, and the block is forgotten.
Crash ==
  /\ block' = 0
  /\ \A i \in Ids :
       IF item[i].place \in {"offered", "held", "running"}
         THEN item'[i].place = "gone" /\ SameRange(i) /\ SameRuns(i)
         ELSE item'[i] = item[i]

\* A step changes one item and leaves the others alone.
Step(i) ==
  /\ UNCHANGED block
  /\ item'[i] # item[i] /\ \A j \in Ids \ {i} : item'[j] = item[j]
  /\ \/ Offer(i) \/ Accept(i) \/ Refuse(i) \/ Claim(i) \/ Start(i)
     \/ Reschedule(i) \/ Return(i) \/ GiveUp(i) \/ Lose(i)

Next == (\E i \in Ids : Step(i)) \/ NewBlock \/ Crash

Spec == Init /\ [][Next]_vars
=============================================================================
