--------------------------- MODULE SimQueueItems ---------------------------
(***************************************************************************)
(* SimQueue implements ItemQueue: where an item of the queue is, read off  *)
(* the sorted set, the clients and the workers.                            *)
(***************************************************************************)
EXTENDS SimQueue

\* The place and the target of an item, given who holds it and its entries.
PlaceOf(i, holders, entries) ==
  CASE holders \cap Clients # {} -> "offered"
    [] holders \cap Clients = {} /\ holders # {} ->
         IF \E w \in holders : pc[w] = "process" THEN "running" ELSE "held"
    [] holders = {} /\ entries # {} -> "waiting"
    [] holders = {} /\ entries = {} -> IF i > pushes THEN "new" ELSE "gone"

TargetOf(holders, entries) ==
  CASE holders # {} -> args[CHOOSE a \in holders : TRUE].minTargetBlock
    [] holders = {} /\ entries # {} -> (CHOOSE z \in entries : TRUE).score
    [] holders = {} /\ entries = {} -> 0

ItemOf(i, holders, entries) ==
  [place |-> PlaceOf(i, holders, entries), target |-> TargetOf(holders, entries),
   last |-> asked[i][2], runs |-> sims[i]]

Items == [i \in Ids |-> ItemOf(i, Holders(i), Queued(i))]

Promise == INSTANCE ItemQueue WITH
  MaxRuns <- MaxRetries + 1, block <- currentBlock, item <- Items

(***************************************************************************)
(* The queue keeps its promise, with all its clients, workers and blocks   *)
(* interleaved, as long as no reply to a ZADD is lost.  MaxRuns is         *)
(* MaxRetries + 1, one more than the comment on MaxRetries in queue.go     *)
(* allows (SimsWithinMaxRetries).                                          *)
(***************************************************************************)
ImplementsItemQueue == Promise!Spec
=============================================================================
