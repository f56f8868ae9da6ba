--------------------------- MODULE SimQueueLimits ---------------------------
(***************************************************************************)
(* The limits of simqueue/queue.go on the number of queued items, which    *)
(* pushToQueue compares with counts taken a few steps before it adds the   *)
(* item.  The history variable width is the highest number of clients and  *)
(* workers that have been in pushToQueue at the same time.                 *)
(***************************************************************************)
EXTENDS SimQueue

VARIABLE width

InPush == {a \in Agents : pc[a] \in Pushing}

LimitInit == Init /\ width = 0

LimitNext ==
  /\ Next
  /\ width' = IF Cardinality(InPush') > width THEN Cardinality(InPush') ELSE width

LimitSpec == LimitInit /\ [][LimitNext]_<<vars, width>>

-----------------------------------------------------------------------------
\* The entries for blocks after the next one, and the higher of their two limits.
Unprocessable == {z \in zset : z.score > currentBlock + 1}

MaxUnprocessable ==
  IF MaxQueuedUnprocessableItemsLowPrio < MaxQueuedUnprocessableItemsHighPrio
    THEN MaxQueuedUnprocessableItemsHighPrio ELSE MaxQueuedUnprocessableItemsLowPrio

(***************************************************************************)
(* The limit on items for later blocks is compared with a count that may   *)
(* be old when the item is added: others may have added theirs, and a      *)
(* block may have come.  It is exceeded all the same by less than the      *)
(* number of clients and workers that ever pushed at the same time,        *)
(* however often they do, and not at all by one after the other.           *)
(***************************************************************************)
LimitExceededByRacesOnly ==
  crashes = 0 /\ ~repliesLost /\ Unprocessable # {} =>
    Cardinality(Unprocessable) < MaxUnprocessable + width
=============================================================================
