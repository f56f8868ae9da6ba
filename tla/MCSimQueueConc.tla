--------------------------- MODULE MCSimQueueConc ---------------------------
(* SimQueue for TLC, with its limits and the promise it implements. *)
EXTENDS SimQueueItems, SimQueueLimits, TLC

Symmetry == Permutations(Clients) \cup Permutations(Workers)
=============================================================================
