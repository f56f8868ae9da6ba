---------------------------- MODULE MCSimQueue ----------------------------
(* SimQueue for TLC. *)
EXTENDS SimQueue, TLC

NormalOutcomes == {"ok", "workerError", "lagging"}
=============================================================================
