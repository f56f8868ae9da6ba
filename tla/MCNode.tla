------------------------------- MODULE MCNode -------------------------------
(* Node for TLC: the requests of each run. *)
EXTENDS Node, TLC

Symmetry == Permutations(Workers)

Bundle(h, from, to) ==
  [hash |-> h, block |-> from, maxBlock |-> to, uuid |-> "", match |-> "", hint |-> TRUE,
   zeroFee |-> FALSE, delayed |-> FALSE]

\* A bundle, the same for the next block, a backrun that may also wait a block
\* longer, and versions of a replaceable bundle: a first one for one or for two
\* blocks, and a second one for the later block.
Requests ==
  [a |-> Bundle("A", 2, 2),
   b |-> Bundle("A", 3, 3),
   c |-> [Bundle("C", 2, 3) EXCEPT !.match = "A", !.hint = FALSE],
   d |-> [Bundle("D", 2, 3) EXCEPT !.uuid = "u", !.hint = FALSE],
   e |-> [Bundle("E", 3, 3) EXCEPT !.uuid = "u", !.hint = FALSE],
   f |-> [Bundle("D", 2, 2) EXCEPT !.uuid = "u", !.hint = FALSE]]

Scenario(requests, cancellable, maxFaults, maxCrashes) ==
  [requests |-> requests, cancellable |-> cancellable, faults |-> maxFaults, crashes |-> maxCrashes]

MatchRequests == [a |-> [Requests["a"] EXCEPT !.delayed = TRUE], c |-> Requests["c"]]
Matching == {Scenario({"a", "c"}, {"A"}, 1, 1)}
Submitting == {Scenario({"a", "b"}, {"A"}, 2, 1), Scenario({"d", "e"}, {}, 0, 0),
               Scenario({"f", "e"}, {}, 1, 0)}

\* One bundle that can be replaced.
OneReplaceable == [a |-> [Bundle("A", 2, 3) EXCEPT !.uuid = "u"]]
One == {Scenario({"a"}, {}, 0, 0)}
=============================================================================
