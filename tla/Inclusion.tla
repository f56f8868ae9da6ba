------------------------------ MODULE Inclusion -----------------------------
(***************************************************************************)
(* The blocks for which a bundle may be included, block .. maxBlock, and   *)
(* MergeInclusionIntervals of mevshare/bundle_validation.go, which narrows *)
(* the blocks of a bundle to those of a bundle it contains.                *)
(***************************************************************************)
EXTENDS Integers

Overlap(a, b) == ~(a.maxBlock < b.block \/ b.maxBlock < a.block)

\* The new inclusion of a, which may have other fields; b overlaps with it.
MergeInclusion_KeepsMax(a, b) == [a EXCEPT !.block = IF @ < b.block THEN b.block ELSE @]
MergeInclusion(a, b) ==
  [a EXCEPT !.block    = IF @ < b.block THEN b.block ELSE @,
            !.maxBlock = IF @ > b.maxBlock THEN b.maxBlock ELSE @]

\* The blocks of an inclusion as a set.
BlocksOf(a) == a.block .. a.maxBlock
=============================================================================
