-------------------------------- MODULE Utils -------------------------------
(***************************************************************************)
(* Pure functions of mevshare/utils.go.                                    *)
(***************************************************************************)
EXTENDS Integers, Sequences, SequencesExt

\* Intersect: the elements of b that are in a, in the order of b.
Intersect(a, b) == SelectSeq(b, LAMBDA v : v \in ToSet(a))

\* The number of decimal digits of n < 10^5, and powers of ten.
NumDigits(n) == CHOOSE d \in 1 .. 5 : n < 10 ^ d /\ (d = 1 \/ n >= 10 ^ (d - 1))

RoundUpWithPrecision(n, digits) ==
  LET power == 10 ^ (NumDigits(n) - digits)
      div == n \div power
  IN  IF NumDigits(n) <= digits THEN n
      ELSE (IF div * power # n THEN div + 1 ELSE div) * power
=============================================================================
