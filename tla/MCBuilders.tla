----------------------------- MODULE MCBuilders -----------------------------
(***************************************************************************)
(* Builders for TLC: configs of the builders, with calls for bundles of    *)
(* transactions that can be converted or not; and calls for bundles that   *)
(* contain another, validated or not.                                      *)
(***************************************************************************)
EXTENDS Builders, TLC

Call(replaceable, firstBlock, restricted, builders) ==
  [replaceable |-> replaceable, firstBlock |-> firstBlock, restricted |-> restricted,
   convertible |-> TRUE, fields |-> Fields, builders |-> builders, nested |-> NoBundle]

Lists == {<<"e1", "e2">>, <<"default", "e1", "e1">>, <<"e2", "unknown", "e2">>}

Plain ==
  [api : [Builders -> {"plain", "replacement"}], delay : [Builders -> BOOLEAN],
   call : {Call(r, f, s, l) : r, f, s \in BOOLEAN, l \in Lists}
          \cup {[Call(FALSE, FALSE, FALSE, << >>) EXCEPT !.fields = {"metadata"}]}]

Converting ==
  [api : [Builders -> {"refund-recipient", "replacement"}],
   delay : {[b \in Builders |-> b = "e2"]},
   call : {[Call(FALSE, f, FALSE, l) EXCEPT !.convertible = c] : f, c \in BOOLEAN, l \in Lists}]

Containing ==
  [api : {[b \in Builders |-> "plain"]}, delay : {[b \in Builders |-> b = "e2"]},
   call : {[Call(FALSE, TRUE, FALSE, l) EXCEPT
             !.nested = [fields |-> Fields, builders |-> m]] : l, m \in Lists}
          \cup {[Call(FALSE, FALSE, FALSE, << >>) EXCEPT
             !.nested = [fields |-> {"metadata"}, builders |-> << >>]]}]

AllSettings == Plain \cup Converting \cup Containing

\* A builder that is skipped on the first block.
Delaying ==
  {[api |-> [b \in Builders |-> "plain"], delay |-> [b \in Builders |-> b = "e2"],
    call |-> Call(FALSE, TRUE, FALSE, <<"e1", "e2">>)]}
=============================================================================
