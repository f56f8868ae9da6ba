---------------------------- MODULE MCValidation ----------------------------
(***************************************************************************)
(* Validation for TLC: bundles with up to two elements, of which nested    *)
(* ones have one, for blocks around the current one; bundles that the      *)
(* constraints on refunds, hints and revert modes tell apart; and bundles  *)
(* with another beside a transaction or a hash.                            *)
(***************************************************************************)
EXTENDS BundlePath, Utils, TLC

Private(hints, builders) ==
  [set |-> TRUE, hints |-> hints, builders |-> builders, wantRefund |-> 90]
NoPrivacy == [set |-> FALSE, hints |-> {}, builders |-> {}, wantRefund |-> 0]

Tx(t, mode, canRevert) ==
  [fields |-> {"tx"}, tx |-> t, parses |-> TRUE, canRevert |-> canRevert, revertMode |-> mode]
TxEl          == Tx("t1", NoMode, FALSE)
HashEl        == [TxEl EXCEPT !.fields = {"hash"}]
HashTxEl      == [TxEl EXCEPT !.fields = {"hash", "tx"}]
EmptyEl       == [TxEl EXCEPT !.fields = {}]
Beside(el, b) == [el EXCEPT !.fields = @ \cup {"bundle"}] @@ [bundle |-> b]
BundleEl(b)   == Beside(EmptyEl, b)

Bundle0(block, maxBlock, body, privacy) ==
  [version |-> "v0.1", block |-> block, maxBlock |-> maxBlock, body |-> body,
   refund |-> << >>, refundConfig |-> << >>, privacy |-> privacy]

\* The bundles are written with their elements inside, and then taken apart.
RECURSIVE Flat(_)
Flat(b) ==
  LET inner == [i \in With(b, "bundle") |-> Flat(b.body[i].bundle)]
      own == [b EXCEPT !.body = [i \in DOMAIN @ |-> [field \in DOMAIN TxEl |-> @[i][field]]]]
      paths == UNION {{<<i>> \o p : p \in DOMAIN inner[i]} : i \in DOMAIN inner}
  IN  [p \in {Top} \cup paths |-> IF p = Top THEN own ELSE inner[Head(p)][Tail(p)]]

Intervals == {<<2, 0>>, <<2, 3>>, <<3, 0>>, <<3, 4>>, <<4, 0>>, <<4, 5>>, <<3, 5>>, <<4, 3>>, <<5, 6>>}
BuilderSets == {{"x"}, {"x", "y"}}

Inner(bodies) ==
  {Bundle0(iv[1], iv[2], body, p) :
     iv \in Intervals, body \in bodies, p \in {NoPrivacy} \cup {Private({}, l) : l \in BuilderSets}}

Elements ==
  {HashEl, HashTxEl, EmptyEl, TxEl, Beside(TxEl, Bundle0(7, 9, <<HashEl>>, NoPrivacy))}
    \cup {BundleEl(b) : b \in Inner({<<TxEl>>})}
    \cup {BundleEl(Bundle0(3, 4, body, NoPrivacy)) :
            body \in {<< >>, <<HashEl, TxEl>>, <<BundleEl(Bundle0(3, 4, <<TxEl>>, NoPrivacy))>>}}

Bodies == {<< >>} \cup {<<e>> : e \in Elements} \cup {<<e, f>> : e, f \in Elements}

Nesting ==
  {Bundle0(iv[1], iv[2], body, p) :
     iv \in Intervals, body \in Bodies, p \in {NoPrivacy, Private({}, {"x", "y"}), Private({"logs"}, {"x"})}}

Refunds == {<< >>} \cup {<<[bodyIdx |-> i, percent |-> p]>> : i \in -1 .. 2, p \in {-1, 60, 100, 101}}
                   \cup {<<[bodyIdx |-> 0, percent |-> p], [bodyIdx |-> i, percent |-> 60]>> :
                           i \in 0 .. 1, p \in {40, 41}}

Constrained ==
  {[Bundle0(3, 4, body, p) EXCEPT !.refund = r, !.refundConfig = c, !.version = v] :
     body \in {<<TxEl, [TxEl EXCEPT !.revertMode = m]>> : m \in {NoMode, "allow", "other"}} \cup {<<HashEl, TxEl>>},
     p \in {NoPrivacy, Private({"logs"}, {}), [Private({}, {}) EXCEPT !.wantRefund = 101]},
     r \in Refunds, c \in {[i \in DOMAIN r |-> [address |-> "r1", percent |-> r[i].percent]] : r \in Refunds}, v \in {"v0.1", "v2"}}

\* Bundles with a transaction, behind or before a nested bundle with another,
\* for all ways to share and to fail, and for all refunds of one or two of them.
Asks(names) == LET hints == UnmarshalJSON(names).flags IN Private(hints, {})
Sharing ==
  {NoPrivacy} \cup {Asks(names) : names \in {{}, {"hash"}, {"default_logs", "tx_hash"}, {"logs", "special_logs"},
                                            {"calldata"}, {"function_selector", "logs"}, {"contract_address"}}}
Bodies2(first, inner) ==
  LET el == BundleEl(inner) IN {<<first, el>>, <<el, first>>}

Shared ==
  UNION {{Bundle0(3, 4, body, p) : body \in Bodies2(Tx("t1", NoMode, FALSE), Bundle0(3, 4, <<Tx("t2", NoMode, FALSE)>>, q))} :
           p \in Sharing, q \in Sharing}

ModeChoices == {<<NoMode, FALSE>>, <<NoMode, TRUE>>, <<"drop", FALSE>>, <<"allow", FALSE>>, <<"fail", TRUE>>}
Failing ==
  UNION {{Bundle0(3, 4, body, NoPrivacy) :
            body \in Bodies2(Tx("t1", m[1], m[2]), Bundle0(3, 4, <<Tx("t2", n[1], n[2])>>, NoPrivacy))} :
           m \in ModeChoices, n \in ModeChoices}

Configs == {<< >>, <<[address |-> "r1", percent |-> 90]>>, <<[address |-> "r1", percent |-> 33]>>,
            <<[address |-> "r1", percent |-> 50], [address |-> "r2", percent |-> 50]>>}
Refunding ==
  UNION {{[Bundle0(3, 4, body, NoPrivacy) EXCEPT !.refund = r] :
            body \in Bodies2(Tx("t1", NoMode, FALSE),
                             [Bundle0(3, 4, <<Tx("t2", NoMode, FALSE)>>, NoPrivacy) EXCEPT !.refundConfig = c, !.refund = s])} :
           r \in Refunds, s \in {<< >>, <<[bodyIdx |-> 0, percent |-> 5]>>}, c \in Configs}

\* Bundles with as many transactions as allowed, and with one more.
Sized ==
  {Bundle0(3, 4, body, NoPrivacy) :
     body \in UNION {Bodies2(el, Bundle0(3, 4, <<TxEl, TxEl>>, NoPrivacy)) : el \in {TxEl, EmptyEl}}}

\* Bundles beside a transaction or a hash, at the first and the second level.
Bodies3(el) == {<<el>>, <<el, TxEl>>, <<TxEl, BundleEl(Bundle0(3, 4, <<el>>, Private({"hash"}, {"x", "y"})))>>}
KeptBodies == {<< >>, <<HashEl, Tx("t2", "drop", FALSE)>>, <<HashTxEl>>,
               <<Tx("t2", "allow", FALSE), BundleEl(Bundle0(0, 0, <<Tx("t2", NoMode, TRUE)>>, Private({"hash", "logs"}, {"y"})))>>,
               <<[TxEl EXCEPT !.parses = FALSE, !.revertMode = "other"]>>}
Keeping ==
  UNION {{[Bundle0(3, 4, body, p) EXCEPT !.refund = r] : body \in Bodies3(Beside(el, Bundle0(7, 2, kept, q)))} :
           r \in {<< >>, <<[bodyIdx |-> 0, percent |-> 60]>>},
           el \in {Tx("t1", "drop", FALSE), HashEl, HashTxEl}, kept \in KeptBodies,
           p \in {NoPrivacy, Private({}, {"x", "y"}), Private({"logs"}, {"x", "y"}), Private({"tx_hash"}, {"x"})},
           q \in {NoPrivacy, Private({"calldata"}, {"x"}), Private({"hash", "calldata"}, {"x", "y"}),
                  Private({"hash", "special_logs"}, {"y"})}}

AllInputs ==
  {{Flat(b) : b \in bundles} : bundles \in {Nesting, Constrained, Shared, Failing, Refunding, Sized, Keeping}}
KeepingInputs == {{Flat(b) : b \in Keeping}}

\* A swap, a swap in a pool of Balancer, a broken one, another event, no event.
Log(tx, topics) == [tx |-> tx, topics |-> topics, data |-> <<"data">>]
LogsOfTxs ==
  [tx \in {"t1", "t2"} |->
     {Log(tx, <<"uni2log", "from", "to">>), Log(tx, <<"balancerLog", "pool", "in", "out">>),
       Log(tx, <<"balancerLog">>), Log(tx, <<"transfer", "from">>), Log(tx, << >>)}]

-----------------------------------------------------------------------------
\* m has no more than d digits that are not trailing zeros.
Significant(m, d) == NumDigits(m) <= d \/ m % 10 ^ (NumDigits(m) - d) = 0

\* A number that is shared in a hint is rounded to the least number of so few
\* digits that is not below it, also where rounding adds a digit.
ASSUME RoundedToLeast ==
  \A number \in 0 .. 1200, digits \in 1 .. 3 :
    LET rounded == RoundUpWithPrecision(number, digits)
    IN  /\ rounded >= number /\ Significant(rounded, digits)
        /\ \A m \in number .. rounded - 1 : ~Significant(m, digits)
=============================================================================
