------------------------------ MODULE Outgoing ------------------------------
(***************************************************************************)
(* What a bundle becomes when it leaves the node: the form in which it is  *)
(* simulated (mevshare/backend.go) and the form in which it is sent to     *)
(* builders with the refund recipient API (mevshare/refund_recipient.go).  *)
(***************************************************************************)
EXTENDS Bundle

Failed == [ok |-> FALSE]

-----------------------------------------------------------------------------
\* An element of the simulated bundle has no hash and no revert mode.
Simulated(el, mayRevert) ==
  [fields |-> el.fields \ {"hash"}, tx |-> el.tx, canRevert |-> "tx" \in el.fields /\ mayRevert]

SimulatedElement_AsValidated(el) == Simulated(el, el.canRevert)
SimulatedElement(el) == Simulated(el, el.revertMode = "drop" \/ el.canRevert)

\* The recursion comes to every bundle.
replaceRevertModeForSimulation(tree) ==
  [p \in DOMAIN tree |->
     [tree[p] EXCEPT !.body = [i \in DOMAIN tree[p].body |-> SimulatedElement(tree[p].body[i])]]]

-----------------------------------------------------------------------------
(***************************************************************************)
(* By the time a bundle is converted, cleanBundle has taken its metadata.  *)
(* What SendBundle puts back for internal builders has no body hashes, so  *)
(* a transaction that may revert is always an error.  The recursion comes  *)
(* to a bundle that is not beside a transaction, and to the transactions   *)
(* in the order of their positions: their list is modelled as what is at   *)
(* each position.                                                          *)
(***************************************************************************)
Converted(tree) ==
  {p \in DOMAIN tree : \A q \in Around(p) \ {Top} : "tx" \notin tree[Front(q)].body[Last(q)].fields}

extractTxs(tree, maxDepth) ==
  LET Ok(el) == IF "tx" \in el.fields THEN ~el.canRevert ELSE "bundle" \in el.fields
      at == {pos \in TxPositions(tree) : pos[1] \in Converted(tree)}
  IN  IF \A p \in Converted(tree) :
           /\ Len(p) <= maxDepth
           /\ Len(p) > 0 => tree[p].refund = << >>
           /\ \A i \in DOMAIN tree[p].body : Ok(tree[p].body[i])
        THEN [ok |-> TRUE, txs |-> [pos \in at |-> TxAt(tree, pos).tx]]
        ELSE Failed

\* The percentage to refund, and to whom: without a recipient, to the sender
\* of the first transaction.
Refund(percent, recipient) == [ok |-> TRUE, refund |-> TRUE, percent |-> percent, recipient |-> recipient]
NoRefund == [ok |-> TRUE, refund |-> FALSE]
FirstSender == "first sender"

correctedPercent_OfBundle(config, percent) == percent
correctedPercent(config, percent) == (config.percent * percent) \div 100

\* What is refunded has the recipients of refundConfig, a transaction has none.
refundConfigOf(tree, idx) ==
  LET fields == tree[Top].body[idx + 1].fields
  IN  IF "bundle" \in fields /\ "tx" \notin fields THEN tree[<<idx + 1>>].refundConfig ELSE << >>

extractRefundData(tree) ==
  LET b       == tree[Top]
      percent == b.refund[1].percent
      idx     == b.refund[1].bodyIdx
      config  == refundConfigOf(tree, idx)
  IN  IF b.refund = << >> THEN NoRefund
      ELSE IF \/ Len(b.refund) > 1
              \/ idx >= Len(b.body) \/ b.body[idx + 1].fields \cap {"tx", "bundle"} = {}
              \/ Len(config) > 1
              \/ config = << >> /\ idx # 0
        THEN Failed
      ELSE IF config = << >> THEN Refund(percent, FirstSender)
      ELSE Refund(correctedPercent(config[1], percent), config[1].address)

ConvertBundleToRefundRecipient(tree, maxDepth) ==
  LET extracted == extractTxs(tree, maxDepth)
      data == extractRefundData(tree)
  IN  IF extracted.ok /\ data.ok THEN [ok |-> TRUE, txs |-> extracted.txs, data |-> data] ELSE Failed
=============================================================================
