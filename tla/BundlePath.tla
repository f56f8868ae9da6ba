----------------------------- MODULE BundlePath -----------------------------
(***************************************************************************)
(* What becomes of an accepted bundle: it is written to the queue as JSON, *)
(* read by a worker and simulated, a hint about it is published, and it is *)
(* converted for the builders.  The properties compare the outcome with    *)
(* the bundle as it was submitted.                                         *)
(***************************************************************************)
EXTENDS Validation, Hints, Outgoing

CONSTANT TxLogs   \* the logs the simulator reports for each transaction

ASSUME BundlePathAssumption ==
  /\ \A tx \in Txs : \A log \in TxLogs[tx] :
       log \in [tx : Txs, topics : Seq(STRING), data : Seq(STRING)]
  /\ FirstSender \notin Addresses

\* A bundle that has nothing to match and is queued as it was validated.
Queued == Accepted /\ ~unmatched[Top]

\* Of what JSON does to a bundle, the hints matter.
ThroughQueue(tree) ==
  [p \in DOMAIN tree |-> [tree[p] EXCEPT !.privacy.hints = UnmarshalJSON(MarshalJSON(@)).flags]]

\* cleanBundle, called for a copy of the bundle, has reached some bundles in it.
CleanNested(tree, cleaned) ==
  [p \in DOMAIN tree |-> IF p \in cleaned THEN [tree[p] EXCEPT !.privacy.set = FALSE] ELSE tree[p]]

\* The logs of a simulated bundle, as the simulator reports them.
BodyLogs(tree) ==
  [p \in DOMAIN tree |-> [i \in DOMAIN tree[p].body |->
     IF "tx" \in tree[p].body[i].fields THEN TxLogs[tree[p].body[i].tx] ELSE {}]]

-----------------------------------------------------------------------------
\* What the sender of a bundle asked to share: about the transactions of a
\* nested bundle what that one asks for, if those around it share anything.  A
\* bundle that is not validated must ask for the hash by itself.
Shares(p) ==
  \A q \in Around(p) :
    IF q \in Validated(input) THEN WantOf(input[q]) # {} ELSE "hash" \in WantOf(input[q])
Asked(pos) == IF Shares(pos[1]) THEN WantOf(input[pos[1]]) ELSE {}

\* The transactions that can be shared: not those beside a bundle.
Sharable == {pos \in TxPositions(input) : "bundle" \notin TxAt(input, pos).fields}

\* The fields of a transaction, and the hints of which one suffices to show it.
ShownBy == [contract_address  |-> {"contract_address", "function_selector", "calldata"},
            function_selector |-> {"function_selector", "calldata"},
            calldata          |-> {"calldata"},
            tx_hash           |-> {"tx_hash"}]
Shown(pos) == {f \in TxFields : Asked(pos) \cap ShownBy[f] # {}}

\* What may be seen of a log: all of it, or the pool of a swap and no more.
Pool(log) ==
  LET n == IF log.topics[1] = "balancerLog" THEN 2 ELSE 1
  IN  [tx |-> log.tx, data |-> << >>,
       topics |-> [i \in DOMAIN log.topics |-> IF i <= n THEN log.topics[i] ELSE Zero]]
ShownLogs(pos) ==
  LET logs == TxLogs[TxAt(input, pos).tx]
  IN  IF "logs" \in Asked(pos) THEN logs
      ELSE IF "special_logs" \in Asked(pos) THEN {Pool(log) : log \in {l \in logs : IsSpecial(l)}}
      ELSE {}

AskedTxs ==
  {[tx |-> TxAt(input, pos).tx, shows |-> Shown(pos)] : pos \in {x \in Sharable : Shown(x) # {}}}
AskedLogs == UNION {ShownLogs(pos) : pos \in Sharable}

(***************************************************************************)
(* The hint about a bundle shows exactly what its sender, and the sender   *)
(* of each bundle in it, asked to share about their own transactions.      *)
(* There is no hint about a bundle that shares nothing, for which the logs *)
(* of the simulator do not match a body that is shared, or that shows a    *)
(* transaction that does not parse, as there may be in a bundle that is    *)
(* not validated.  When the goroutine that sends the bundle has already    *)
(* cleaned bundles in it, the hint shows less, and never more.  In place   *)
(* of a transaction that has a bundle beside it, the hint shows that       *)
(* bundle, as far as that one asks for it.                                 *)
(***************************************************************************)
HintsWithinPrivacy ==
  Queued =>
    LET queued == ThroughQueue(bundle)
        logs == BodyLogs(queued)
        hint == ExtractHints(queued, logs)
        Late(cleaned) == ExtractHints(CleanNested(queued, cleaned), logs)
    IN  /\ hint.ok <=> Shares(Top) /\ \A pos \in Sharable : Shown(pos) # {} => TxAt(input, pos).parses
        /\ hint.ok => hint.txs = AskedTxs /\ hint.logs = AskedLogs
        /\ \A p \in DOMAIN input :
             Shares(p) /\ input[p].body # << >> => ~ExtractHints(queued, [logs EXCEPT ![p] = << >>]).ok
        /\ \A cleaned \in SUBSET (DOMAIN input \ {Top}) :
             /\ hint.ok => Late(cleaned).ok
             /\ Late(cleaned).ok => Late(cleaned).txs \subseteq AskedTxs /\ Late(cleaned).logs \subseteq AskedLogs

\* Whether the sender lets a transaction fail; revertMode overrides canRevert.
MayFail(el) == IF el.revertMode = NoMode THEN el.canRevert ELSE el.revertMode # "fail"

(***************************************************************************)
(* A bundle is simulated with all its transactions and bundles, each at    *)
(* its position at every level, and a transaction of a bundle that is      *)
(* validated may fail exactly when its sender says so: what validation     *)
(* writes into canRevert and what is replaced for the simulator agree.  In *)
(* a bundle beside a transaction, which goes to the simulator as well, of  *)
(* all revert modes only "drop" is obeyed.                                 *)
(***************************************************************************)
SimulatedAsAsked ==
  Queued =>
    LET sent == replaceRevertModeForSimulation(ThroughQueue(bundle))
    IN  /\ DOMAIN sent = DOMAIN input
        /\ \A p \in DOMAIN input :
             /\ DOMAIN sent[p].body = DOMAIN input[p].body
             /\ \A i \in DOMAIN input[p].body : sent[p].body[i].fields = input[p].body[i].fields \ {"hash"}
        /\ \A pos \in TxPositions(input) :
             LET el == TxAt(input, pos) IN
             /\ TxAt(sent, pos).tx = el.tx
             /\ TxAt(sent, pos).canRevert <=>
                  IF pos[1] \in Validated(input) THEN MayFail(el) ELSE el.canRevert \/ el.revertMode = "drop"

(***************************************************************************)
(* A bundle that is converted for the refund recipient API has all the     *)
(* transactions of the bundles that are validated, each at its position,   *)
(* where the sender lets it be dropped at most, and refunds what the       *)
(* bundle asks for, rounded down to a percent: nothing, or one share, to   *)
(* the sender of its first transaction or the one recipient of the         *)
(* refunded bundle.                                                        *)
(***************************************************************************)
RefundAsAsked ==
  Queued =>
    LET sent == ConvertBundleToRefundRecipient(ThroughQueue(bundle), MaxNestingLevel)
        at == {pos \in TxPositions(input) : pos[1] \in Validated(input)}
        refund == input[Top].refund
        config == refundConfigOf(input, refund[1].bodyIdx)
    IN  sent.ok =>
          /\ sent.txs = [pos \in at |-> TxAt(input, pos).tx]
          /\ \A pos \in at : MayFail(TxAt(input, pos)) => TxAt(input, pos).revertMode = "drop"
          /\ sent.data.refund <=> refund # << >>
          /\ \A p \in Validated(input) \ {Top} : input[p].refund = << >>
          /\ sent.data.refund =>
               /\ Len(refund) = 1
               /\ IF sent.data.recipient = FirstSender
                    THEN config = << >> /\ refund[1].bodyIdx = 0 /\ sent.data.percent = refund[1].percent
                    ELSE /\ [c \in DOMAIN config |-> config[c].address] = <<sent.data.recipient>>
                         /\ refund[1].percent * config[1].percent - 100 * sent.data.percent \in 0 .. 99

-----------------------------------------------------------------------------
\* MergePrivacyBuilders, called before the bundle is sent, merges the builders
\* of all bundles in it into those of the outermost.
MergePrivacyBuilders(tree) ==
  [tree[Top].privacy EXCEPT !.builders =
     {v \in @ : \A p \in DOMAIN tree : v \in MergeBuilders(tree[Top].privacy, tree[p].privacy).builders}]

(***************************************************************************)
(* A bundle with privacy settings is sent to exactly the external builders *)
(* that it and all the bundles in it name, at every level and also where   *)
(* validation did not look: it is not shown to a builder that the sender   *)
(* of one of them did not choose.                                          *)
(***************************************************************************)
BuildersAreCommon ==
  Queued /\ input[Top].privacy.set =>
    MergePrivacyBuilders(ThroughQueue(bundle)).builders =
      {v \in input[Top].privacy.builders :
         \A p \in DOMAIN input : input[p].privacy.set /\ v \in input[p].privacy.builders}
=============================================================================
