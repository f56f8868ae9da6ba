-------------------------------- MODULE Hints -------------------------------
(***************************************************************************)
(* The hint about a bundle (mevshare/hints.go, HintIntent in types.go).    *)
(* What a hint shows of a transaction is the set of its fields, named like *)
(* the flags that ask for them.  The lists of a hint are sets, the order   *)
(* of their entries being left out; rounded numbers are in Utils.          *)
(***************************************************************************)
EXTENDS Bundle

NoHint == [ok |-> FALSE]

-----------------------------------------------------------------------------
\* HintIntent: a set of flags; HasHint asks for any of several.
HasHint(want, flags) == want \cap flags # {}

MarshalJSON(want) == {name \in HintNames : HasHint(want, {name})}

\* The flags named by an array of strings; an unknown name is an error.
UnmarshalJSON(arr) ==
  LET flags == {IF name = "default_logs" THEN "special_logs" ELSE name : name \in arr}
  IN  [ok |-> flags \subseteq HintNames, flags |-> flags]

-----------------------------------------------------------------------------
TxFields == {"contract_address", "function_selector", "calldata", "tx_hash"}

extractTxHints(tx, want) ==
  LET address  == IF HasHint(want, {"function_selector", "calldata"}) THEN {"contract_address"} ELSE {}
      selector == IF HasHint(want, {"calldata"}) THEN {"function_selector"} ELSE {}
  IN  [tx |-> tx, shows |-> (want \cup address \cup selector) \cap TxFields]

\* A log has topics, the first of which tells the event, and data.
Zero == "0x0"

removeLogFields_KeepsData(log) ==
  [log EXCEPT !.topics = [i \in DOMAIN @ |-> IF i = 1 THEN @[i] ELSE Zero]]
removeLogFields(log) ==
  [log EXCEPT !.topics = [i \in DOMAIN @ |-> IF i = 1 THEN @[i] ELSE Zero], !.data = << >>]

Swaps == {"uni2log", "uni3log", "curveLog"}

IsSpecial(log) ==
  /\ log.topics # << >>
  /\ log.topics[1] \in Swaps \/ (log.topics[1] = "balancerLog" /\ Len(log.topics) >= 2)

FilteredLog(log) ==
  IF log.topics[1] = "balancerLog" THEN [removeLogFields(log) EXCEPT !.topics[2] = log.topics[2]]
                                   ELSE removeLogFields(log)

filterSpecialLogs(logs) == {FilteredLog(log) : log \in {l \in logs : IsSpecial(l)}}

\* The logs and the fields to show of a transaction with these logs.
LogHints(txLogs, want) ==
  IF HasHint(want, {"logs"}) THEN txLogs
  ELSE IF HasHint(want, {"special_logs"}) THEN filterSpecialLogs(txLogs) ELSE {}

TxHints(tx, want) == IF HasHint(want, TxFields) THEN {extractTxHints(tx, want)} ELSE {}

(***************************************************************************)
(* bodyLogs comes from the simulator: for each bundle, the logs of each    *)
(* element.  The recursion comes to a bundle when all the bundles around   *)
(* it ask for hints, and it fails when the logs of a bundle that does so   *)
(* too do not fit to its body, or a transaction to be shown does not       *)
(* parse.  Of an element with a bundle and a transaction, it takes the     *)
(* bundle.                                                                 *)
(***************************************************************************)
WantOf(b) == IF b.privacy.set THEN b.privacy.hints ELSE {}

extractHintsInner(tree, bodyLogs) ==
  LET visited == {p \in DOMAIN tree : \A q \in Around(p) : HasHint(WantOf(tree[q]), {"hash"})}
      at == {pos \in TxPositions(tree) : pos[1] \in visited /\ "bundle" \notin TxAt(tree, pos).fields}
      Want(pos) == WantOf(tree[pos[1]])
  IN  IF \/ \E p \in visited : Len(bodyLogs[p]) # Len(tree[p].body)
         \/ \E pos \in at : HasHint(Want(pos), TxFields) /\ ~TxAt(tree, pos).parses
        THEN NoHint
      ELSE [ok   |-> TRUE,
            logs |-> UNION {LogHints(bodyLogs[pos[1]][pos[2]], Want(pos)) : pos \in at},
            txs  |-> UNION {TxHints(TxAt(tree, pos).tx, Want(pos)) : pos \in at}]

ExtractHints(tree, bodyLogs) ==
  IF HasHint(WantOf(tree[Top]), {"hash"}) THEN extractHintsInner(tree, bodyLogs) ELSE NoHint
=============================================================================
