-------------------------------- MODULE Bundle ------------------------------
(***************************************************************************)
(* A bundle and the bundles in it (SendMevBundleArgs in mevshare/types.go) *)
(* as a function: a bundle is found by its path, the positions of the      *)
(* elements that lead to it.  What it has of its own is a record, without  *)
(* the hashes and the metadata.  Of the fields hash, tx and bundle of an   *)
(* element, any may be set: the decoder takes them all.                    *)
(***************************************************************************)
EXTENDS Integers, Sequences, SequencesExt

CONSTANTS
  Txs,        \* the transactions
  Names,      \* the names of builders
  Addresses   \* the recipients of refunds

HintNames == {"contract_address", "function_selector", "logs", "calldata", "hash", "special_logs", "tx_hash"}

\* The revert modes: none, those there are, and any other string.
NoMode == ""
RevertModes == {"fail", "drop", "allow"}
Modes == RevertModes \cup {NoMode, "other"}

Element == [fields : SUBSET {"hash", "tx", "bundle"}, tx : Txs, parses : BOOLEAN,
            canRevert : BOOLEAN, revertMode : Modes]

\* A bundle without privacy has set = FALSE.
Privacy == [set : BOOLEAN, hints : SUBSET HintNames, builders : SUBSET Names, wantRefund : Int]

Args == [version : STRING, block : Nat, maxBlock : Nat, body : Seq(Element), privacy : Privacy,
         refund : Seq([bodyIdx : Int, percent : Int]),
         refundConfig : Seq([address : Addresses, percent : Int])]

-----------------------------------------------------------------------------
Top == << >>

\* The positions of a body where a field is set.
With(b, field) == {i \in DOMAIN b.body : field \in b.body[i].fields}

\* The paths of the bundles that are in the body of the one at p, alone in
\* their elements or beside a transaction or a hash.
Nested(tree, p) == {Append(p, i) : i \in With(tree[p], "bundle")}

IsBundle(tree) ==
  /\ Top \in DOMAIN tree
  /\ tree \in [DOMAIN tree -> Args]
  /\ \A p \in DOMAIN tree :
       /\ p \in Seq(Nat)
       /\ Nested(tree, p) \subseteq DOMAIN tree
       /\ p # Top => Front(p) \in DOMAIN tree /\ p \in Nested(tree, Front(p))

\* The bundles around the one at p, and itself.
Around(p) == {SubSeq(p, 1, n) : n \in 0 .. Len(p)}

-----------------------------------------------------------------------------
\* The transactions are at the positions <<path, index>>.
TxPositions(tree) ==
  UNION {{<<p, i>> : i \in With(tree[p], "tx")} : p \in DOMAIN tree}

TxAt(tree, pos) == tree[pos[1]].body[pos[2]]
=============================================================================
