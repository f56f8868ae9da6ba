----------------------------- MODULE Validation -----------------------------
(***************************************************************************)
(* ValidateBundle of mevshare/bundle_validation.go: whether a bundle is    *)
(* accepted, and what validation writes into it.  There is one step for    *)
(* the checks before the loop over a body, one for each element, and one   *)
(* for the checks after the loop; a bundle in the body is validated by a   *)
(* recursive call.  Hashes, metadata and the case of builder names are     *)
(* left out; an error is just a refusal.                                   *)
(***************************************************************************)
EXTENDS Inclusion, Bundle

CONSTANTS
  MaxNestingLevel, MaxBlockOffset, MaxBlockRange, MaxBodySize,
  Inputs,         \* the sets of bundles to validate
  CurrentBlocks   \* and the blocks at which to do so

\* The chain is longer than the range of blocks a bundle may ask for.
ASSUME ValidationAssumption ==
  /\ MaxNestingLevel \in Nat /\ MaxBlockOffset \in Nat /\ MaxBlockRange \in Nat
  /\ \A n \in CurrentBlocks : n \in Nat /\ n >= MaxBlockRange

ASSUME InputsAssumption == \A bundles \in Inputs : \A tree \in bundles : IsBundle(tree)

VARIABLES
  input, currentBlock,  \* the arguments
  bundle,               \* the bundle as validation has written it so far
  path,                 \* the bundle to which the innermost call belongs
  next,                 \* of each bundle, the element the loop turns to next, 0 before it
  txs, unmatched,       \* of each bundle, what its call has counted and seen
  result                \* "running", "refused" or "accepted"

vars == <<input, currentBlock, bundle, path, next, txs, unmatched, result>>

-----------------------------------------------------------------------------
MergeBuilders_IgnoresUnset(top, inner) ==
  [top EXCEPT !.builders = IF top.set /\ inner.set THEN @ \cap inner.builders ELSE @]
MergeBuilders(top, inner) ==
  [top EXCEPT !.builders = IF ~top.set THEN @ ELSE IF ~inner.set THEN {} ELSE @ \cap inner.builders]

\* What a bundle becomes when a bundle in its body is merged into it.
Merged(b, inner) == [MergeInclusion(b, inner) EXCEPT !.privacy = MergeBuilders(@, inner.privacy)]

validateRevertMode(mode) == mode = NoMode \/ mode \in RevertModes

applyRevertMode(el) ==
  IF el.revertMode # NoMode
    THEN [el EXCEPT !.canRevert = el.revertMode = "allow"]
    ELSE [el EXCEPT !.revertMode = IF el.canRevert THEN "allow" ELSE "fail"]

\* The checks of the inclusion, and the default of MaxBlock.
DefaultMaxBlock(b) == [b EXCEPT !.maxBlock = IF @ = 0 THEN b.block ELSE @]

InclusionOk(b) ==
  /\ b.block <= b.maxBlock
  /\ b.maxBlock - b.block <= MaxBlockRange
  /\ currentBlock < b.maxBlock
  /\ b.block <= currentBlock + MaxBlockOffset

\* Whether an unmatched hash may stand at position i.
HashAllowed_Anywhere(i, seen) == ~seen
HashAllowed(i, seen) == ~seen /\ i = 1

PercentOk(p) == p \in 0 .. 100
Total(constraints) == FoldLeft(LAMBDA sum, c : sum + c.percent, 0, constraints)

ValidityOk(b, hasHash) ==
  /\ hasHash => b.refund = << >>
  /\ \A i \in DOMAIN b.refundConfig : PercentOk(b.refundConfig[i].percent)
  /\ Total(b.refundConfig) <= 100
  /\ \A i \in DOMAIN b.refund :
       b.refund[i].bodyIdx \in 0 .. Len(b.body) - 1 /\ PercentOk(b.refund[i].percent)
  /\ \A i, j \in DOMAIN b.refund : b.refund[i].bodyIdx = b.refund[j].bodyIdx => i = j
  /\ Total(b.refund) <= 100

PrivacyOk(b, hasHash) ==
  b.privacy.set => /\ hasHash => b.privacy.hints = {}
                   /\ PercentOk(b.privacy.wantRefund)

\* Every set of hints includes the hash.
WithHashHint(p) == [p EXCEPT !.hints = IF @ = {} \/ ~p.set THEN @ ELSE @ \cup {"hash"}]

-----------------------------------------------------------------------------
Init ==
  /\ \E bundles \in Inputs : input \in bundles
  /\ currentBlock \in CurrentBlocks
  /\ bundle = input
  /\ path = Top
  /\ next = [p \in DOMAIN input |-> 0]
  /\ txs = [p \in DOMAIN input |-> 0]
  /\ unmatched = [p \in DOMAIN input |-> FALSE]
  /\ result = "running"

\* An error is returned through all the calls.
Refuse == result' = "refused" /\ UNCHANGED <<bundle, path, next, txs, unmatched>>

Advance == next' = [next EXCEPT ![path] = @ + 1]

\* cleanBody is meant to leave one field in each element.  It writes to the
\* copies that its loop ranges over, and the body stays as it is.
cleanBody(b) == b

\* The checks before the loop over the body.
Enter ==
  /\ next[path] = 0
  /\ LET b == cleanBody(DefaultMaxBlock(bundle[path])) IN
     IF /\ Len(path) <= MaxNestingLevel
        /\ b.version \in {"beta-1", "v0.1"}
        /\ InclusionOk(b)
        /\ b.body # << >>
     THEN /\ bundle' = [bundle EXCEPT ![path] = b]
          /\ Advance
          /\ UNCHANGED <<path, txs, unmatched, result>>
     ELSE Refuse

\* The loop looks at the hash of an element first, then at its transaction, and
\* at its bundle only when it has neither.
Branch(el) ==
  CASE "hash" \in el.fields -> "hash"
    [] "hash" \notin el.fields /\ "tx" \in el.fields -> "tx"
    [] el.fields = {"bundle"} -> "bundle"
    [] el.fields = {} -> "empty"

AtElement(branch) ==
  /\ next[path] \in DOMAIN bundle[path].body
  /\ Branch(bundle[path].body[next[path]]) = branch

HashElement ==
  /\ AtElement("hash")
  /\ IF HashAllowed(next[path], unmatched[path]) /\ Len(bundle[path].body) > 1
       THEN /\ unmatched' = [unmatched EXCEPT ![path] = TRUE]
            /\ txs' = [txs EXCEPT ![path] = @ + 1]
            /\ Advance
            /\ UNCHANGED <<bundle, path, result>>
       ELSE Refuse

TxElement ==
  /\ AtElement("tx")
  /\ LET el == bundle[path].body[next[path]] IN
     IF el.parses /\ validateRevertMode(el.revertMode)
       THEN /\ bundle' = [bundle EXCEPT ![path].body[next[path]] = applyRevertMode(@)]
            /\ txs' = [txs EXCEPT ![path] = @ + 1]
            /\ Advance
            /\ UNCHANGED <<path, unmatched, result>>
       ELSE Refuse

EmptyElement ==
  /\ AtElement("empty")
  /\ Advance
  /\ UNCHANGED <<bundle, path, txs, unmatched, result>>

\* The inclusion and the builders of a bundle in the body are merged into
\* those of the outer one before it is validated.
BundleElement ==
  /\ AtElement("bundle")
  /\ LET inner == bundle[Append(path, next[path])] IN
     IF Overlap(bundle[path], inner)
       THEN /\ bundle' = [bundle EXCEPT ![path] = Merged(@, inner)]
            /\ path' = Append(path, next[path])
            /\ Advance
            /\ UNCHANGED <<txs, unmatched, result>>
       ELSE Refuse

\* The checks after the loop.
Finished == next[path] = Len(bundle[path].body) + 1

BodyOk ==
  /\ txs[path] <= MaxBodySize
  /\ ValidityOk(bundle[path], unmatched[path])
  /\ PrivacyOk(bundle[path], unmatched[path])

Finish == bundle' = [bundle EXCEPT ![path].privacy = WithHashHint(@)]

Accept ==
  /\ Finished /\ path = Top
  /\ IF BodyOk THEN Finish /\ result' = "accepted" /\ UNCHANGED <<path, next, txs, unmatched>>
               ELSE Refuse

\* The call for a bundle in a body, which must not be unmatched, returns.
Return ==
  /\ Finished /\ path # Top
  /\ IF BodyOk /\ ~unmatched[path]
       THEN /\ Finish
            /\ path' = Front(path)
            /\ txs' = [txs EXCEPT ![Front(path)] = @ + txs[path]]
            /\ UNCHANGED <<next, unmatched, result>>
       ELSE Refuse

Next ==
  /\ result = "running"
  /\ Enter \/ HashElement \/ TxElement \/ EmptyElement \/ BundleElement \/ Accept \/ Return
  /\ UNCHANGED <<input, currentBlock>>

Spec == Init /\ [][Next]_vars

-----------------------------------------------------------------------------
Accepted == result = "accepted"

\* The blocks a bundle asks for.
Declared(b) == BlocksOf(DefaultMaxBlock(b))

\* The bundles that validation comes to: those for which it calls itself while
\* it is at the bundle at p, and all of them.  A bundle beside a transaction or
\* a hash is kept in the body, and nothing of it is checked.
Checked(tree, p) == {Append(p, i) : i \in {j \in DOMAIN tree[p].body : Branch(tree[p].body[j]) = "bundle"}}
Validated(tree) == {p \in DOMAIN tree : \A q \in Around(p) \ {Top} : q \in Checked(tree, Front(q))}

(***************************************************************************)
(* An accepted bundle, like each bundle in it that is validated, is for    *)
(* exactly the blocks that it and the bundles validated in its body ask    *)
(* for: there is such a block, one that is still to come, and none is too  *)
(* far ahead, although the range is checked before it is narrowed.  A      *)
(* bundle beside a transaction or a hash narrows nothing and may ask for   *)
(* any blocks: cleanBody does not remove it.                               *)
(***************************************************************************)
InclusionIsCommon ==
  Accepted => \A p \in Validated(input) :
    /\ BlocksOf(bundle[p]) = {n \in Declared(input[p]) : \A q \in Checked(input, p) : n \in Declared(input[q])}
    /\ \E n \in BlocksOf(bundle[p]) : n > currentBlock
    /\ bundle[p].block <= currentBlock + MaxBlockOffset

HashElements(b) == With(b, "hash")

(***************************************************************************)
(* An accepted bundle is unmatched exactly when its first element has a    *)
(* hash, which is then the only one of its body and of the bundles that    *)
(* are validated in it, is not the whole body, and is in a bundle that     *)
(* shares nothing: SendBundle finds the hash where it looks for it.  The   *)
(* elements behind it may be empty, and hashes in a bundle beside a        *)
(* transaction or a hash are not seen.                                     *)
(***************************************************************************)
OneHashInFront ==
  Accepted =>
    /\ HashElements(input[Top]) = IF unmatched[Top] THEN {1} ELSE {}
    /\ unmatched[Top] => Len(input[Top].body) > 1 /\ (input[Top].privacy.set => input[Top].privacy.hints = {})
    /\ \A p \in Validated(input) \ {Top} : HashElements(input[p]) = {}

-----------------------------------------------------------------------------
(* What the repository says, and the code does otherwise.                  *)

\* "don't allow unmatched bundles below 1-st level" (validateBundleInner): no
\* bundle in an accepted one has a hash.
NoHashBelowTop == Accepted => \A p \in DOMAIN input \ {Top} : HashElements(input[p]) = {}
=============================================================================
