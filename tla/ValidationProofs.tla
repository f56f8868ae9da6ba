--------------------------- MODULE ValidationProofs -------------------------
(***************************************************************************)
(* Proofs about the validation of bundles, of any depth and size.          *)
(***************************************************************************)
EXTENDS Validation, SequenceTheorems, WellFoundedInduction, TLAPS

-----------------------------------------------------------------------------
\* The path of an element is one longer than that of its bundle.
LEMMA AppendPath ==
  ASSUME NEW p \in Seq(Nat), NEW i \in Nat
  PROVE  /\ Append(p, i) \in Seq(Nat)
         /\ Len(Append(p, i)) = Len(p) + 1
         /\ Append(p, i) # Top
         /\ Front(Append(p, i)) = p
<1>1. Append(p, i) \in Seq(Nat) /\ Len(Append(p, i)) = Len(p) + 1
  BY SMT, SMTT(30)
<1>2. Append(p, i) # Top
  BY <1>1, SMT, SMTT(30) DEF Top
<1>3. SubSeq(Append(p, i), 1, Len(p)) = p
  BY <1>1, SMT, SMTT(30)
<1>. QED
  BY <1>1, <1>2, <1>3, SMT, SMTT(30) DEF Front

\* A bundle is around itself, and what is around it is not longer.
LEMMA AroundSelf ==
  ASSUME NEW p \in Seq(Nat)
  PROVE  p \in Around(p) /\ Around(Top) = {Top} /\ \A q \in Around(p) : Len(q) <= Len(p)
<1>1. SubSeq(p, 1, Len(p)) = p /\ Len(p) \in 0 .. Len(p)
  BY SMT, SMTT(30)
<1>2. \A n \in 0 .. Len(p) : Len(SubSeq(p, 1, n)) = n
  BY SMT, SMTT(30)
<1>3. 0 .. Len(Top) = {0} /\ SubSeq(Top, 1, 0) = Top
  BY SMT, SMTT(30) DEF Top
<1>4. p \in Around(p)
  BY <1>1, Zenon DEF Around
<1>5. Around(Top) = {SubSeq(Top, 1, 0)}
  BY <1>3 DEF Around
<1>6. ASSUME NEW q \in Around(p) PROVE Len(q) <= Len(p)
  <2>1. PICK n \in 0 .. Len(p) : q = SubSeq(p, 1, n)
    BY Zenon DEF Around
  <2>. QED
    BY <2>1, <1>2, SMT, SMTT(30)
<1>. QED
  BY <1>3, <1>4, <1>5, <1>6, Zenon

\* Around an element there are its bundle, what is around that, and itself.
LEMMA AroundAppend ==
  ASSUME NEW p \in Seq(Nat), NEW i \in Nat
  PROVE  /\ Around(Append(p, i)) = Around(p) \cup {Append(p, i)}
         /\ Append(p, i) \notin Around(p)
<1>1. \A n \in 0 .. Len(p) : SubSeq(Append(p, i), 1, n) = SubSeq(p, 1, n)
  BY SMT, SMTT(30)
<1>2. SubSeq(Append(p, i), 1, Len(p) + 1) = Append(p, i)
  BY SMT, SMTT(30)
<1>3. 0 .. Len(Append(p, i)) = (0 .. Len(p)) \cup {Len(p) + 1}
  BY SMT, SMTT(30)
<1>4. Around(Append(p, i)) = Around(p) \cup {Append(p, i)}
  BY <1>1, <1>2, <1>3, SMT, Zenon, SMTT(30) DEF Around
<1>5. ~(Len(Append(p, i)) <= Len(p))
  BY SMT, SMTT(30)
<1>6. \A q \in Around(p) : Len(q) <= Len(p)
  BY AroundSelf, Zenon
<1>. QED
  BY <1>4, <1>5, <1>6, Zenon

-----------------------------------------------------------------------------
\* The fields of a bundle.
LEMMA ArgsFields ==
  ASSUME NEW b \in Args
  PROVE  /\ b.block \in Nat /\ b.maxBlock \in Nat
         /\ b.body \in Seq(Element)
         /\ b.privacy \in Privacy
         /\ b.privacy.set \in BOOLEAN
         /\ b.privacy.hints \subseteq HintNames
         /\ b.privacy.builders \subseteq Names
BY DEF Args, Privacy

\* The default of MaxBlock changes nothing else.
LEMMA DefaultMaxBlockIs ==
  ASSUME NEW b \in Args
  PROVE  /\ DefaultMaxBlock(b) \in Args
         /\ DefaultMaxBlock(b).block = b.block
         /\ DefaultMaxBlock(b).maxBlock = IF b.maxBlock = 0 THEN b.block ELSE b.maxBlock
         /\ DefaultMaxBlock(b).body = b.body
         /\ DefaultMaxBlock(b).privacy = b.privacy
         /\ DefaultMaxBlock(b).refund = b.refund
         /\ DefaultMaxBlock(b).refundConfig = b.refundConfig
BY Zenon DEF Args, DefaultMaxBlock

\* What merging the bundle el into b writes.
LEMMA MergedIs ==
  ASSUME NEW b \in Args, NEW el \in Args
  PROVE  /\ Merged(b, el) \in Args
         /\ Merged(b, el).block = IF b.block < el.block THEN el.block ELSE b.block
         /\ Merged(b, el).maxBlock = IF b.maxBlock > el.maxBlock THEN el.maxBlock ELSE b.maxBlock
         /\ Merged(b, el).body = b.body
         /\ Merged(b, el).refund = b.refund
         /\ Merged(b, el).refundConfig = b.refundConfig
         /\ Merged(b, el).privacy.set = b.privacy.set
         /\ Merged(b, el).privacy.hints = b.privacy.hints
         /\ Merged(b, el).privacy.builders =
              IF ~b.privacy.set THEN b.privacy.builders
              ELSE IF ~el.privacy.set THEN {} ELSE b.privacy.builders \cap el.privacy.builders
<1>1. MergeBuilders(b.privacy, el.privacy) \in Privacy
  BY Zenon DEF Args, Privacy, MergeBuilders
<1>2. /\ MergeBuilders(b.privacy, el.privacy).set = b.privacy.set
      /\ MergeBuilders(b.privacy, el.privacy).hints = b.privacy.hints
      /\ MergeBuilders(b.privacy, el.privacy).builders =
              IF ~b.privacy.set THEN b.privacy.builders
              ELSE IF ~el.privacy.set THEN {} ELSE b.privacy.builders \cap el.privacy.builders
  BY DEF Args, Privacy, MergeBuilders
<1>3. /\ MergeInclusion(b, el) \in Args
      /\ MergeInclusion(b, el).block = IF b.block < el.block THEN el.block ELSE b.block
      /\ MergeInclusion(b, el).maxBlock = IF b.maxBlock > el.maxBlock THEN el.maxBlock ELSE b.maxBlock
      /\ MergeInclusion(b, el).body = b.body
      /\ MergeInclusion(b, el).refund = b.refund
      /\ MergeInclusion(b, el).refundConfig = b.refundConfig
      /\ MergeInclusion(b, el).privacy = b.privacy
  BY Zenon DEF Args, MergeInclusion
<1>4. ASSUME NEW c \in Args, NEW p \in Privacy
      PROVE  /\ [c EXCEPT !.privacy = p] \in Args
             /\ [c EXCEPT !.privacy = p].privacy = p
             /\ [c EXCEPT !.privacy = p].block = c.block
             /\ [c EXCEPT !.privacy = p].maxBlock = c.maxBlock
             /\ [c EXCEPT !.privacy = p].body = c.body
             /\ [c EXCEPT !.privacy = p].refund = c.refund
             /\ [c EXCEPT !.privacy = p].refundConfig = c.refundConfig
  BY Zenon DEF Args
<1>5. Merged(b, el) = [MergeInclusion(b, el) EXCEPT !.privacy = MergeBuilders(b.privacy, el.privacy)]
  BY <1>3 DEF Merged
<1>6. /\ Merged(b, el) \in Args
      /\ Merged(b, el).privacy = MergeBuilders(b.privacy, el.privacy)
      /\ Merged(b, el).block = MergeInclusion(b, el).block
      /\ Merged(b, el).maxBlock = MergeInclusion(b, el).maxBlock
      /\ Merged(b, el).body = MergeInclusion(b, el).body
      /\ Merged(b, el).refund = MergeInclusion(b, el).refund
      /\ Merged(b, el).refundConfig = MergeInclusion(b, el).refundConfig
  <2>. DEFINE c == MergeInclusion(b, el)
              p == MergeBuilders(b.privacy, el.privacy)
              m == Merged(b, el)
  <2>1. c \in Args /\ p \in Privacy /\ m = [c EXCEPT !.privacy = p]
    BY <1>1, <1>3, <1>5
  <2>. HIDE DEF c, p, m
  <2>2. /\ m \in Args
        /\ m.privacy = p
        /\ m.block = c.block
        /\ m.maxBlock = c.maxBlock
        /\ m.body = c.body
        /\ m.refund = c.refund
        /\ m.refundConfig = c.refundConfig
    BY <1>4, <2>1
  <2>. QED
    BY <2>2 DEF c, p, m
<1>. QED
  BY <1>2, <1>3, <1>6

\* The inclusion that MergeInclusionIntervals leaves.
LEMMA MergedBlocksAre ==
  ASSUME NEW b \in Args, NEW el \in Args
  PROVE  /\ Merged(b, el).block = IF b.block < el.block THEN el.block ELSE b.block
         /\ Merged(b, el).maxBlock = IF b.maxBlock > el.maxBlock THEN el.maxBlock ELSE b.maxBlock
BY MergedIs, Zenon

\* The builders that MergeBuilders leaves.
LEMMA MergedBuildersAre ==
  ASSUME NEW b \in Args, NEW el \in Args
  PROVE  Merged(b, el).privacy.builders =
           IF ~b.privacy.set THEN b.privacy.builders
           ELSE IF ~el.privacy.set THEN {} ELSE b.privacy.builders \cap el.privacy.builders
BY MergedIs, Zenon

\* Merging changes neither the body nor the refunds.
LEMMA MergedKeeps ==
  ASSUME NEW b \in Args, NEW el \in Args
  PROVE  /\ Merged(b, el) \in Args
         /\ Merged(b, el).body = b.body
         /\ Merged(b, el).refund = b.refund
         /\ Merged(b, el).refundConfig = b.refundConfig
         /\ Merged(b, el).privacy.set = b.privacy.set
         /\ Merged(b, el).privacy.hints = b.privacy.hints
<1>1. Merged(b, el) \in Args
  BY MergedIs, Zenon
<1>2. Merged(b, el).body = b.body
  BY MergedIs, Zenon
<1>3. Merged(b, el).refund = b.refund
  BY MergedIs, Zenon
<1>4. Merged(b, el).refundConfig = b.refundConfig
  BY MergedIs, Zenon
<1>5. Merged(b, el).privacy.set = b.privacy.set
  BY MergedIs, ZenonT(30)
<1>6. Merged(b, el).privacy.hints = b.privacy.hints
  BY MergedIs, ZenonT(30)
<1>. QED
  BY <1>1, <1>2, <1>3, <1>4, <1>5, <1>6, Zenon

\* What the checks after the loop write.
LEMMA FinishedIs ==
  ASSUME NEW b \in Args
  PROVE  LET f == [b EXCEPT !.privacy = WithHashHint(@)]
         IN  /\ f \in Args
             /\ f.block = b.block
             /\ f.maxBlock = b.maxBlock
             /\ f.body = b.body
             /\ f.refund = b.refund
             /\ f.refundConfig = b.refundConfig
             /\ f.privacy = WithHashHint(b.privacy)
             /\ f.privacy.set = b.privacy.set
             /\ f.privacy.builders = b.privacy.builders
             /\ f.privacy.hints = IF b.privacy.hints = {} \/ ~b.privacy.set THEN b.privacy.hints
                                  ELSE b.privacy.hints \cup {"hash"}
<1>1. /\ WithHashHint(b.privacy) \in Privacy
      /\ WithHashHint(b.privacy).set = b.privacy.set
      /\ WithHashHint(b.privacy).builders = b.privacy.builders
      /\ WithHashHint(b.privacy).hints = IF b.privacy.hints = {} \/ ~b.privacy.set THEN b.privacy.hints
                                         ELSE b.privacy.hints \cup {"hash"}
  BY Zenon DEF Args, Privacy, WithHashHint, HintNames
<1>. QED
  BY <1>1, Zenon DEF Args

\* What the loop writes into an element.
LEMMA AppliedIs ==
  ASSUME NEW el \in Element
  PROVE  /\ applyRevertMode(el) \in Element
         /\ applyRevertMode(el).fields = el.fields
         /\ applyRevertMode(el).parses = el.parses
         /\ applyRevertMode(el).tx = el.tx
<1>1. ASSUME NEW c \in BOOLEAN
      PROVE  /\ [el EXCEPT !.canRevert = c] \in Element
             /\ [el EXCEPT !.canRevert = c].fields = el.fields
             /\ [el EXCEPT !.canRevert = c].parses = el.parses
             /\ [el EXCEPT !.canRevert = c].tx = el.tx
  BY DEF Element
<1>2. ASSUME NEW m \in Modes
      PROVE  /\ [el EXCEPT !.revertMode = m] \in Element
             /\ [el EXCEPT !.revertMode = m].fields = el.fields
             /\ [el EXCEPT !.revertMode = m].parses = el.parses
             /\ [el EXCEPT !.revertMode = m].tx = el.tx
  BY DEF Element
<1>3. (el.revertMode = "allow") \in BOOLEAN /\ (IF el.canRevert THEN "allow" ELSE "fail") \in Modes
  BY DEF Modes, RevertModes
<1>4. CASE el.revertMode # NoMode
  BY <1>1, <1>3, <1>4, Zenon DEF applyRevertMode
<1>5. CASE el.revertMode = NoMode
  BY <1>2, <1>3, <1>5, Zenon DEF applyRevertMode
<1>. QED
  BY <1>4, <1>5

\* Where the loop goes with an element.
LEMMA BranchIs ==
  ASSUME NEW el \in Element
  PROVE  /\ Branch(el) \in {"hash", "tx", "bundle", "empty"}
         /\ Branch(el) = "hash" <=> "hash" \in el.fields
         /\ Branch(el) = "tx" <=> "hash" \notin el.fields /\ "tx" \in el.fields
         /\ Branch(el) = "bundle" <=> el.fields = {"bundle"}
         /\ Branch(el) = "empty" <=> el.fields = {}
<1>1. el.fields \subseteq {"hash", "tx", "bundle"}
  BY DEF Element
<1>2. CASE "hash" \in el.fields
  <2>1. Branch(el) = "hash"
    BY <1>2, SMT, SMTT(30) DEF Branch
  <2>. QED
    BY <1>2, <2>1
<1>3. CASE "hash" \notin el.fields /\ "tx" \in el.fields
  <2>1. Branch(el) = "tx"
    BY <1>3, SMT, SMTT(30) DEF Branch
  <2>. QED
    BY <1>3, <2>1
<1>4. CASE el.fields = {"bundle"}
  <2>1. Branch(el) = "bundle"
    BY <1>4, SMT, SMTT(30) DEF Branch
  <2>. QED
    BY <1>4, <2>1
<1>5. CASE el.fields = {}
  <2>1. Branch(el) = "empty"
    BY <1>5, SMT, SMTT(30) DEF Branch
  <2>. QED
    BY <1>5, <2>1
<1>. QED
  BY <1>1, <1>2, <1>3, <1>4, <1>5

\* The elements with a hash are those the loop takes for hashes.
LEMMA HashElementsAre ==
  ASSUME NEW b \in Args
  PROVE  HashElements(b) = {i \in DOMAIN b.body : Branch(b.body[i]) = "hash"}
<1>1. \A i \in DOMAIN b.body : b.body[i] \in Element
  BY ArgsFields, SMT, SMTT(30)
<1>2. \A i \in DOMAIN b.body : Branch(b.body[i]) = "hash" <=> "hash" \in b.body[i].fields
  BY <1>1, BranchIs, Zenon
<1>. QED
  BY <1>2, Zenon DEF HashElements, With

\* Writing one element leaves the rest of the bundle alone.
LEMMA WrittenIs ==
  ASSUME NEW b \in Args, NEW i \in DOMAIN b.body, NEW el \in Element
  PROVE  LET w == [b EXCEPT !.body[i] = el]
         IN  /\ w \in Args
             /\ w.body = [b.body EXCEPT ![i] = el]
             /\ Len(w.body) = Len(b.body)
             /\ w.block = b.block
             /\ w.maxBlock = b.maxBlock
             /\ w.refund = b.refund
             /\ w.refundConfig = b.refundConfig
             /\ w.privacy = b.privacy
<1>1. [b.body EXCEPT ![i] = el] \in Seq(Element) /\ Len([b.body EXCEPT ![i] = el]) = Len(b.body)
  BY ArgsFields, SMT, SMTT(30)
<1>. QED
  BY <1>1, Zenon DEF Args

-----------------------------------------------------------------------------
(***************************************************************************)
(* The inductive invariant.  A call is open from when the walk comes to    *)
(* its bundle until it returns; afterwards the bundle is closed.           *)
(***************************************************************************)
TypeInv ==
  /\ IsBundle(input)
  /\ currentBlock \in Nat /\ currentBlock >= MaxBlockRange
  /\ bundle \in [DOMAIN input -> Args]
  /\ path \in DOMAIN input
  /\ next \in [DOMAIN input -> Nat]
  /\ \A p \in DOMAIN input : next[p] <= Len(input[p].body) + 1
  /\ txs \in [DOMAIN input -> Nat]
  /\ unmatched \in [DOMAIN input -> BOOLEAN]
  /\ result \in {"running", "refused", "accepted"}

Closed(p) ==
  /\ next[p] = Len(input[p].body) + 1
  /\ p \notin Around(path) \/ result = "accepted"

\* The positions of the bundles that are validated in the body of p.
NestedAt(p) == {i \in DOMAIN input[p].body : Branch(input[p].body[i]) = "bundle"}

\* The bundles in the body of p to which the loop has come.
NestedBefore(p) == {Append(p, i) : i \in {j \in NestedAt(p) : j < next[p]}}

\* Calls are opened in the order of the loop, and closed before it goes on;
\* there is none for a bundle beside a transaction or a hash.
CallInv ==
  /\ path \in Validated(input)
  /\ \A p \in DOMAIN input \ Validated(input) : next[p] = 0
  /\ result = "accepted" => path = Top /\ Closed(Top)
  /\ \A p \in DOMAIN input : \A i \in NestedAt(p) :
       /\ i < next[p] => Append(p, i) \in Around(path) \/ Closed(Append(p, i))
       /\ i >= next[p] => next[Append(p, i)] = 0 /\ Append(p, i) \notin Around(path)

\* What the loop has written into the body, and that it writes nothing else.
BodyInv(p) ==
  /\ bundle[p].refund = input[p].refund
  /\ bundle[p].refundConfig = input[p].refundConfig
  /\ Len(bundle[p].body) = Len(input[p].body)
  /\ \A i \in DOMAIN input[p].body :
       LET el == input[p].body[i]
       IN  IF Branch(el) = "tx" /\ i < next[p]
             THEN validateRevertMode(el.revertMode) /\ bundle[p].body[i] = applyRevertMode(el)
             ELSE bundle[p].body[i] = el

\* The inclusion so far.  That it has a block is known when the bundles that
\* were merged into it have passed their own checks.
InTime(p) == InclusionOk(DefaultMaxBlock(input[p]))

BlocksInv(p) ==
  IF next[p] = 0 THEN bundle[p].block = input[p].block /\ bundle[p].maxBlock = input[p].maxBlock
  ELSE /\ InTime(p)
       /\ Len(p) <= MaxNestingLevel
       /\ input[p].body # << >>
       /\ 1 <= bundle[p].block
       /\ BlocksOf(bundle[p]) = {n \in Declared(input[p]) : \A q \in NestedBefore(p) : n \in Declared(input[q])}
       /\ (\A q \in NestedBefore(p) : InTime(q)) =>
            /\ bundle[p].block <= bundle[p].maxBlock
            /\ currentBlock < bundle[p].maxBlock
            /\ bundle[p].block <= currentBlock + MaxBlockOffset

PrivacyInv(p) ==
  /\ bundle[p].privacy.set = input[p].privacy.set
  /\ bundle[p].privacy.hints = IF Closed(p) THEN WithHashHint(input[p].privacy).hints ELSE input[p].privacy.hints
  /\ bundle[p].privacy.builders =
       IF ~input[p].privacy.set THEN input[p].privacy.builders
       ELSE {v \in input[p].privacy.builders :
               \A q \in NestedBefore(p) : input[q].privacy.set /\ v \in input[q].privacy.builders}

HashInv(p) ==
  /\ {i \in HashElements(input[p]) : i < next[p]} = IF unmatched[p] THEN {1} ELSE {}
  /\ unmatched[p] => Len(input[p].body) > 1

\* What has been checked of a closed bundle.
ClosedInv(p) ==
  Closed(p) => /\ ValidityOk(input[p], unmatched[p])
               /\ input[p].privacy.set /\ unmatched[p] => input[p].privacy.hints = {}
               /\ p # Top => ~unmatched[p]

Each(p) == BodyInv(p) /\ BlocksInv(p) /\ PrivacyInv(p) /\ HashInv(p) /\ ClosedInv(p)

IInv == TypeInv /\ CallInv /\ \A p \in DOMAIN input : Each(p)

-----------------------------------------------------------------------------
\* What the invariant says of one bundle depends on that bundle only.
LEMMA EachUnchanged ==
  ASSUME NEW p, Each(p), input' = input, currentBlock' = currentBlock,
         bundle'[p] = bundle[p], next'[p] = next[p], unmatched'[p] = unmatched[p],
         Closed(p)' <=> Closed(p)
  PROVE  Each(p)'
<1>1. NestedBefore(p)' = NestedBefore(p)
  BY Zenon DEF NestedBefore, NestedAt
<1>2. BodyInv(p)'
  BY Zenon DEF Each, BodyInv
<1>3. BlocksInv(p)'
  <2>1. \A q : InTime(q)' <=> InTime(q)
    BY Zenon DEF InTime, InclusionOk
  <2>. QED
    BY <1>1, <2>1, Zenon DEF Each, BlocksInv
<1>4. PrivacyInv(p)'
  BY <1>1, Zenon DEF Each, PrivacyInv
<1>5. HashInv(p)' /\ ClosedInv(p)'
  BY Zenon DEF Each, HashInv, ClosedInv
<1>. QED
  BY <1>2, <1>3, <1>4, <1>5, Zenon DEF Each

\* The paths of a bundle and what they lead to.
LEMMA TreeFacts ==
  ASSUME IsBundle(input), NEW p \in DOMAIN input
  PROVE  /\ p \in Seq(Nat) /\ input[p] \in Args
         /\ \A i \in NestedAt(p) : i \in Nat /\ i >= 1 /\ i \in DOMAIN input[p].body /\ Append(p, i) \in DOMAIN input
         /\ p # Top => Front(p) \in DOMAIN input /\ \E i \in With(input[Front(p)], "bundle") : p = Append(Front(p), i)
<1>1. /\ p \in Seq(Nat) /\ input[p] \in Args
      /\ Nested(input, p) \subseteq DOMAIN input
      /\ p # Top => Front(p) \in DOMAIN input /\ p \in Nested(input, Front(p))
  BY Zenon DEF IsBundle
<1>2. \A q : Nested(input, q) = {Append(q, i) : i \in With(input[q], "bundle")}
  BY Zenon DEF Nested
<1>3. input[p].body \in Seq(Element)
  BY <1>1, ArgsFields
<1>4. \A i \in DOMAIN input[p].body : i \in Nat /\ i >= 1 /\ input[p].body[i] \in Element
  BY <1>3, SMT, SMTT(30)
<1>5. ASSUME NEW i \in NestedAt(p) PROVE i \in With(input[p], "bundle")
  <2>1. i \in DOMAIN input[p].body /\ Branch(input[p].body[i]) = "bundle" /\ input[p].body[i] \in Element
    BY <1>4, Zenon DEF NestedAt
  <2>2. "bundle" \in input[p].body[i].fields
    BY <2>1, BranchIs, Zenon
  <2>. QED
    BY <2>1, <2>2, Zenon DEF With
<1>. QED
  BY <1>1, <1>2, <1>4, <1>5, Zenon DEF NestedAt

\* Positions are numbers.
LEMMA WithFacts ==
  ASSUME IsBundle(input), NEW p \in DOMAIN input, NEW field, NEW i \in With(input[p], field)
  PROVE  i \in Nat /\ i \in DOMAIN input[p].body
<1>1. i \in DOMAIN input[p].body
  BY Zenon DEF With
<1>2. input[p].body \in Seq(Element)
  BY TreeFacts, ArgsFields, Zenon
<1>. QED
  BY <1>1, <1>2, SMT, SMTT(30)

\* The calls made for the bundle at p.
LEMMA CheckedAre ==
  ASSUME NEW p
  PROVE  Checked(input, p) = {Append(p, i) : i \in NestedAt(p)}
BY Zenon DEF Checked, NestedAt

\* Validation comes to the bundle itself.
LEMMA TopValidated ==
  ASSUME IsBundle(input)
  PROVE  Top \in Validated(input)
<1>1. Top \in DOMAIN input /\ Around(Top) = {Top}
  BY TreeFacts, AroundSelf, Zenon DEF IsBundle
<1>. QED
  BY <1>1, Zenon DEF Validated

\* From a bundle it comes to the bundles alone in their elements.
LEMMA ValidatedNested ==
  ASSUME IsBundle(input), NEW p \in Validated(input), NEW i \in NestedAt(p)
  PROVE  Append(p, i) \in Validated(input) /\ Append(p, i) \in Checked(input, p)
<1>1. p \in DOMAIN input /\ \A q \in Around(p) \ {Top} : q \in Checked(input, Front(q))
  BY Zenon DEF Validated
<1>2. p \in Seq(Nat) /\ i \in Nat /\ Append(p, i) \in DOMAIN input
  BY <1>1, TreeFacts, Zenon
<1>3. Around(Append(p, i)) = Around(p) \cup {Append(p, i)} /\ Front(Append(p, i)) = p
  BY <1>2, AroundAppend, AppendPath, Zenon
<1>4. Append(p, i) \in Checked(input, p)
  BY CheckedAre, Zenon
<1>5. \A q \in Around(Append(p, i)) \ {Top} : q \in Checked(input, Front(q))
  BY <1>1, <1>3, <1>4, Zenon
<1>. QED
  BY <1>2, <1>4, <1>5, Zenon DEF Validated

\* And it has come to a bundle from the one around it.
LEMMA ValidatedFront ==
  ASSUME IsBundle(input), NEW p \in Validated(input), p # Top
  PROVE  Front(p) \in Validated(input) /\ \E i \in NestedAt(Front(p)) : p = Append(Front(p), i)
<1>1. p \in DOMAIN input /\ \A q \in Around(p) \ {Top} : q \in Checked(input, Front(q))
  BY Zenon DEF Validated
<1>2. p \in Seq(Nat) /\ Front(p) \in DOMAIN input
  BY <1>1, TreeFacts, Zenon
<1>3. p \in Checked(input, Front(p))
  BY <1>1, <1>2, AroundSelf, Zenon
<1>4. PICK i \in NestedAt(Front(p)) : p = Append(Front(p), i)
  BY <1>3, CheckedAre, Zenon
<1>5. Front(p) \in Seq(Nat) /\ i \in Nat
  BY <1>2, TreeFacts, Zenon
<1>6. Around(p) = Around(Front(p)) \cup {p}
  BY <1>4, <1>5, AroundAppend, Zenon
<1>7. Front(p) \in Validated(input)
  BY <1>1, <1>2, <1>6, Zenon DEF Validated
<1>. QED
  BY <1>4, <1>7, Zenon

\* A step of the loop past an element that is no bundle opens and closes
\* nothing.
LEMMA LocalStep ==
  ASSUME TypeInv, CallInv, result = "running", result' = result, path' = path, input' = input,
         next' = [next EXCEPT ![path] = @ + 1], next[path] \notin NestedAt(path)
  PROVE  /\ CallInv'
         /\ \A p \in DOMAIN input :
              /\ Closed(p)' <=> Closed(p)
              /\ NestedBefore(p)' = NestedBefore(p)
              /\ p # path => next'[p] = next[p]
         /\ next'[path] = next[path] + 1
         /\ ~Closed(path)
<1>1. /\ IsBundle(input) /\ path \in DOMAIN input /\ next \in [DOMAIN input -> Nat]
      /\ path \in Seq(Nat) /\ Around(path)' = Around(path) /\ path \in Around(path)
  BY TreeFacts, AroundSelf DEF TypeInv
<1>2. next'[path] = next[path] + 1 /\ \A p \in DOMAIN input : p # path => next'[p] = next[p]
  BY <1>1
<1>3. ASSUME NEW p \in DOMAIN input PROVE Closed(p)' <=> Closed(p)
  BY <1>1, <1>2, Zenon DEF Closed
<1>4. ~Closed(path)
  BY <1>1, Zenon DEF Closed
<1>5. ASSUME NEW p \in DOMAIN input, NEW i \in NestedAt(p) PROVE i < next'[p] <=> i < next[p]
  <2>1. CASE p # path
    BY <1>2, <2>1, Zenon
  <2>2. CASE p = path
    <3>1. i # next[path] /\ i \in Nat /\ next[path] \in Nat
      BY <1>1, <2>2, TreeFacts
    <3>. QED
      BY <1>2, <2>2, <3>1, SMT, SMTT(30)
  <2>. QED
    BY <2>1, <2>2
<1>6. ASSUME NEW p \in DOMAIN input PROVE NestedBefore(p)' = NestedBefore(p)
  <2>1. NestedAt(p)' = NestedAt(p)
    BY Zenon DEF NestedAt
  <2>. QED
    BY <1>5, <2>1 DEF NestedBefore
<1>7. ASSUME NEW p \in DOMAIN input, NEW i \in NestedAt(p)
      PROVE  /\ i < next'[p] => Append(p, i) \in Around(path) \/ Closed(Append(p, i))'
             /\ i >= next'[p] => next'[Append(p, i)] = 0 /\ Append(p, i) \notin Around(path)
  <2>1. Append(p, i) \in DOMAIN input /\ i \in Nat
    BY <1>1, TreeFacts, Zenon
  <2>2. /\ i < next[p] => Append(p, i) \in Around(path) \/ Closed(Append(p, i))
        /\ i >= next[p] => next[Append(p, i)] = 0 /\ Append(p, i) \notin Around(path)
    BY Zenon DEF CallInv
  <2>3. Append(p, i) \notin Around(path) => next'[Append(p, i)] = next[Append(p, i)]
    BY <1>1, <1>2, <2>1, Zenon
  <2>4. Closed(Append(p, i))' <=> Closed(Append(p, i))
    BY <1>3, <2>1, Zenon
  <2>5. i >= next'[p] <=> i >= next[p]
    <3>1. next[p] \in Nat /\ next'[p] \in Nat
      BY <1>1, SMT, SMTT(30)
    <3>. QED
      BY <1>5, <2>1, <3>1, SMT, SMTT(30)
  <2>. QED
    BY <1>5, <2>2, <2>3, <2>4, <2>5, Zenon
<1>8. CallInv'
  <2>1. \A p : NestedAt(p)' = NestedAt(p)
    BY Zenon DEF NestedAt
  <2>2. /\ path' \in Validated(input) /\ result' # "accepted"
        /\ \A p \in DOMAIN input \ Validated(input) : next'[p] = 0
    BY <1>1, <1>2, Zenon DEF CallInv
  <2>. QED
    BY <1>1, <1>7, <2>1, <2>2, Zenon DEF CallInv
<1>. QED
  BY <1>2, <1>3, <1>4, <1>6, <1>8, Zenon

\* The call for a bundle in the body is opened, and nothing is closed.
LEMMA NestStep ==
  ASSUME TypeInv, CallInv, result = "running", result' = result, input' = input,
         next[path] \in NestedAt(path), path' = Append(path, next[path]),
         next' = [next EXCEPT ![path] = @ + 1]
  PROVE  /\ CallInv'
         /\ path' \in DOMAIN input /\ next[path'] = 0
         /\ \A p \in DOMAIN input :
              /\ Closed(p)' <=> Closed(p)
              /\ p # path => next'[p] = next[p]
         /\ next'[path] = next[path] + 1
         /\ ~Closed(path)
         /\ \A p \in DOMAIN input : p = path => NestedBefore(p)' = NestedBefore(p) \cup {path'}
<1>1. /\ IsBundle(input) /\ path \in DOMAIN input /\ next \in [DOMAIN input -> Nat]
      /\ path \in Seq(Nat) /\ path \in Around(path)
  BY TreeFacts, AroundSelf DEF TypeInv
<1>2. next[path] \in Nat /\ path' \in DOMAIN input
  BY <1>1, TreeFacts
<1>3. Around(path)' = Around(path) \cup {path'} /\ path' \notin Around(path)
  <2>1. /\ Around(Append(path, next[path])) = Around(path) \cup {Append(path, next[path])}
        /\ Append(path, next[path]) \notin Around(path)
    BY <1>1, <1>2, AroundAppend
  <2>2. Around(path)' = Around(Append(path, next[path]))
    BY Zenon DEF Around
  <2>. QED
    BY <2>1, <2>2, Zenon
<1>4. next'[path] = next[path] + 1 /\ \A p \in DOMAIN input : p # path => next'[p] = next[p]
  BY <1>1
<1>5. next[path'] = 0 /\ next'[path'] = 0
  <2>1. next[path] >= next[path]
    BY <1>2, SMT, SMTT(30)
  <2>2. next[path'] = 0
    BY <1>1, <2>1, Zenon DEF CallInv
  <2>. QED
    BY <1>1, <1>2, <1>3, <1>4, <2>2, Zenon
<1>6. ASSUME NEW p \in DOMAIN input PROVE Closed(p)' <=> Closed(p)
  <2>1. CASE p = path'
    <3>1. Len(input[p].body) + 1 # 0
      BY <1>1, TreeFacts, ArgsFields, SMT, SMTT(30)
    <3>. QED
      BY <1>5, <2>1, <3>1, ZenonT(30) DEF Closed
  <2>2. CASE p # path'
    BY <1>1, <1>3, <1>4, <2>2, Zenon DEF Closed
  <2>. QED
    BY <2>1, <2>2, Zenon
<1>7. ASSUME NEW p \in DOMAIN input, NEW i \in NestedAt(p), p # path \/ i # next[path]
      PROVE  /\ i < next'[p] <=> i < next[p]
             /\ i >= next'[p] <=> i >= next[p]
             /\ Append(p, i) # path'
  <2>1. p \in Seq(Nat) /\ i \in Nat
    BY <1>1, TreeFacts, Zenon
  <2>2. Append(p, i) # path'
    <3>1. Append(p, i) = Append(path, next[path]) => p = path /\ i = next[path]
      BY <1>1, <1>2, <2>1, AppendInjective, SMTT(30), SMTT(60)
    <3>. QED
      BY <1>7, <3>1, Zenon
  <2>3. next[p] \in Nat /\ next[path] \in Nat
    BY <1>1
  <2>4. CASE p # path
    BY <1>4, <2>2, <2>4, Zenon
  <2>5. CASE p = path
    BY <1>4, <1>7, <2>1, <2>2, <2>3, <2>5, SMT, Zenon, SMTT(30)
  <2>. QED
    BY <2>4, <2>5, SMT, Zenon, SMTT(30)
<1>8. \A p : NestedAt(p)' = NestedAt(p)
  BY Zenon DEF NestedAt
<1>9. next[path] < next'[path] /\ ~(next[path] >= next'[path])
  BY <1>2, <1>4, SMT, Zenon, SMTT(30)
<1>10. ASSUME NEW p \in DOMAIN input, NEW i \in NestedAt(p)
       PROVE  /\ i < next'[p] => Append(p, i) \in Around(path)' \/ Closed(Append(p, i))'
              /\ i >= next'[p] => next'[Append(p, i)] = 0 /\ Append(p, i) \notin Around(path)'
  <2>1. CASE p = path /\ i = next[path]
    BY <1>3, <1>9, <2>1, Zenon
  <2>2. CASE p # path \/ i # next[path]
    <3>1. Append(p, i) \in DOMAIN input
      BY <1>1, TreeFacts, Zenon
    <3>2. /\ i < next[p] => Append(p, i) \in Around(path) \/ Closed(Append(p, i))
          /\ i >= next[p] => next[Append(p, i)] = 0 /\ Append(p, i) \notin Around(path)
      BY Zenon DEF CallInv
    <3>3. Append(p, i) \notin Around(path) => next'[Append(p, i)] = next[Append(p, i)]
      BY <1>1, <1>4, <3>1, Zenon
    <3>. QED
      BY <1>3, <1>6, <1>7, <2>2, <3>1, <3>2, <3>3, Zenon
  <2>. QED
    BY <2>1, <2>2, Zenon
<1>11. CallInv'
  <2>1. /\ path' \in Validated(input) /\ result' # "accepted"
        /\ \A p \in DOMAIN input \ Validated(input) : next'[p] = 0
    <3>1. path' \in Validated(input)
      BY <1>1, ValidatedNested, Zenon DEF CallInv
    <3>. QED
      BY <1>4, <3>1, Zenon DEF CallInv
  <2>. QED
    BY <1>8, <1>10, <2>1, Zenon DEF CallInv
<1>12. ASSUME NEW p \in DOMAIN input, p = path PROVE NestedBefore(p)' = NestedBefore(p) \cup {path'}
  <2>1. ASSUME NEW i \in NestedAt(p) PROVE i < next'[p] <=> i < next[p] \/ i = next[path]
    BY <1>1, <1>7, <1>9, <1>12, Zenon
  <2>2. NestedBefore(p)' = {Append(p, i) : i \in {j \in NestedAt(p) : j < next'[p]}}
    BY <1>8, Zenon DEF NestedBefore
  <2>3. NestedBefore(p) = {Append(p, i) : i \in {j \in NestedAt(p) : j < next[p]}}
    BY Zenon DEF NestedBefore
  <2>4. path' = Append(p, next[path]) /\ next[path] \in NestedAt(p)
    BY <1>12, Zenon
  <2>. QED
    BY <2>1, <2>2, <2>3, <2>4, SMT, Zenon, SMTT(30)
<1>. QED
  BY <1>2, <1>4, <1>5, <1>6, <1>11, <1>12, <1>1, Zenon DEF Closed

\* The call for a bundle in a body returns, and closes that bundle.
LEMMA ReturnStep ==
  ASSUME TypeInv, CallInv, result = "running", result' = result, input' = input,
         path # Top, next[path] = Len(input[path].body) + 1,
         path' = Front(path), next' = next
  PROVE  /\ CallInv'
         /\ path' \in DOMAIN input
         /\ \A p \in DOMAIN input :
              /\ Closed(p)' <=> Closed(p) \/ p = path
              /\ NestedBefore(p)' = NestedBefore(p)
         /\ ~Closed(path)
<1>1. /\ IsBundle(input) /\ path \in DOMAIN input
      /\ path \in Seq(Nat) /\ path \in Around(path)
  BY TreeFacts, AroundSelf DEF TypeInv
<1>2. /\ path' \in DOMAIN input /\ path' \in Validated(input)
      /\ \E i \in NestedAt(path') : path = Append(path', i)
  <2>1. path \in Validated(input)
    BY Zenon DEF CallInv
  <2>2. Front(path) \in Validated(input) /\ \E i \in NestedAt(Front(path)) : path = Append(Front(path), i)
    BY <1>1, <2>1, ValidatedFront, Zenon
  <2>. QED
    BY <1>1, <2>2, TreeFacts, Zenon
<1>3. PICK j \in NestedAt(path') : path = Append(path', j)
  BY <1>2
<1>4. path' \in Seq(Nat) /\ j \in Nat
  BY <1>1, <1>2, TreeFacts, Zenon
<1>5. Around(path) = Around(path)' \cup {path} /\ path \notin Around(path)'
  <2>1. Around(Append(path', j)) = Around(path') \cup {Append(path', j)} /\ Append(path', j) \notin Around(path')
    BY <1>4, AroundAppend
  <2>2. Around(path)' = Around(path')
    BY Zenon DEF Around
  <2>. QED
    BY <1>3, <2>1, <2>2, Zenon
<1>6. ASSUME NEW p \in DOMAIN input
      PROVE  /\ Closed(p)' <=> Closed(p) \/ p = path
             /\ NestedBefore(p)' = NestedBefore(p)
             /\ NestedAt(p)' = NestedAt(p)
  <2>1. Closed(p)' <=> Closed(p) \/ p = path
    BY <1>5, Zenon DEF Closed
  <2>. QED
    BY <2>1, Zenon DEF NestedBefore, NestedAt
<1>7. ~Closed(path)
  BY <1>1, Zenon DEF Closed
<1>8. ASSUME NEW p \in DOMAIN input, NEW i \in NestedAt(p)
      PROVE  /\ i < next[p] => Append(p, i) \in Around(path)' \/ Closed(Append(p, i))'
             /\ i >= next[p] => next[Append(p, i)] = 0 /\ Append(p, i) \notin Around(path)'
  <2>1. Append(p, i) \in DOMAIN input
    BY <1>1, TreeFacts, Zenon
  <2>2. /\ i < next[p] => Append(p, i) \in Around(path) \/ Closed(Append(p, i))
        /\ i >= next[p] => next[Append(p, i)] = 0 /\ Append(p, i) \notin Around(path)
    BY Zenon DEF CallInv
  <2>. QED
    BY <1>5, <1>6, <2>1, <2>2, Zenon
<1>9. CallInv'
  <2>1. /\ path' \in Validated(input) /\ result' # "accepted"
        /\ \A p \in DOMAIN input \ Validated(input) : next'[p] = 0
    BY <1>2, Zenon DEF CallInv
  <2>. QED
    BY <1>6, <1>8, <2>1, ZenonT(30) DEF CallInv
<1>. QED
  BY <1>2, <1>6, <1>7, <1>9, ZenonT(30)

\* The outermost call returns.
LEMMA AcceptStep ==
  ASSUME TypeInv, CallInv, result = "running", result' = "accepted", input' = input,
         path = Top, next[path] = Len(input[path].body) + 1, path' = path, next' = next
  PROVE  /\ CallInv'
         /\ \A p \in DOMAIN input :
              /\ Closed(p)' <=> Closed(p) \/ p = path
              /\ NestedBefore(p)' = NestedBefore(p)
         /\ ~Closed(path)
<1>1. /\ IsBundle(input) /\ path \in DOMAIN input
      /\ path \in Seq(Nat) /\ path \in Around(path)
  BY TreeFacts, AroundSelf DEF TypeInv
<1>2. Around(path) = {path} /\ Around(path)' = Around(path)
  BY <1>1, AroundSelf, Zenon
<1>3. ASSUME NEW p \in DOMAIN input
      PROVE  /\ Closed(p)' <=> Closed(p) \/ p = path
             /\ NestedBefore(p)' = NestedBefore(p)
             /\ NestedAt(p)' = NestedAt(p)
  <2>1. Closed(p)' <=> Closed(p) \/ p = path
    BY <1>2, Zenon DEF Closed
  <2>. QED
    BY <2>1, Zenon DEF NestedBefore, NestedAt
<1>4. ~Closed(path)
  BY <1>1 DEF Closed
<1>5. ASSUME NEW p \in DOMAIN input, NEW i \in NestedAt(p)
      PROVE  /\ i < next[p] => Append(p, i) \in Around(path)' \/ Closed(Append(p, i))'
             /\ i >= next[p] => next[Append(p, i)] = 0 /\ Append(p, i) \notin Around(path)'
  <2>1. Append(p, i) \in DOMAIN input
    BY <1>1, TreeFacts, Zenon
  <2>2. /\ i < next[p] => Append(p, i) \in Around(path) \/ Closed(Append(p, i))
        /\ i >= next[p] => next[Append(p, i)] = 0 /\ Append(p, i) \notin Around(path)
    BY Zenon DEF CallInv
  <2>. QED
    BY <1>2, <1>3, <2>1, <2>2, Zenon
<1>6. CallInv'
  <2>1. /\ path' \in Validated(input) /\ path' = Top
        /\ \A p \in DOMAIN input \ Validated(input) : next'[p] = 0
    BY <1>2, Zenon DEF CallInv
  <2>2. Closed(Top)'
    BY Zenon DEF Closed, Top
  <2>. QED
    BY <1>3, <1>5, <2>1, <2>2, Zenon DEF CallInv
<1>. QED
  BY <1>3, <1>4, <1>6, Zenon

\* An error leaves everything as it is.
LEMMA RefuseStep ==
  ASSUME IInv, result = "running", Refuse, UNCHANGED <<input, currentBlock>>
  PROVE  IInv'
<1>1. \A p : Closed(p)' <=> Closed(p)
  BY DEF Closed, Refuse
<1>2. TypeInv'
  BY DEF IInv, TypeInv, Refuse
<1>3. CallInv'
  <2>1. \A p : NestedAt(p)' = NestedAt(p)
    BY Zenon DEF NestedAt
  <2>. QED
    BY <1>1, <2>1 DEF IInv, CallInv, Refuse
<1>4. ASSUME NEW p \in DOMAIN input' PROVE Each(p)'
  <2>1. p \in DOMAIN input /\ Each(p)
    BY DEF IInv
  <2>. QED
    BY <1>1, <2>1, EachUnchanged, Zenon DEF Refuse
<1>. QED
  BY <1>2, <1>3, <1>4, Zenon DEF IInv

-----------------------------------------------------------------------------
\* What is known of a bundle stays known when a step leaves alone what it
\* depends on.
LEMMA BlocksKept ==
  ASSUME NEW p, BlocksInv(p), input' = input, currentBlock' = currentBlock,
         bundle'[p].block = bundle[p].block, bundle'[p].maxBlock = bundle[p].maxBlock,
         NestedBefore(p)' = NestedBefore(p), next[p] # 0, next'[p] # 0
  PROVE  BlocksInv(p)'
<1>1. \A q : InTime(q)' <=> InTime(q)
  BY Zenon DEF InTime, InclusionOk
<1>2. BlocksOf(bundle[p])' = BlocksOf(bundle[p])
  BY Zenon DEF BlocksOf
<1>. QED
  BY <1>1, <1>2, Zenon DEF BlocksInv

\* The same for what is known of the privacy.
LEMMA PrivacyKept ==
  ASSUME NEW p, PrivacyInv(p), input' = input, bundle'[p].privacy = bundle[p].privacy,
         NestedBefore(p)' = NestedBefore(p), Closed(p)' <=> Closed(p)
  PROVE  PrivacyInv(p)'
BY Zenon DEF PrivacyInv

\* The same for what is known of the body.
LEMMA BodyKept ==
  ASSUME NEW p, BodyInv(p), input' = input, bundle'[p].body = bundle[p].body,
         bundle'[p].refund = bundle[p].refund, bundle'[p].refundConfig = bundle[p].refundConfig,
         \A i \in DOMAIN input[p].body : Branch(input[p].body[i]) = "tx" => (i < next'[p] <=> i < next[p])
  PROVE  BodyInv(p)'
BY Zenon DEF BodyInv

\* The same for what is known of the hashes.
LEMMA HashKept ==
  ASSUME NEW p, HashInv(p), input' = input, unmatched'[p] = unmatched[p],
         \A i \in HashElements(input[p]) : i < next'[p] <=> i < next[p]
  PROVE  HashInv(p)'
<1>1. {i \in HashElements(input[p]) : i < next'[p]} = {i \in HashElements(input[p]) : i < next[p]}
  OBVIOUS
<1>. QED
  BY <1>1, Zenon DEF HashInv

\* The loop turns to an element that is still as it was submitted.
LEMMA AtElementIs ==
  ASSUME IInv, NEW branch, AtElement(branch)
  PROVE  /\ next[path] \in DOMAIN input[path].body
         /\ bundle[path].body[next[path]] = input[path].body[next[path]]
         /\ Branch(input[path].body[next[path]]) = branch
         /\ next[path] \in 1 .. Len(input[path].body)
         /\ branch # "bundle" => next[path] \notin NestedAt(path)
         /\ branch = "bundle" => next[path] \in NestedAt(path)
<1>1. /\ IsBundle(input) /\ path \in DOMAIN input /\ next \in [DOMAIN input -> Nat]
      /\ bundle \in [DOMAIN input -> Args] /\ BodyInv(path)
  BY Zenon DEF IInv, TypeInv, Each
<1>2. input[path].body \in Seq(Element) /\ bundle[path].body \in Seq(Element)
  BY <1>1, TreeFacts, ArgsFields, SMT, Zenon, SMTT(30)
<1>3. Len(bundle[path].body) = Len(input[path].body)
  BY <1>1, Zenon DEF BodyInv
<1>4. DOMAIN bundle[path].body = DOMAIN input[path].body /\ DOMAIN input[path].body = 1 .. Len(input[path].body)
  BY <1>2, <1>3, SMT, SMTT(30)
<1>5. next[path] \in DOMAIN input[path].body /\ Branch(bundle[path].body[next[path]]) = branch
  BY <1>4, Zenon DEF AtElement
<1>6. ~(next[path] < next[path])
  BY <1>1, SMT, SMTT(30)
<1>7. bundle[path].body[next[path]] = input[path].body[next[path]]
  BY <1>1, <1>5, <1>6, Zenon DEF BodyInv
<1>. QED
  BY <1>4, <1>5, <1>7, Zenon DEF NestedAt

\* A step of the loop keeps the types.
LEMMA AdvanceType ==
  ASSUME TypeInv, UNCHANGED <<input, currentBlock, result>>, Advance,
         next[path] <= Len(input[path].body),
         path' \in DOMAIN input, bundle' \in [DOMAIN input -> Args],
         txs' \in [DOMAIN input -> Nat], unmatched' \in [DOMAIN input -> BOOLEAN]
  PROVE  TypeInv'
<1>1. path \in DOMAIN input /\ next \in [DOMAIN input -> Nat] /\ IsBundle(input)
  BY DEF TypeInv
<1>2. next' \in [DOMAIN input -> Nat]
  BY <1>1, SMT, SMTT(30) DEF Advance
<1>3. ASSUME NEW p \in DOMAIN input PROVE next'[p] <= Len(input[p].body) + 1
  <2>1. next[p] <= Len(input[p].body) + 1 /\ next[p] \in Nat /\ next[path] \in Nat
    BY <1>1 DEF TypeInv
  <2>2. Len(input[p].body) \in Nat
    BY <1>1, TreeFacts, ArgsFields, SMT, Zenon, SMTT(30)
  <2>3. next'[p] = IF p = path THEN next[path] + 1 ELSE next[p]
    BY <1>1, Zenon DEF Advance
  <2>. QED
    BY <2>1, <2>2, <2>3, SMT, SMTT(30)
<1>. QED
  BY <1>2, <1>3, Zenon DEF TypeInv

-----------------------------------------------------------------------------
\* The checks before the loop establish the inclusion.
LEMMA EnterStep ==
  ASSUME IInv, result = "running", Enter, UNCHANGED <<input, currentBlock>>
  PROVE  IInv'
<1>. DEFINE b == DefaultMaxBlock(bundle[path])
<1>1. CASE Refuse
  BY <1>1, RefuseStep
<1>2. CASE /\ Len(path) <= MaxNestingLevel /\ InclusionOk(b) /\ b.body # << >>
           /\ bundle' = [bundle EXCEPT ![path] = b] /\ Advance
           /\ UNCHANGED <<path, txs, unmatched, result>>
  <2>1. /\ TypeInv /\ CallInv /\ IsBundle(input) /\ path \in DOMAIN input
        /\ next \in [DOMAIN input -> Nat] /\ bundle \in [DOMAIN input -> Args]
        /\ currentBlock \in Nat /\ currentBlock >= MaxBlockRange
        /\ next[path] = 0
    BY Zenon DEF IInv, TypeInv, Enter
  <2>2. next[path] \notin NestedAt(path)
    <3>1. \A i \in NestedAt(path) : i \in Nat /\ i >= 1
      BY <2>1, TreeFacts, Zenon
    <3>. QED
      BY <2>1, <3>1, SMT, Zenon, SMTT(30)
  <2>3. /\ CallInv'
        /\ \A p \in DOMAIN input :
             /\ Closed(p)' <=> Closed(p)
             /\ NestedBefore(p)' = NestedBefore(p)
             /\ p # path => next'[p] = next[p]
        /\ next'[path] = 1
        /\ ~Closed(path)
    <3>1. next[path] + 1 = 1
      BY <2>1, SMT, SMTT(30)
    <3>. QED
      BY <1>2, <2>1, <2>2, <3>1, LocalStep, Zenon DEF Advance
  <2>4. b \in Args /\ bundle' \in [DOMAIN input -> Args] /\ bundle'[path] = b
    <3>1. b \in Args
      BY <2>1, DefaultMaxBlockIs, SMT, Zenon, SMTT(30)
    <3>. HIDE DEF b
    <3>. QED
      BY <1>2, <2>1, <3>1, SMT, Zenon, SMTT(30)
  <2>5. \A p \in DOMAIN input : p # path => bundle'[p] = bundle[p]
    BY <1>2, <2>1, Zenon
  <2>6. TypeInv'
    <3>1. next[path] <= Len(input[path].body)
      BY <2>1, TreeFacts, ArgsFields, SMT, Zenon, SMTT(30)
    <3>. QED
      BY <1>2, <2>1, <2>4, <3>1, AdvanceType, Zenon DEF TypeInv
  <2>7. ASSUME NEW p \in DOMAIN input, p = path PROVE Each(p)'
    <3>1. BodyInv(p) /\ BlocksInv(p) /\ PrivacyInv(p) /\ HashInv(p) /\ input[p] \in Args /\ bundle[p] \in Args
      BY <2>1, TreeFacts, ZenonT(30) DEF IInv, Each
    <3>2. /\ bundle'[p].block = bundle[p].block
          /\ bundle'[p].maxBlock = IF bundle[p].maxBlock = 0 THEN bundle[p].block ELSE bundle[p].maxBlock
          /\ bundle'[p].body = bundle[p].body
          /\ bundle'[p].privacy = bundle[p].privacy
          /\ bundle'[p].refund = bundle[p].refund
          /\ bundle'[p].refundConfig = bundle[p].refundConfig
      <4>1. bundle'[p] = DefaultMaxBlock(bundle[p])
        BY <2>4, <2>7, Zenon
      <4>. QED
        BY <3>1, <4>1, DefaultMaxBlockIs, SMT, Zenon, SMTT(30)
    <3>3. \A i \in DOMAIN input[p].body : ~(i < 1) /\ ~(i < 0)
      BY <3>1, ArgsFields, SMT, Zenon, SMTT(30)
    <3>4. BodyInv(p)'
      BY <2>1, <2>3, <2>7, <3>1, <3>2, <3>3, BodyKept, Zenon
    <3>5. HashInv(p)'
      BY <1>2, <2>1, <2>3, <2>7, <3>1, <3>3, HashKept, HashElementsAre, Zenon
    <3>6. PrivacyInv(p)'
      BY <2>3, <3>1, <3>2, PrivacyKept, Zenon
    <3>7. ClosedInv(p)'
      BY <2>3, <2>7, Zenon DEF ClosedInv
    <3>8. BlocksInv(p)'
      <4>1. bundle[p].block = input[p].block /\ bundle[p].maxBlock = input[p].maxBlock
        BY <2>1, <2>7, <3>1, Zenon DEF BlocksInv
      <4>2. /\ bundle'[p].block = DefaultMaxBlock(input[p]).block
            /\ bundle'[p].maxBlock = DefaultMaxBlock(input[p]).maxBlock
        BY <3>1, <3>2, <4>1, DefaultMaxBlockIs, SMT, Zenon, SMTT(30)
      <4>3. InclusionOk(bundle'[p])
        BY <1>2, <2>4, <2>7, Zenon
      <4>4. InTime(p) /\ InTime(p)'
        BY <4>2, <4>3, Zenon DEF InTime, InclusionOk
      <4>5. NestedBefore(p)' = {}
        <5>1. NestedBefore(p) = {}
          BY <2>1, <2>7, <3>3, Zenon DEF NestedBefore, NestedAt
        <5>. QED
          BY <2>3, <5>1, Zenon
      <4>6. BlocksOf(bundle[p])' = Declared(input[p])
        BY <4>2, Zenon DEF BlocksOf, Declared
      <4>7. bundle'[p] \in Args
        BY <2>4, <2>7, Zenon
      <4>8. 1 <= bundle'[p].block
        BY <2>1, <4>3, <4>7, ValidationAssumption, ArgsFields, SMT, Zenon, SMTT(30) DEF InclusionOk
      <4>9. bundle'[p].block <= bundle'[p].maxBlock /\ currentBlock < bundle'[p].maxBlock
            /\ bundle'[p].block <= currentBlock + MaxBlockOffset
        BY <4>3, Zenon DEF InclusionOk
      <4>10. next'[p] # 0 /\ Len(p) <= MaxNestingLevel
        BY <1>2, <2>3, <2>7, SMT, Zenon, SMTT(30)
      <4>11. input[p].body # << >>
        <5>1. Len(bundle[p].body) = Len(input[p].body) /\ bundle[p].body # << >>
          BY <1>2, <2>4, <2>7, <3>1, <3>2, Zenon DEF BodyInv
        <5>. QED
          BY <3>1, <5>1, ArgsFields, SMT, Zenon, SMTT(30)
      <4>. QED
        BY <4>4, <4>5, <4>6, <4>8, <4>9, <4>10, <4>11, Zenon DEF BlocksInv
    <3>. QED
      BY <3>4, <3>5, <3>6, <3>7, <3>8, Zenon DEF Each
  <2>8. ASSUME NEW p \in DOMAIN input, p # path PROVE Each(p)'
    BY <1>2, <2>3, <2>5, <2>8, EachUnchanged, ZenonT(30) DEF IInv
  <2>. QED
    BY <2>3, <2>6, <2>7, <2>8, Zenon DEF IInv
<1>. QED
  BY <1>1, <1>2, Zenon DEF Enter, cleanBody

\* A step past an element that is no bundle, which leaves the inclusion and
\* the privacy alone.
LEMMA ElementStep ==
  ASSUME IInv, result = "running", UNCHANGED <<input, currentBlock, path, result>>, Advance,
         NEW branch, branch # "bundle", AtElement(branch),
         bundle' \in [DOMAIN input -> Args], txs' \in [DOMAIN input -> Nat],
         unmatched' \in [DOMAIN input -> BOOLEAN],
         \A p \in DOMAIN input : p # path => bundle'[p] = bundle[p] /\ unmatched'[p] = unmatched[p],
         bundle'[path].block = bundle[path].block, bundle'[path].maxBlock = bundle[path].maxBlock,
         bundle'[path].privacy = bundle[path].privacy,
         \A p \in DOMAIN input : p = path => BodyInv(p)' /\ HashInv(p)'
  PROVE  IInv'
<1>1. TypeInv /\ CallInv /\ path \in DOMAIN input /\ next \in [DOMAIN input -> Nat]
  BY Zenon DEF IInv, TypeInv
<1>2. next[path] \notin NestedAt(path) /\ next[path] \in 1 .. Len(input[path].body)
  BY AtElementIs, Zenon
<1>3. /\ CallInv'
      /\ \A p \in DOMAIN input :
           /\ Closed(p)' <=> Closed(p)
           /\ NestedBefore(p)' = NestedBefore(p)
           /\ p # path => next'[p] = next[p]
      /\ next'[path] = next[path] + 1
      /\ ~Closed(path)
  BY <1>1, <1>2, LocalStep, Zenon DEF Advance
<1>4. TypeInv'
  <2>1. next[path] <= Len(input[path].body)
    BY <1>2, SMT, SMTT(30)
  <2>. QED
    BY <1>1, <2>1, AdvanceType, Zenon
<1>5. ASSUME NEW p \in DOMAIN input, p = path PROVE Each(p)'
  <2>1. BlocksInv(p) /\ PrivacyInv(p)
    BY Zenon DEF IInv, Each
  <2>2. next[p] # 0 /\ next'[p] # 0
    BY <1>1, <1>2, <1>3, <1>5, SMT, Zenon, SMTT(30)
  <2>3. BlocksInv(p)'
    BY <1>3, <1>5, <2>1, <2>2, BlocksKept, Zenon
  <2>4. PrivacyInv(p)'
    BY <1>3, <1>5, <2>1, PrivacyKept, Zenon
  <2>5. ClosedInv(p)'
    BY <1>3, <1>5, Zenon DEF ClosedInv
  <2>. QED
    BY <1>5, <2>3, <2>4, <2>5, Zenon DEF Each
<1>6. ASSUME NEW p \in DOMAIN input, p # path PROVE Each(p)'
  BY <1>3, <1>6, EachUnchanged, Zenon DEF IInv
<1>. QED
  BY <1>3, <1>4, <1>5, <1>6, Zenon DEF IInv

\* The elements the loop has passed.
LEMMA Passed ==
  ASSUME IInv, Advance, NEW branch, AtElement(branch), NEW p \in DOMAIN input, p = path,
         NEW i \in DOMAIN input[p].body
  PROVE  /\ next[p] \in DOMAIN input[p].body /\ Branch(input[p].body[next[p]]) = branch
         /\ next'[p] = next[p] + 1
         /\ i # next[p] => (i < next'[p] <=> i < next[p])
         /\ next[p] < next'[p] /\ ~(next[p] < next[p])
<1>1. next \in [DOMAIN input -> Nat] /\ input[p] \in Args
  BY TreeFacts DEF IInv, TypeInv
<1>2. i \in Nat /\ next[p] \in Nat
  BY <1>1, ArgsFields, SMT, SMTT(30)
<1>3. next'[p] = next[p] + 1
  BY <1>1 DEF Advance
<1>4. next[p] \in DOMAIN input[p].body /\ Branch(input[p].body[next[p]]) = branch
  BY AtElementIs, Zenon
<1>. QED
  BY <1>2, <1>3, <1>4, SMT, Zenon, SMTT(30)

\* HashElement preserves the invariant.
LEMMA HashElementStep ==
  ASSUME IInv, result = "running", HashElement, UNCHANGED <<input, currentBlock>>
  PROVE  IInv'
<1>1. CASE Refuse
  BY <1>1, RefuseStep
<1>2. CASE /\ HashAllowed(next[path], unmatched[path]) /\ Len(bundle[path].body) > 1
           /\ unmatched' = [unmatched EXCEPT ![path] = TRUE]
           /\ txs' = [txs EXCEPT ![path] = @ + 1]
           /\ Advance
           /\ UNCHANGED <<bundle, path, result>>
  <2>1. /\ path \in DOMAIN input /\ bundle \in [DOMAIN input -> Args] /\ IsBundle(input)
        /\ txs \in [DOMAIN input -> Nat] /\ unmatched \in [DOMAIN input -> BOOLEAN]
        /\ AtElement("hash")
    BY Zenon DEF IInv, TypeInv, HashElement
  <2>2. txs' \in [DOMAIN input -> Nat] /\ unmatched' \in [DOMAIN input -> BOOLEAN] /\ unmatched'[path] = TRUE
        /\ \A p \in DOMAIN input : p # path => unmatched'[p] = unmatched[p]
    BY <1>2, <2>1, SMT, SMTT(30)
  <2>3. ASSUME NEW p \in DOMAIN input, p = path PROVE BodyInv(p)' /\ HashInv(p)'
    <3>1. BodyInv(p) /\ input[p] \in Args
      BY <2>1, TreeFacts, Zenon DEF IInv, Each
    <3>2. ASSUME NEW i \in DOMAIN input[p].body
          PROVE  /\ next[p] \in DOMAIN input[p].body /\ Branch(input[p].body[next[p]]) = "hash"
                 /\ next'[p] = next[p] + 1
                 /\ i # next[p] => (i < next'[p] <=> i < next[p])
                 /\ next[p] < next'[p]
      BY <1>2, <2>1, <2>3, Passed, Zenon
    <3>3. BodyInv(p)'
      <4>1. \A i \in DOMAIN input[p].body : Branch(input[p].body[i]) = "tx" => (i < next'[p] <=> i < next[p])
        BY <3>2
      <4>. QED
        BY <1>2, <3>1, <4>1, BodyKept, Zenon
    <3>4. next[p] = 1
      BY <1>2, <2>3, Zenon DEF HashAllowed
    <3>5. {i \in HashElements(input[p]) : i < next'[p]} = {1}
      <4>1. 1 \in HashElements(input[p]) /\ next'[p] = 2
        <5>1. AtElement("hash") => next[path] \in DOMAIN input[path].body
          BY AtElementIs, Zenon
        <5>. QED
          BY <2>1, <2>3, <3>1, <3>2, <3>4, <5>1, HashElementsAre, SMT, Zenon, SMTT(30)
      <4>2. \A i \in HashElements(input[p]) : i \in Nat /\ i >= 1
        <5>1. \A i \in DOMAIN input[p].body : i \in Nat /\ i >= 1
          BY <3>1, ArgsFields, SMT, SMTT(30)
        <5>. QED
          BY <3>1, <5>1, HashElementsAre, Zenon
      <4>. QED
        BY <4>1, <4>2, SMT, SMTT(30)
    <3>6. Len(input[p].body) > 1
      BY <1>2, <2>3, <3>1, Zenon DEF BodyInv
    <3>7. HashInv(p)'
      BY <2>2, <2>3, <3>5, <3>6, Zenon DEF HashInv
    <3>. QED
      BY <3>3, <3>7
  <2>. QED
    BY <1>2, <2>1, <2>2, <2>3, ElementStep, SMT, Zenon, SMTT(30)
<1>. QED
  BY <1>1, <1>2, ZenonT(30) DEF HashElement

\* EmptyElement preserves the invariant.
LEMMA EmptyElementStep ==
  ASSUME IInv, result = "running", EmptyElement, UNCHANGED <<input, currentBlock>>
  PROVE  IInv'
<1>1. /\ bundle \in [DOMAIN input -> Args]
      /\ txs \in [DOMAIN input -> Nat] /\ unmatched \in [DOMAIN input -> BOOLEAN]
      /\ AtElement("empty") /\ Advance /\ UNCHANGED <<bundle, path, txs, unmatched, result>>
  BY Zenon DEF IInv, TypeInv, EmptyElement
<1>2. ASSUME NEW p \in DOMAIN input, p = path PROVE BodyInv(p)' /\ HashInv(p)'
  <2>1. BodyInv(p) /\ HashInv(p)
    BY Zenon DEF IInv, Each
  <2>2. ASSUME NEW i \in DOMAIN input[p].body, Branch(input[p].body[i]) # "empty"
        PROVE  i < next'[p] <=> i < next[p]
    BY <1>1, <1>2, <2>2, Passed, Zenon
  <2>3. BodyInv(p)'
    <3>1. \A i \in DOMAIN input[p].body : Branch(input[p].body[i]) = "tx" => (i < next'[p] <=> i < next[p])
      BY <2>2
    <3>. QED
      BY <1>1, <2>1, <3>1, BodyKept, Zenon
  <2>4. HashInv(p)'
    <3>1. \A i \in HashElements(input[p]) : i < next'[p] <=> i < next[p]
      <4>1. input[p] \in Args
        BY TreeFacts, Zenon DEF IInv, TypeInv
      <4>. QED
        BY <2>2, <4>1, HashElementsAre
    <3>. QED
      BY <1>1, <2>1, <3>1, HashKept, Zenon
  <2>. QED
    BY <2>3, <2>4
<1>. QED
  BY <1>1, <1>2, ElementStep

\* TxElement preserves the invariant.
LEMMA TxElementStep ==
  ASSUME IInv, result = "running", TxElement, UNCHANGED <<input, currentBlock>>
  PROVE  IInv'
<1>. DEFINE n == next[path]
            el == bundle[path].body[n]
<1>1. CASE Refuse
  BY <1>1, RefuseStep
<1>2. CASE /\ validateRevertMode(el.revertMode)
           /\ bundle' = [bundle EXCEPT ![path].body[n] = applyRevertMode(@)]
           /\ txs' = [txs EXCEPT ![path] = @ + 1]
           /\ Advance
           /\ UNCHANGED <<path, unmatched, result>>
  <2>1. /\ path \in DOMAIN input /\ bundle \in [DOMAIN input -> Args] /\ IsBundle(input)
        /\ txs \in [DOMAIN input -> Nat] /\ unmatched \in [DOMAIN input -> BOOLEAN]
        /\ AtElement("tx")
    BY Zenon DEF IInv, TypeInv, TxElement
  <2>2. txs' \in [DOMAIN input -> Nat]
    BY <1>2, <2>1, SMT, SMTT(30)
  <2>3. /\ n \in DOMAIN bundle[path].body /\ el = input[path].body[n]
    BY <2>1, AtElementIs, Zenon DEF AtElement
  <2>4. el \in Element /\ bundle[path] \in Args
    BY <2>1, <2>3, ArgsFields, SMT, Zenon, SMTT(30)
  <2>5. applyRevertMode(el) \in Element
    BY <2>4, AppliedIs
  <2>. DEFINE w == [bundle[path] EXCEPT !.body[n] = applyRevertMode(el)]
  <2>6. /\ w \in Args
        /\ w.body = [bundle[path].body EXCEPT ![n] = applyRevertMode(el)]
        /\ Len(w.body) = Len(bundle[path].body)
        /\ w.block = bundle[path].block
        /\ w.maxBlock = bundle[path].maxBlock
        /\ w.refund = bundle[path].refund
        /\ w.refundConfig = bundle[path].refundConfig
        /\ w.privacy = bundle[path].privacy
    <3>. DEFINE b == bundle[path]
                e == applyRevertMode(el)
                m == n
    <3>1. b \in Args /\ m \in DOMAIN b.body /\ e \in Element
      BY <2>3, <2>4, <2>5, SMT, Zenon, SMTT(30)
    <3>2. w = [b EXCEPT !.body[m] = e]
      OBVIOUS
    <3>. HIDE DEF b, m, e
    <3>3. /\ [b EXCEPT !.body[m] = e] \in Args
          /\ [b EXCEPT !.body[m] = e].body = [b.body EXCEPT ![m] = e]
          /\ Len([b EXCEPT !.body[m] = e].body) = Len(b.body)
          /\ [b EXCEPT !.body[m] = e].block = b.block
          /\ [b EXCEPT !.body[m] = e].maxBlock = b.maxBlock
          /\ [b EXCEPT !.body[m] = e].refund = b.refund
          /\ [b EXCEPT !.body[m] = e].refundConfig = b.refundConfig
          /\ [b EXCEPT !.body[m] = e].privacy = b.privacy
      BY <3>1, WrittenIs, Zenon
    <3>. QED
      BY <3>3, Zenon DEF b, m, e
  <2>7. bundle' = [bundle EXCEPT ![path] = w]
    BY <1>2, Zenon
  <2>. HIDE DEF w
  <2>8. /\ bundle' \in [DOMAIN input -> Args] /\ bundle'[path] = w
        /\ \A p \in DOMAIN input : p # path => bundle'[p] = bundle[p]
    BY <2>1, <2>6, <2>7, SMT, Zenon, SMTT(30)
  <2>9. ASSUME NEW p \in DOMAIN input, p = path PROVE BodyInv(p)' /\ HashInv(p)'
    <3>1. BodyInv(p) /\ HashInv(p)
      BY Zenon DEF IInv, Each
    <3>2. ASSUME NEW i \in DOMAIN input[p].body
          PROVE  /\ i # n => (i < next'[p] <=> i < next[p])
                 /\ n < next'[p] /\ ~(n < n)
                 /\ Branch(input[p].body[n]) = "tx"
      BY <1>2, <2>1, <2>9, Passed, Zenon
    <3>3. HashInv(p)'
      <4>1. \A i \in HashElements(input[p]) : i < next'[p] <=> i < next[p]
        <5>1. input[p] \in Args
          BY TreeFacts, Zenon DEF IInv, TypeInv
        <5>. QED
          BY <3>2, <5>1, HashElementsAre
      <4>. QED
        BY <1>2, <3>1, <4>1, HashKept, Zenon
    <3>4. bundle[p].body \in Seq(Element) /\ input[p].body \in Seq(Element)
          /\ DOMAIN bundle[p].body = DOMAIN input[p].body
      <4>1. bundle[p].body \in Seq(Element) /\ input[p].body \in Seq(Element)
        BY <2>1, TreeFacts, ArgsFields
      <4>2. Len(bundle[p].body) = Len(input[p].body)
        BY <3>1, Zenon DEF BodyInv
      <4>. QED
        BY <4>1, <4>2, SMT, SMTT(30)
    <3>5. ASSUME NEW i \in DOMAIN input[p].body
          PROVE  IF Branch(input[p].body[i]) = "tx" /\ i < next'[p]
                   THEN /\ validateRevertMode(input[p].body[i].revertMode)
                        /\ bundle'[p].body[i] = applyRevertMode(input[p].body[i])
                   ELSE bundle'[p].body[i] = input[p].body[i]
      <4>1. bundle'[p].body[i] = IF i = n THEN applyRevertMode(el) ELSE bundle[p].body[i]
        BY <2>3, <2>6, <2>8, <2>9, <3>4, Zenon
      <4>2. CASE i = n
        BY <1>2, <2>3, <2>9, <3>2, <4>1, <4>2, Zenon
      <4>3. CASE i # n
        <5>1. IF Branch(input[p].body[i]) = "tx" /\ i < next[p]
                   THEN /\ validateRevertMode(input[p].body[i].revertMode)
                        /\ bundle[p].body[i] = applyRevertMode(input[p].body[i])
                   ELSE bundle[p].body[i] = input[p].body[i]
          BY <3>1, Zenon DEF BodyInv
        <5>. QED
          BY <3>2, <4>1, <4>3, <5>1, Zenon
      <4>. QED
        BY <4>2, <4>3
    <3>6. BodyInv(p)'
      <4>1. /\ bundle'[p].refund = input[p].refund
            /\ bundle'[p].refundConfig = input[p].refundConfig
            /\ Len(bundle'[p].body) = Len(input[p].body)
        BY <2>6, <2>8, <2>9, <3>1, Zenon DEF BodyInv
      <4>. QED
        BY <3>5, <4>1, Zenon DEF BodyInv
    <3>. QED
      BY <3>3, <3>6, SMT, Zenon, SMTT(30)
  <2>. QED
    BY <1>2, <2>1, <2>2, <2>6, <2>8, <2>9, ElementStep, SMT, Zenon, SMTT(30)
<1>. QED
  BY <1>1, <1>2, Zenon DEF TxElement

\* Merging the inclusion of a bundle that is not yet checked.
LEMMA MergedBlocks ==
  ASSUME NEW b \in Args, NEW el \in Args, Overlap(b, el), 1 <= b.block
  PROVE  /\ BlocksOf(Merged(b, el)) = BlocksOf(b) \cap Declared(el)
         /\ 1 <= Merged(b, el).block
         /\ DefaultMaxBlock(el).block = el.block /\ DefaultMaxBlock(el).maxBlock = el.maxBlock
<1>1. /\ b.block \in Nat /\ b.maxBlock \in Nat /\ el.block \in Nat /\ el.maxBlock \in Nat
      /\ DefaultMaxBlock(el).block = el.block
      /\ DefaultMaxBlock(el).maxBlock = IF el.maxBlock = 0 THEN el.block ELSE el.maxBlock
      /\ Merged(b, el).block = IF b.block < el.block THEN el.block ELSE b.block
      /\ Merged(b, el).maxBlock = IF b.maxBlock > el.maxBlock THEN el.maxBlock ELSE b.maxBlock
  BY ArgsFields, DefaultMaxBlockIs, MergedBlocksAre
<1>2. el.maxBlock # 0
  BY <1>1, SMT, SMTT(30) DEF Overlap
<1>3. BlocksOf(Merged(b, el)) = {n \in b.block .. b.maxBlock : n \in el.block .. el.maxBlock}
  BY <1>1, SMT, SMTT(30) DEF BlocksOf
<1>. QED
  BY <1>1, <1>2, <1>3, SMT, Zenon, SMTT(30) DEF BlocksOf, Declared

\* BundleElement, the start of a recursive call, preserves the invariant.
LEMMA BundleElementStep ==
  ASSUME IInv, result = "running", BundleElement, UNCHANGED <<input, currentBlock>>
  PROVE  IInv'
<1>. DEFINE q == Append(path, next[path])
            m == Merged(bundle[path], bundle[q])
<1>1. CASE Refuse
  BY <1>1, RefuseStep
<1>2. CASE /\ Overlap(bundle[path], bundle[q])
           /\ bundle' = [bundle EXCEPT ![path] = m]
           /\ path' = q
           /\ Advance
           /\ UNCHANGED <<txs, unmatched, result>>
  <2>1. /\ TypeInv /\ CallInv /\ path \in DOMAIN input /\ bundle \in [DOMAIN input -> Args]
        /\ IsBundle(input) /\ AtElement("bundle") /\ next \in [DOMAIN input -> Nat]
        /\ txs \in [DOMAIN input -> Nat] /\ unmatched \in [DOMAIN input -> BOOLEAN]
    BY Zenon DEF IInv, TypeInv, BundleElement
  <2>2. next[path] \in NestedAt(path) /\ next[path] \in 1 .. Len(input[path].body)
    BY <2>1, AtElementIs, Zenon
  <2>3. /\ CallInv'
        /\ q \in DOMAIN input /\ next[q] = 0
        /\ \A p \in DOMAIN input :
             /\ Closed(p)' <=> Closed(p)
             /\ p # path => next'[p] = next[p]
        /\ next'[path] = next[path] + 1
        /\ ~Closed(path)
        /\ \A p \in DOMAIN input : p = path => NestedBefore(p)' = NestedBefore(p) \cup {q}
    BY <1>2, <2>1, <2>2, NestStep, Zenon DEF Advance
  <2>4. bundle[path] \in Args /\ bundle[q] \in Args /\ m \in Args
    BY <2>1, <2>3, MergedKeeps, Zenon
  <2>5. /\ bundle[q].block = input[q].block /\ bundle[q].maxBlock = input[q].maxBlock
        /\ bundle[q].privacy.set = input[q].privacy.set
        /\ input[q].privacy.set => bundle[q].privacy.builders = input[q].privacy.builders
    <3>1. BlocksInv(q) /\ PrivacyInv(q) /\ input[q] \in Args
      BY <2>1, <2>3, TreeFacts, Zenon DEF IInv, Each
    <3>2. NestedBefore(q) = {}
      <4>1. \A i \in NestedAt(q) : ~(i < 0)
        BY <3>1, ArgsFields, SMT, SMTT(30) DEF NestedAt
      <4>. QED
        BY <2>3, <4>1, Zenon DEF NestedBefore
    <3>. QED
      BY <2>3, <3>1, <3>2, Zenon DEF BlocksInv, PrivacyInv
  <2>. HIDE DEF q, m
  <2>6. /\ bundle' \in [DOMAIN input -> Args] /\ bundle'[path] = m
        /\ \A p \in DOMAIN input : p # path => bundle'[p] = bundle[p]
    BY <1>2, <2>1, <2>4, SMT, Zenon, SMTT(30)
  <2>7. TypeInv'
    <3>1. next[path] <= Len(input[path].body)
      BY <2>2, SMT, SMTT(30)
    <3>. QED
      BY <1>2, <2>1, <2>3, <2>6, <3>1, AdvanceType, Zenon
  <2>8. ASSUME NEW p \in DOMAIN input, p # path PROVE Each(p)'
    BY <1>2, <2>3, <2>6, <2>8, EachUnchanged, Zenon DEF IInv
  <2>9. ASSUME NEW p \in DOMAIN input, p = path PROVE Each(p)'
    <3>1. /\ BodyInv(p) /\ BlocksInv(p) /\ PrivacyInv(p) /\ HashInv(p)
          /\ bundle[p] \in Args /\ bundle'[p] = Merged(bundle[p], bundle[q])
          /\ NestedBefore(p)' = NestedBefore(p) \cup {q}
      BY <2>3, <2>4, <2>6, <2>9, Zenon DEF IInv, Each, m
    <3>8. LET o == bundle[p]
              el == bundle[q]
          IN  /\ Merged(o, el).body = o.body
              /\ Merged(o, el).refund = o.refund
              /\ Merged(o, el).refundConfig = o.refundConfig
              /\ Merged(o, el).privacy.set = o.privacy.set
              /\ Merged(o, el).privacy.hints = o.privacy.hints
              /\ Merged(o, el).block = IF o.block < el.block THEN el.block ELSE o.block
              /\ Merged(o, el).maxBlock = IF o.maxBlock > el.maxBlock THEN el.maxBlock ELSE o.maxBlock
              /\ Merged(o, el).privacy.builders =
                   IF ~o.privacy.set THEN o.privacy.builders
                   ELSE IF ~el.privacy.set THEN {} ELSE o.privacy.builders \cap el.privacy.builders
      <4>. DEFINE o == bundle[p]
                  el == bundle[q]
      <4>1. o \in Args /\ el \in Args
        BY <2>4, <3>1, SMT, Zenon, SMTT(30)
      <4>. HIDE DEF o, el
      <4>2. /\ Merged(o, el).body = o.body
            /\ Merged(o, el).refund = o.refund
            /\ Merged(o, el).refundConfig = o.refundConfig
            /\ Merged(o, el).privacy.set = o.privacy.set
            /\ Merged(o, el).privacy.hints = o.privacy.hints
        BY <4>1, MergedKeeps, SMT, Zenon, SMTT(30)
      <4>3. /\ Merged(o, el).block = IF o.block < el.block THEN el.block ELSE o.block
            /\ Merged(o, el).maxBlock = IF o.maxBlock > el.maxBlock THEN el.maxBlock ELSE o.maxBlock
        BY <4>1, MergedBlocksAre
      <4>4. Merged(o, el).privacy.builders =
                   IF ~o.privacy.set THEN o.privacy.builders
                   ELSE IF ~el.privacy.set THEN {} ELSE o.privacy.builders \cap el.privacy.builders
        BY <4>1, MergedBuildersAre, Zenon
      <4>. QED
        BY <4>2, <4>3, <4>4, Zenon DEF o, el
    <3>2. ASSUME NEW i \in DOMAIN input[p].body, Branch(input[p].body[i]) # "bundle"
          PROVE  i < next'[p] <=> i < next[p]
      BY <1>2, <2>1, <2>9, <3>2, Passed, Zenon
    <3>3. HashInv(p)'
      <4>1. \A i \in HashElements(input[p]) : i < next'[p] <=> i < next[p]
        <5>1. input[p] \in Args
          BY TreeFacts, Zenon DEF IInv, TypeInv
        <5>. QED
          BY <3>2, <5>1, HashElementsAre
      <4>. QED
        BY <1>2, <3>1, <4>1, HashKept, Zenon
    <3>4. BodyInv(p)'
      <4>1. \A i \in DOMAIN input[p].body : Branch(input[p].body[i]) = "tx" => (i < next'[p] <=> i < next[p])
        BY <3>2, SMT, Zenon, SMTT(30)
      <4>2. /\ bundle'[p].body = bundle[p].body
            /\ bundle'[p].refund = bundle[p].refund /\ bundle'[p].refundConfig = bundle[p].refundConfig
        BY <3>1, <3>8, Zenon
      <4>. QED
        BY <3>1, <4>1, <4>2, BodyKept, Zenon
    <3>5. ClosedInv(p)'
      BY <2>3, <2>9, Zenon DEF ClosedInv
    <3>6. PrivacyInv(p)'
      <4>. DEFINE mine == bundle[p].privacy
                  theirs == bundle[q].privacy
                  new == bundle'[p].privacy
      <4>1. /\ new.set = mine.set /\ new.hints = mine.hints
            /\ new.builders = IF ~mine.set THEN mine.builders
                              ELSE IF ~theirs.set THEN {} ELSE mine.builders \cap theirs.builders
        BY <3>1, <3>8, ZenonT(30)
      <4>2. Closed(p)' <=> Closed(p)
        BY <2>3
      <4>3. mine.set = input[p].privacy.set /\ mine.hints = IF Closed(p) THEN WithHashHint(input[p].privacy).hints ELSE input[p].privacy.hints
        BY <3>1, Zenon DEF PrivacyInv
      <4>4. new.builders =
              IF ~input[p].privacy.set THEN input[p].privacy.builders
              ELSE {v \in input[p].privacy.builders :
                      \A r \in NestedBefore(p) \cup {q} : input[r].privacy.set /\ v \in input[r].privacy.builders}
        <5>1. mine.builders =
                IF ~input[p].privacy.set THEN input[p].privacy.builders
                ELSE {v \in input[p].privacy.builders :
                        \A r \in NestedBefore(p) : input[r].privacy.set /\ v \in input[r].privacy.builders}
          BY <3>1, Zenon DEF PrivacyInv
        <5>. HIDE DEF mine, theirs, new
        <5>. QED
          BY <2>5, <4>1, <4>3, <5>1, Zenon DEF theirs
      <4>. QED
        BY <3>1, <4>1, <4>2, <4>3, <4>4, Zenon DEF PrivacyInv
    <3>7. BlocksInv(p)'
      <4>1. next[p] # 0 /\ next'[p] # 0
        BY <2>1, <2>2, <2>3, <2>9, SMTT(30), SMTT(60)
      <4>2. /\ InTime(p) /\ Len(p) <= MaxNestingLevel /\ input[p].body # << >> /\ 1 <= bundle[p].block
            /\ BlocksOf(bundle[p]) = {n \in Declared(input[p]) : \A r \in NestedBefore(p) : n \in Declared(input[r])}
            /\ (\A r \in NestedBefore(p) : InTime(r)) =>
                 /\ bundle[p].block <= bundle[p].maxBlock
                 /\ currentBlock < bundle[p].maxBlock
                 /\ bundle[p].block <= currentBlock + MaxBlockOffset
        BY <3>1, <4>1, Zenon DEF BlocksInv
      <4>3. /\ BlocksOf(Merged(bundle[p], bundle[q])) = BlocksOf(bundle[p]) \cap Declared(bundle[q])
            /\ 1 <= Merged(bundle[p], bundle[q]).block
            /\ DefaultMaxBlock(bundle[q]).block = bundle[q].block
            /\ DefaultMaxBlock(bundle[q]).maxBlock = bundle[q].maxBlock
        BY <1>2, <2>4, <2>9, <4>2, MergedBlocks, Zenon
      <4>4. /\ DefaultMaxBlock(input[q]).block = DefaultMaxBlock(bundle[q]).block
            /\ DefaultMaxBlock(input[q]).maxBlock = DefaultMaxBlock(bundle[q]).maxBlock
        <5>1. input[q] \in Args
          BY <2>1, <2>3, TreeFacts, Zenon
        <5>. QED
          BY <2>4, <2>5, <5>1, DefaultMaxBlockIs, SMTT(30), SMTT(60)
      <4>5. Declared(bundle[q]) = Declared(input[q])
        BY <4>4, Zenon DEF Declared, BlocksOf
      <4>6. BlocksOf(bundle[p])' = {n \in Declared(input[p]) : \A r \in NestedBefore(p) \cup {q} : n \in Declared(input[r])}
        <5>1. BlocksOf(bundle[p])' = BlocksOf(bundle[p]) \cap Declared(input[q])
          BY <3>1, <4>3, <4>5, Zenon DEF BlocksOf
        <5>. QED
          BY <4>2, <5>1
      <4>7. ASSUME InTime(q), \A r \in NestedBefore(p) : InTime(r)
            PROVE  /\ bundle'[p].block <= bundle'[p].maxBlock
                   /\ currentBlock < bundle'[p].maxBlock
                   /\ bundle'[p].block <= currentBlock + MaxBlockOffset
        <5>1. /\ bundle[q].block <= bundle[q].maxBlock /\ currentBlock < bundle[q].maxBlock
              /\ bundle[q].block <= currentBlock + MaxBlockOffset
          BY <4>3, <4>4, <4>7, Zenon DEF InTime, InclusionOk
        <5>2. /\ bundle[p].block <= bundle[p].maxBlock /\ currentBlock < bundle[p].maxBlock
              /\ bundle[p].block <= currentBlock + MaxBlockOffset
          BY <4>2, <4>7, Zenon
        <5>3. /\ bundle'[p].block = IF bundle[p].block < bundle[q].block THEN bundle[q].block ELSE bundle[p].block
              /\ bundle'[p].maxBlock = IF bundle[p].maxBlock > bundle[q].maxBlock THEN bundle[q].maxBlock ELSE bundle[p].maxBlock
          BY <3>1, <3>8, Zenon
        <5>4. ~(bundle[p].maxBlock < bundle[q].block \/ bundle[q].maxBlock < bundle[p].block)
          BY <1>2, <2>9, Zenon DEF Overlap
        <5>5. /\ bundle[p].block \in Nat /\ bundle[p].maxBlock \in Nat
              /\ bundle[q].block \in Nat /\ bundle[q].maxBlock \in Nat
          BY <2>4, <3>1, ArgsFields, Zenon
        <5>. QED
          BY <5>1, <5>2, <5>3, <5>4, <5>5, SMTT(30), SMTT(60)
      <4>8. \A r : InTime(r)' <=> InTime(r)
        BY Zenon DEF InTime, InclusionOk
      <4>9. 1 <= bundle'[p].block
        BY <3>1, <4>3, Zenon
      <4>. QED
        BY <3>1, <4>1, <4>2, <4>6, <4>7, <4>8, <4>9, Zenon DEF BlocksInv
    <3>. QED
      BY <3>3, <3>4, <3>5, <3>6, <3>7, Zenon DEF Each
  <2>. QED
    BY <2>3, <2>7, <2>8, <2>9, Zenon DEF IInv
<1>. QED
  BY <1>1, <1>2, Zenon DEF BundleElement

\* The checks after the loop close the bundle.
LEMMA FinishStep ==
  ASSUME IInv, Finished, BodyOk, path # Top => ~unmatched[path], Finish,
         UNCHANGED <<input, currentBlock, next, unmatched>>,
         path' \in DOMAIN input, txs' \in [DOMAIN input -> Nat],
         result' \in {"running", "refused", "accepted"},
         CallInv', ~Closed(path),
         \A p \in DOMAIN input : /\ Closed(p)' <=> Closed(p) \/ p = path
                                 /\ NestedBefore(p)' = NestedBefore(p)
  PROVE  IInv'
<1>1. /\ TypeInv /\ path \in DOMAIN input /\ bundle \in [DOMAIN input -> Args]
      /\ IsBundle(input) /\ next \in [DOMAIN input -> Nat]
  BY Zenon DEF IInv, TypeInv
<1>. DEFINE f == [bundle[path] EXCEPT !.privacy = WithHashHint(@)]
<1>2. /\ f \in Args
      /\ f.block = bundle[path].block
      /\ f.maxBlock = bundle[path].maxBlock
      /\ f.body = bundle[path].body
      /\ f.refund = bundle[path].refund
      /\ f.refundConfig = bundle[path].refundConfig
      /\ f.privacy.set = bundle[path].privacy.set
      /\ f.privacy.builders = bundle[path].privacy.builders
      /\ f.privacy.hints = IF bundle[path].privacy.hints = {} \/ ~bundle[path].privacy.set
                             THEN bundle[path].privacy.hints ELSE bundle[path].privacy.hints \cup {"hash"}
  <2>. DEFINE b == bundle[path]
  <2>1. b \in Args
    BY <1>1
  <2>. HIDE DEF b
  <2>2. LET g == [b EXCEPT !.privacy = WithHashHint(@)]
        IN  /\ g \in Args
            /\ g.block = b.block
            /\ g.maxBlock = b.maxBlock
            /\ g.body = b.body
            /\ g.refund = b.refund
            /\ g.refundConfig = b.refundConfig
            /\ g.privacy.set = b.privacy.set
            /\ g.privacy.builders = b.privacy.builders
            /\ g.privacy.hints = IF b.privacy.hints = {} \/ ~b.privacy.set THEN b.privacy.hints
                                 ELSE b.privacy.hints \cup {"hash"}
    BY <2>1, FinishedIs, Zenon
  <2>. QED
    BY <2>2, Zenon DEF b
<1>3. bundle' = [bundle EXCEPT ![path] = f]
  BY Zenon DEF Finish
<1>. HIDE DEF f
<1>4. /\ bundle' \in [DOMAIN input -> Args] /\ bundle'[path] = f
      /\ \A p \in DOMAIN input : p # path => bundle'[p] = bundle[p]
  BY <1>1, <1>2, <1>3, SMT, Zenon, SMTT(30)
<1>5. TypeInv'
  BY <1>1, <1>4, Zenon DEF TypeInv
<1>6. ASSUME NEW p \in DOMAIN input, p # path PROVE Each(p)'
  BY <1>4, <1>6, EachUnchanged, Zenon DEF IInv
<1>7. ASSUME NEW p \in DOMAIN input, p = path PROVE Each(p)'
  <2>1. BodyInv(p) /\ BlocksInv(p) /\ PrivacyInv(p) /\ HashInv(p) /\ bundle[p] \in Args /\ input[p] \in Args
    BY <1>1, TreeFacts, Zenon DEF IInv, Each
  <2>2. bundle'[p] = f /\ Closed(p)' /\ ~Closed(p) /\ NestedBefore(p)' = NestedBefore(p) /\ next'[p] = next[p]
    BY <1>4, <1>7, ZenonT(30)
  <2>3. next[p] # 0
    BY <1>7, <2>1, ArgsFields, SMTT(30), SMTT(60) DEF Finished
  <2>4. BodyInv(p)'
    BY <1>2, <1>7, <2>1, <2>2, BodyKept, Zenon
  <2>5. BlocksInv(p)'
    BY <1>2, <1>7, <2>1, <2>2, <2>3, BlocksKept, Zenon
  <2>6. HashInv(p)'
    BY <2>1, <2>2, HashKept, Zenon
  <2>7. PrivacyInv(p)'
    <3>1. /\ bundle[p].privacy.set = input[p].privacy.set
          /\ bundle[p].privacy.hints = input[p].privacy.hints
      BY <2>1, <2>2, Zenon DEF PrivacyInv
    <3>2. WithHashHint(input[p].privacy).hints =
            IF input[p].privacy.hints = {} \/ ~input[p].privacy.set THEN input[p].privacy.hints
            ELSE input[p].privacy.hints \cup {"hash"}
      <4>1. input[p].privacy \in Privacy
        BY <2>1, ArgsFields, Zenon
      <4>. QED
        BY <4>1 DEF WithHashHint, Privacy
    <3>3. bundle'[p].privacy.hints = WithHashHint(input[p].privacy).hints
      BY <1>2, <1>7, <2>2, <3>1, <3>2, Zenon
    <3>4. bundle'[p].privacy.set = input[p].privacy.set /\ bundle'[p].privacy.builders = bundle[p].privacy.builders
      BY <1>2, <1>7, <2>2, <3>1, Zenon
    <3>. QED
      BY <2>1, <2>2, <3>3, <3>4, Zenon DEF PrivacyInv
  <2>8. ClosedInv(p)'
    <3>1. ValidityOk(bundle[p], unmatched[p]) /\ PrivacyOk(bundle[p], unmatched[p])
      BY <1>7, Zenon DEF BodyOk
    <3>2. ValidityOk(input[p], unmatched[p])
      <4>1. /\ bundle[p].refund = input[p].refund /\ bundle[p].refundConfig = input[p].refundConfig
            /\ Len(bundle[p].body) = Len(input[p].body)
        BY <2>1, Zenon DEF BodyInv
      <4>. QED
        BY <3>1, <4>1, Zenon DEF ValidityOk
    <3>3. input[p].privacy.set /\ unmatched[p] => input[p].privacy.hints = {}
      BY <2>1, <2>2, <3>1, ZenonT(30) DEF PrivacyOk, PrivacyInv
    <3>4. p # Top => ~unmatched[p]
      BY <1>7
    <3>. QED
      BY <3>2, <3>3, <3>4, Zenon DEF ClosedInv
  <2>. QED
    BY <2>4, <2>5, <2>6, <2>7, <2>8, Zenon DEF Each
<1>. QED
  BY <1>5, <1>6, <1>7, Zenon DEF IInv

\* The loop of the innermost call is past the end of the body.
LEMMA FinishedPath ==
  ASSUME IInv, Finished
  PROVE  next[path] = Len(input[path].body) + 1
<1>1. path \in DOMAIN input /\ BodyInv(path)
  BY Zenon DEF IInv, TypeInv, Each
<1>. QED
  BY <1>1, Zenon DEF Finished, BodyInv

\* Accept preserves the invariant.
LEMMA AcceptIsStep ==
  ASSUME IInv, result = "running", Accept, UNCHANGED <<input, currentBlock>>
  PROVE  IInv'
<1>1. CASE Refuse
  BY <1>1, RefuseStep
<1>2. CASE Finished /\ path = Top /\ BodyOk /\ Finish /\ result' = "accepted" /\ UNCHANGED <<path, next, txs, unmatched>>
  <2>1. TypeInv /\ CallInv /\ path \in DOMAIN input /\ txs \in [DOMAIN input -> Nat]
    BY Zenon DEF IInv, TypeInv
  <2>2. /\ CallInv'
        /\ \A p \in DOMAIN input :
             /\ Closed(p)' <=> Closed(p) \/ p = path
             /\ NestedBefore(p)' = NestedBefore(p)
        /\ ~Closed(path)
    BY <1>2, <2>1, FinishedPath, AcceptStep, Zenon
  <2>3. path' \in DOMAIN input /\ txs' \in [DOMAIN input -> Nat] /\ result' \in {"running", "refused", "accepted"}
    BY <1>2, <2>1
  <2>. QED
    BY <1>2, <2>2, <2>3, FinishStep, Zenon
<1>. QED
  BY <1>1, <1>2, Zenon DEF Accept

\* Return, the end of a recursive call, preserves the invariant.
LEMMA ReturnIsStep ==
  ASSUME IInv, result = "running", Return, UNCHANGED <<input, currentBlock>>
  PROVE  IInv'
<1>1. CASE Refuse
  BY <1>1, RefuseStep
<1>2. CASE /\ Finished /\ path # Top /\ BodyOk /\ ~unmatched[path]
           /\ Finish
           /\ path' = Front(path)
           /\ txs' = [txs EXCEPT ![Front(path)] = @ + txs[path]]
           /\ UNCHANGED <<next, unmatched, result>>
  <2>1. TypeInv /\ CallInv /\ path \in DOMAIN input /\ txs \in [DOMAIN input -> Nat]
    BY Zenon DEF IInv, TypeInv
  <2>2. /\ CallInv'
        /\ path' \in DOMAIN input
        /\ \A p \in DOMAIN input :
             /\ Closed(p)' <=> Closed(p) \/ p = path
             /\ NestedBefore(p)' = NestedBefore(p)
        /\ ~Closed(path)
    BY <1>2, <2>1, FinishedPath, ReturnStep, Zenon
  <2>3. txs' \in [DOMAIN input -> Nat] /\ result' \in {"running", "refused", "accepted"}
    BY <1>2, <2>1, <2>2, SMTT(30), SMTT(60)
  <2>. QED
    BY <1>2, <2>2, <2>3, FinishStep, Zenon
<1>. QED
  BY <1>1, <1>2, Zenon DEF Return

\* The invariant holds initially and is kept by every step.
THEOREM ValidationInv == Spec => []IInv
<1>1. Init => IInv
  <2>. SUFFICES ASSUME Init PROVE IInv
    OBVIOUS
  <2>1. IsBundle(input) /\ currentBlock \in Nat /\ currentBlock >= MaxBlockRange
    BY InputsAssumption, ValidationAssumption DEF Init
  <2>2. Top \in DOMAIN input /\ \A p \in DOMAIN input : input[p] \in Args /\ Len(input[p].body) \in Nat
    BY <2>1, TreeFacts, ArgsFields, SMT, Zenon, SMTT(30) DEF IsBundle
  <2>3. /\ bundle = input /\ path = Top /\ result = "running"
        /\ \A p \in DOMAIN input : next[p] = 0 /\ unmatched[p] = FALSE
        /\ next \in [DOMAIN input -> Nat] /\ txs \in [DOMAIN input -> Nat] /\ unmatched \in [DOMAIN input -> BOOLEAN]
    BY DEF Init
  <2>4. bundle \in [DOMAIN input -> Args]
    BY <2>1, <2>3, Zenon DEF IsBundle
  <2>5. TypeInv
    BY <2>1, <2>2, <2>3, <2>4, SMTT(30), SMTT(60) DEF TypeInv
  <2>6. \A p \in DOMAIN input : ~Closed(p) /\ \A i \in DOMAIN input[p].body : i \in Nat /\ i >= 1
    BY <2>2, <2>3, ArgsFields, SMTT(30), SMTT(60) DEF Closed
  <2>7. CallInv
    <3>1. Around(path) = {Top}
      BY <2>3, AroundSelf, EmptySeq, Zenon
    <3>2. ASSUME NEW p \in DOMAIN input, NEW i \in NestedAt(p)
          PROVE  ~(i < next[p]) /\ next[Append(p, i)] = 0 /\ Append(p, i) \notin Around(path)
      <4>1. p \in Seq(Nat) /\ i \in Nat /\ i >= 1 /\ Append(p, i) \in DOMAIN input
        BY <2>1, TreeFacts, Zenon
      <4>. QED
        BY <2>3, <3>1, <4>1, AppendPath, SMT, Zenon, SMTT(30)
    <3>. QED
      BY <2>1, <2>2, <2>3, <3>1, <3>2, TopValidated, Zenon DEF CallInv
  <2>8. ASSUME NEW p \in DOMAIN input PROVE Each(p)
    <3>1. \A i \in DOMAIN input[p].body : ~(i < next[p])
      BY <2>3, <2>6, SMT, SMTT(30)
    <3>2. NestedBefore(p) = {}
      BY <3>1 DEF NestedBefore, NestedAt
    <3>3. BodyInv(p) /\ BlocksInv(p) /\ ClosedInv(p)
      BY <2>3, <2>6, <3>1, Zenon DEF BodyInv, BlocksInv, ClosedInv
    <3>4. PrivacyInv(p)
      BY <2>3, <2>6, <3>2, Zenon DEF PrivacyInv
    <3>5. HashInv(p)
      <4>1. {i \in HashElements(input[p]) : i < next[p]} = {}
        BY <2>2, <3>1, HashElementsAre, Zenon
      <4>. QED
        BY <2>3, <4>1, Zenon DEF HashInv
    <3>. QED
      BY <3>3, <3>4, <3>5, ZenonT(30) DEF Each
  <2>. QED
    BY <2>5, <2>7, <2>8, Zenon DEF IInv
<1>2. IInv /\ [Next]_vars => IInv'
  <2>. SUFFICES ASSUME IInv, [Next]_vars PROVE IInv'
    OBVIOUS
  <2>1. CASE Next
    BY <2>1, EnterStep, HashElementStep, TxElementStep, EmptyElementStep, BundleElementStep,
       AcceptIsStep, ReturnIsStep, Zenon DEF Next
  <2>2. CASE UNCHANGED vars
    <3>1. \A p : (Closed(p)' <=> Closed(p)) /\ NestedAt(p)' = NestedAt(p)
      BY <2>2, Zenon DEF vars, Closed, NestedAt
    <3>2. TypeInv' /\ CallInv'
      BY <2>2, <3>1, Zenon DEF vars, IInv, TypeInv, CallInv
    <3>3. ASSUME NEW p \in DOMAIN input PROVE Each(p)'
      BY <2>2, <3>1, EachUnchanged, Zenon DEF vars, IInv
    <3>. QED
      BY <2>2, <3>2, <3>3, Zenon DEF vars, IInv
  <2>. QED
    BY <2>1, <2>2, Zenon
<1>. QED
  BY <1>1, <1>2, PTL DEF Spec

-----------------------------------------------------------------------------
\* Among some paths there is a shortest one.
LEMMA ShortestPath ==
  ASSUME NEW B \in SUBSET Seq(Nat), B # {}
  PROVE  \E p \in B : \A q \in B : Len(p) <= Len(q)
<1>. DEFINE T == {Len(p) : p \in B}
            R == OpToRel(<, Nat)
<1>1. T \in SUBSET Nat /\ T # {}
  <2>1. \A p \in B : Len(p) \in Nat
    BY SMT, SMTT(30)
  <2>. QED
    BY <2>1, Zenon
<1>2. IsWellFoundedOn(R, Nat)
  BY NatLessThanWellFounded, Zenon
<1>3. \A x, y \in Nat : x < y => <<x, y>> \in R
  BY DEF OpToRel
<1>4. \A q \in B : Len(q) \in T
  OBVIOUS
<1>5. \A x \in T : \E p \in B : x = Len(p)
  OBVIOUS
<1>. HIDE DEF R, T
<1>6. PICK x \in T : \A y \in T : ~(<<y, x>> \in R)
  BY <1>1, <1>2, WFMin, Zenon
<1>7. \A y \in T : y \in Nat /\ x \in Nat /\ ~(y < x)
  BY <1>1, <1>3, <1>6, Zenon
<1>8. \A y \in T : x <= y
  BY <1>7, SMT, SMTT(30)
<1>. QED
  BY <1>4, <1>5, <1>8, Zenon

\* When the bundle is accepted all the bundles that are validated are closed.
LEMMA AllClosed ==
  ASSUME IInv, Accepted
  PROVE  \A p \in Validated(input) : Closed(p)
<1>. DEFINE B == {p \in Validated(input) : ~Closed(p)}
<1>1. SUFFICES ASSUME B # {} PROVE FALSE
  OBVIOUS
<1>2. IsBundle(input) /\ path = Top /\ Closed(Top) /\ next \in [DOMAIN input -> Nat]
  BY Zenon DEF IInv, TypeInv, CallInv, Accepted
<1>3. B \in SUBSET Seq(Nat)
  BY <1>2, TreeFacts, Zenon DEF Validated
<1>4. PICK p \in B : \A q \in B : Len(p) <= Len(q)
  BY <1>1, <1>3, ShortestPath, Zenon
<1>5. p \in Validated(input) /\ ~Closed(p) /\ p # Top
  BY <1>2, <1>4
<1>6. Front(p) \in Validated(input) /\ \E i \in NestedAt(Front(p)) : p = Append(Front(p), i)
  BY <1>2, <1>5, ValidatedFront, ZenonT(30)
<1>. DEFINE f == Front(p)
<1>7. PICK i \in NestedAt(f) : p = Append(f, i)
  BY <1>6
<1>. HIDE DEF f, B
<1>8. /\ f \in DOMAIN input /\ f \in Seq(Nat) /\ input[f] \in Args /\ f \in Validated(input)
      /\ i \in Nat /\ i \in DOMAIN input[f].body
  <2>1. f \in DOMAIN input /\ f \in Validated(input)
    BY <1>6, Zenon DEF f, Validated
  <2>. QED
    BY <1>2, <2>1, TreeFacts, Zenon
<1>9. ~(Len(p) <= Len(f))
  BY <1>7, <1>8, AppendPath, SMTT(30), SMTT(60)
<1>10. Closed(f)
  BY <1>4, <1>8, <1>9, Zenon DEF B
<1>11. i < next[f]
  BY <1>8, <1>10, ArgsFields, SMTT(30), SMTT(60) DEF Closed
<1>12. p \in Around(path)
  BY <1>5, <1>7, <1>8, <1>11, Zenon DEF IInv, CallInv
<1>13. Around(path) = {Top}
  BY <1>2, <1>8, AroundSelf, Zenon
<1>. QED
  BY <1>5, <1>12, <1>13, Zenon

\* Then the loop over each of their bodies has come to its end.
LEMMA AllPassed ==
  ASSUME IInv, Accepted, NEW p \in Validated(input)
  PROVE  /\ Closed(p) /\ Each(p) /\ input[p] \in Args /\ bundle[p] \in Args
         /\ next[p] # 0
         /\ \A i \in DOMAIN input[p].body : i < next[p]
         /\ NestedBefore(p) = Checked(input, p)
         /\ Checked(input, p) \subseteq Validated(input)
<1>1. IsBundle(input) /\ p \in DOMAIN input /\ Closed(p) /\ Each(p) /\ bundle \in [DOMAIN input -> Args]
  BY AllClosed, Zenon DEF IInv, TypeInv, Validated
<1>2. input[p] \in Args /\ bundle[p] \in Args
  BY <1>1, TreeFacts
<1>3. next[p] = Len(input[p].body) + 1
  BY <1>1, Zenon DEF Closed
<1>4. next[p] # 0 /\ \A i \in DOMAIN input[p].body : i < next[p]
  BY <1>2, <1>3, ArgsFields, SMTT(30), SMTT(60)
<1>5. {j \in NestedAt(p) : j < next[p]} = NestedAt(p)
  BY <1>4 DEF NestedAt
<1>6. NestedBefore(p) = Checked(input, p)
  BY <1>5, CheckedAre, Zenon DEF NestedBefore
<1>7. Checked(input, p) \subseteq Validated(input)
  <2>1. \A i \in NestedAt(p) : Append(p, i) \in Validated(input)
    BY <1>1, ValidatedNested, Zenon
  <2>2. Checked(input, p) = {Append(p, i) : i \in NestedAt(p)}
    BY CheckedAre, Zenon
  <2>. QED
    BY <2>1, <2>2, Zenon
<1>. QED
  BY <1>1, <1>2, <1>4, <1>6, <1>7, Zenon

\* The bundles that are not validated are as they were submitted.
LEMMA KeptAs ==
  ASSUME IInv, NEW p \in DOMAIN input, p \notin Validated(input)
  PROVE  /\ Each(p) /\ input[p] \in Args /\ bundle[p] \in Args
         /\ next[p] = 0 /\ ~Closed(p) /\ NestedBefore(p) = {}
         /\ \A i \in DOMAIN input[p].body : ~(i < next[p])
<1>1. IsBundle(input) /\ Each(p) /\ bundle \in [DOMAIN input -> Args] /\ next[p] = 0
  BY Zenon DEF IInv, TypeInv, CallInv
<1>2. input[p] \in Args /\ bundle[p] \in Args
  BY <1>1, TreeFacts
<1>3. Len(input[p].body) + 1 # 0 /\ \A i \in DOMAIN input[p].body : ~(i < 0)
  BY <1>2, ArgsFields, SMT, SMTT(30)
<1>4. ~Closed(p)
  BY <1>1, <1>3, Zenon DEF Closed
<1>5. NestedBefore(p) = {}
  BY <1>1, <1>3, Zenon DEF NestedBefore, NestedAt
<1>. QED
  BY <1>1, <1>2, <1>3, <1>4, <1>5, Zenon

(***************************************************************************)
(* An accepted bundle, like each bundle validated in it, is for exactly    *)
(* the blocks that it and the bundles validated in its body ask for, one   *)
(* of which is still to come and none too far ahead (ValidateBundle, for   *)
(* bundles of any depth and size; a bundle beside a transaction or a hash  *)
(* is not validated).                                                      *)
(***************************************************************************)
THEOREM InclusionIsCommonThm == Spec => []InclusionIsCommon
<1>1. IInv => InclusionIsCommon
  <2>. SUFFICES ASSUME IInv, Accepted, NEW p \in Validated(input)
                PROVE  /\ BlocksOf(bundle[p]) = {n \in Declared(input[p]) : \A q \in Checked(input, p) : n \in Declared(input[q])}
                       /\ \E n \in BlocksOf(bundle[p]) : n > currentBlock
                       /\ bundle[p].block <= currentBlock + MaxBlockOffset
    BY Zenon DEF InclusionIsCommon
  <2>1. BlocksInv(p) /\ next[p] # 0 /\ NestedBefore(p) = Checked(input, p) /\ bundle[p] \in Args
    BY AllPassed, Zenon DEF Each
  <2>2. ASSUME NEW q \in Checked(input, p) PROVE InTime(q)
    <3>1. q \in Validated(input)
      BY AllPassed
    <3>. QED
      BY <3>1, AllPassed, Zenon DEF Each, BlocksInv
  <2>3. /\ BlocksOf(bundle[p]) = {n \in Declared(input[p]) : \A q \in Checked(input, p) : n \in Declared(input[q])}
        /\ bundle[p].block <= bundle[p].maxBlock
        /\ currentBlock < bundle[p].maxBlock
        /\ bundle[p].block <= currentBlock + MaxBlockOffset
    BY <2>1, <2>2, Zenon DEF BlocksInv
  <2>4. bundle[p].maxBlock \in BlocksOf(bundle[p]) /\ bundle[p].maxBlock > currentBlock
    <3>1. currentBlock \in Nat /\ bundle[p].block \in Nat /\ bundle[p].maxBlock \in Nat
      BY <2>1, ArgsFields, Zenon DEF IInv, TypeInv
    <3>. QED
      BY <2>3, <3>1, SMTT(30), SMTT(60) DEF BlocksOf
  <2>. QED
    BY <2>3, <2>4, Zenon
<1>. QED
  BY <1>1, ValidationInv, PTL

\* Where the hashes of an accepted bundle are.
LEMMA HashesAre ==
  ASSUME IInv
  PROVE  OneHashInFront
<1>. SUFFICES ASSUME IInv, Accepted PROVE OneHashInFront
  BY DEF OneHashInFront
<1>1. ASSUME NEW p \in Validated(input)
      PROVE  /\ HashElements(input[p]) = IF unmatched[p] THEN {1} ELSE {}
             /\ unmatched[p] => Len(input[p].body) > 1
             /\ input[p].privacy.set /\ unmatched[p] => input[p].privacy.hints = {}
             /\ p # Top => ~unmatched[p]
  <2>1. HashInv(p) /\ ClosedInv(p) /\ Closed(p) /\ \A i \in DOMAIN input[p].body : i < next[p]
    BY AllPassed, Zenon DEF Each
  <2>2. {i \in HashElements(input[p]) : i < next[p]} = HashElements(input[p])
    <3>1. input[p] \in Args
      BY AllPassed, Zenon
    <3>. QED
      BY <2>1, <3>1, HashElementsAre
  <2>. QED
    BY <2>1, <2>2, Zenon DEF HashInv, ClosedInv
<1>2. Top \in Validated(input)
  BY TopValidated, Zenon DEF IInv, TypeInv
<1>. QED
  BY <1>1, <1>2, Zenon DEF OneHashInFront

(***************************************************************************)
(* An accepted bundle is unmatched exactly when its first element has a    *)
(* hash, the only one of its body and of the bundles validated in it, with *)
(* an element behind it and no hints.                                      *)
(***************************************************************************)
THEOREM OneHashInFrontThm == Spec => []OneHashInFront
BY HashesAre, ValidationInv, PTL
=============================================================================
