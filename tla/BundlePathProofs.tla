--------------------------- MODULE BundlePathProofs -------------------------
(***************************************************************************)
(* Proofs about what becomes of an accepted bundle: what is simulated,     *)
(* what a hint shows and what builders are sent is what was submitted.     *)
(***************************************************************************)
EXTENDS BundlePath, ValidationProofs

-----------------------------------------------------------------------------
\* The queue keeps the hints of a bundle, and so the bundle.
LEMMA HintsKept ==
  ASSUME NEW want \in SUBSET HintNames
  PROVE  UnmarshalJSON(MarshalJSON(want)).flags = want
<1>1. MarshalJSON(want) = want
  BY DEF MarshalJSON, HasHint
<1>2. \A name \in want : (IF name = "default_logs" THEN "special_logs" ELSE name) = name
  BY DEF HintNames
<1>3. {IF name = "default_logs" THEN "special_logs" ELSE name : name \in want} = want
  BY <1>2
<1>. QED
  BY <1>1, <1>3 DEF UnmarshalJSON

\* The queue gives a bundle back as it was put in.
LEMMA QueueKeeps ==
  ASSUME NEW tree, tree \in [DOMAIN tree -> Args]
  PROVE  ThroughQueue(tree) = tree
<1>1. ASSUME NEW b \in Args
      PROVE  [b EXCEPT !.privacy.hints = UnmarshalJSON(MarshalJSON(@)).flags] = b
  <2>1. UnmarshalJSON(MarshalJSON(b.privacy.hints)).flags = b.privacy.hints
    BY HintsKept, ArgsFields, Zenon
  <2>2. [b EXCEPT !.privacy.hints = UnmarshalJSON(MarshalJSON(@)).flags] = [b EXCEPT !.privacy.hints = b.privacy.hints]
    BY <2>1, Zenon
  <2>. QED
    BY <2>2 DEF Args, Privacy
<1>2. \A p \in DOMAIN tree : [tree[p] EXCEPT !.privacy.hints = UnmarshalJSON(MarshalJSON(@)).flags] = tree[p]
  BY <1>1
<1>3. ThroughQueue(tree) = [p \in DOMAIN tree |-> tree[p]]
  BY <1>2, Zenon DEF ThroughQueue
<1>. QED
  BY <1>3

\* What validation has made of an element of the bundle at p.
Left(p, el) == IF p \in Validated(input) /\ Branch(el) = "tx" THEN applyRevertMode(el) ELSE el

\* The body of an accepted bundle, at any level.
LEMMA BodyIs ==
  ASSUME IInv, Accepted, NEW p \in DOMAIN input
  PROVE  /\ bundle[p].body \in Seq(Element) /\ input[p].body \in Seq(Element)
         /\ Len(bundle[p].body) = Len(input[p].body)
         /\ DOMAIN bundle[p].body = DOMAIN input[p].body
         /\ \A i \in DOMAIN input[p].body :
              /\ input[p].body[i] \in Element
              /\ p \in Validated(input) /\ Branch(input[p].body[i]) = "tx" =>
                   validateRevertMode(input[p].body[i].revertMode)
              /\ bundle[p].body[i] = Left(p, input[p].body[i])
              /\ bundle[p].body[i].fields = input[p].body[i].fields
              /\ bundle[p].body[i].tx = input[p].body[i].tx
              /\ bundle[p].body[i].parses = input[p].body[i].parses
<1>1. /\ BodyInv(p) /\ input[p] \in Args /\ bundle[p] \in Args
      /\ p \in Validated(input) => \A i \in DOMAIN input[p].body : i < next[p]
      /\ p \notin Validated(input) => \A i \in DOMAIN input[p].body : ~(i < next[p])
  BY AllPassed, KeptAs, Zenon DEF Each
<1>2. bundle[p].body \in Seq(Element) /\ input[p].body \in Seq(Element)
  BY <1>1, ArgsFields, Zenon
<1>3. Len(bundle[p].body) = Len(input[p].body)
  BY <1>1, Zenon DEF BodyInv
<1>4. DOMAIN bundle[p].body = DOMAIN input[p].body
  BY <1>2, <1>3, SMT, SMTT(30)
<1>5. ASSUME NEW i \in DOMAIN input[p].body
      PROVE  LET el == input[p].body[i]
             IN  /\ el \in Element
                 /\ p \in Validated(input) /\ Branch(el) = "tx" => validateRevertMode(el.revertMode)
                 /\ bundle[p].body[i] = Left(p, el)
                 /\ bundle[p].body[i].fields = el.fields
                 /\ bundle[p].body[i].tx = el.tx
                 /\ bundle[p].body[i].parses = el.parses
  <2>. DEFINE el == input[p].body[i]
  <2>1. el \in Element
    BY <1>2, SMT, SMTT(30)
  <2>2. /\ p \in Validated(input) /\ Branch(el) = "tx" => validateRevertMode(el.revertMode)
        /\ bundle[p].body[i] = Left(p, el)
    <3>1. IF Branch(el) = "tx" /\ i < next[p]
            THEN validateRevertMode(el.revertMode) /\ bundle[p].body[i] = applyRevertMode(el)
            ELSE bundle[p].body[i] = el
      BY <1>1, Zenon DEF BodyInv
    <3>2. p \in Validated(input) <=> i < next[p]
      BY <1>1, Zenon
    <3>. HIDE DEF el
    <3>. QED
      BY <3>1, <3>2, Zenon DEF Left
  <2>. HIDE DEF el
  <2>3. Left(p, el).fields = el.fields /\ Left(p, el).tx = el.tx /\ Left(p, el).parses = el.parses
    BY <2>1, AppliedIs, Zenon DEF Left
  <2>. QED
    BY <2>1, <2>2, <2>3, Zenon DEF el
<1>. QED
  BY <1>2, <1>3, <1>4, <1>5, Zenon

\* A bundle with nothing to match has no hash where validation looks.
LEMMA NoHashes ==
  ASSUME IInv, Queued, NEW p \in Validated(input), NEW i \in DOMAIN input[p].body
  PROVE  /\ "hash" \notin input[p].body[i].fields
         /\ Branch(input[p].body[i]) = "tx" <=> "tx" \in input[p].body[i].fields
         /\ Branch(input[p].body[i]) = "bundle" <=>
              "bundle" \in input[p].body[i].fields /\ "tx" \notin input[p].body[i].fields
<1>1. Accepted /\ OneHashInFront /\ ~unmatched[Top]
  BY HashesAre, Zenon DEF Queued
<1>2. HashElements(input[p]) = {}
  BY <1>1, Zenon DEF OneHashInFront
<1>3. "hash" \notin input[p].body[i].fields
  BY <1>2, Zenon DEF HashElements, With
<1>. DEFINE el == input[p].body[i]
<1>4. el \in Element
  BY <1>1, BodyIs, Zenon DEF Validated
<1>5. /\ Branch(el) = "tx" <=> "hash" \notin el.fields /\ "tx" \in el.fields
      /\ Branch(el) = "bundle" <=> el.fields = {"bundle"}
      /\ el.fields \subseteq {"hash", "tx", "bundle"}
  <2>1. el.fields \subseteq {"hash", "tx", "bundle"}
    BY <1>4 DEF Element
  <2>. QED
    BY <1>4, <2>1, BranchIs, Zenon
<1>. HIDE DEF el
<1>6. "hash" \notin el.fields => (el.fields = {"bundle"} <=> "bundle" \in el.fields /\ "tx" \notin el.fields)
  BY <1>5, SMT, SMTT(30)
<1>. QED
  BY <1>3, <1>5, <1>6, Zenon DEF el

\* Positions of transactions.
LEMMA PositionIs ==
  ASSUME NEW tree, NEW pos
  PROVE  pos \in TxPositions(tree) <=>
           \E p \in DOMAIN tree : \E i \in DOMAIN tree[p].body :
             "tx" \in tree[p].body[i].fields /\ pos = <<p, i>>
<1>. DEFINE At(p) == {<<p, i>> : i \in With(tree[p], "tx")}
<1>1. TxPositions(tree) = UNION {At(p) : p \in DOMAIN tree}
  BY Zenon DEF TxPositions
<1>2. ASSUME NEW p
      PROVE  pos \in At(p) <=> \E i \in DOMAIN tree[p].body : "tx" \in tree[p].body[i].fields /\ pos = <<p, i>>
  BY DEF With
<1>. HIDE DEF At
<1>3. pos \in UNION {At(p) : p \in DOMAIN tree} <=> \E p \in DOMAIN tree : pos \in At(p)
  OBVIOUS
<1>. QED
  BY <1>1, <1>2, <1>3, Zenon

\* The positions depend on the fields of the elements only.
LEMMA SamePositions ==
  ASSUME NEW s, NEW t, DOMAIN s = DOMAIN t,
         \A p \in DOMAIN t : /\ DOMAIN s[p].body = DOMAIN t[p].body
                             /\ \A i \in DOMAIN t[p].body :
                                  "tx" \in s[p].body[i].fields <=> "tx" \in t[p].body[i].fields
  PROVE  TxPositions(s) = TxPositions(t)
<1>1. ASSUME NEW pos PROVE pos \in TxPositions(s) <=> pos \in TxPositions(t)
  <2>1. pos \in TxPositions(s) <=>
          \E p \in DOMAIN s : \E i \in DOMAIN s[p].body : "tx" \in s[p].body[i].fields /\ pos = <<p, i>>
    BY PositionIs, SMT, SMTT(30)
  <2>2. pos \in TxPositions(t) <=>
          \E p \in DOMAIN t : \E i \in DOMAIN t[p].body : "tx" \in t[p].body[i].fields /\ pos = <<p, i>>
    BY PositionIs, SMT, SMTT(30)
  <2>. QED
    BY <2>1, <2>2, Zenon
<1>. QED
  BY <1>1, Zenon

\* The position of a transaction in the submitted bundle.
LEMMA TxPosition ==
  ASSUME IInv, NEW pos \in TxPositions(input)
  PROVE  /\ pos[1] \in DOMAIN input
         /\ pos[2] \in DOMAIN input[pos[1]].body
         /\ TxAt(input, pos) = input[pos[1]].body[pos[2]]
         /\ "tx" \in TxAt(input, pos).fields
<1>1. PICK p \in DOMAIN input : \E i \in DOMAIN input[p].body : "tx" \in input[p].body[i].fields /\ pos = <<p, i>>
  BY PositionIs, SMT, SMTT(30)
<1>2. PICK i \in DOMAIN input[p].body : "tx" \in input[p].body[i].fields /\ pos = <<p, i>>
  BY <1>1
<1>3. pos[1] = p /\ pos[2] = i
  BY <1>2
<1>. QED
  BY <1>2, <1>3, Zenon DEF TxAt

-----------------------------------------------------------------------------
\* What an element becomes for the simulator.
LEMMA SimulatedIs ==
  ASSUME NEW el
  PROVE  /\ SimulatedElement(el).fields = el.fields \ {"hash"}
         /\ SimulatedElement(el).tx = el.tx
         /\ "tx" \in el.fields => (SimulatedElement(el).canRevert <=> el.revertMode = "drop" \/ el.canRevert)
<1>. DEFINE fields == el.fields \ {"hash"}
            may == "tx" \in el.fields /\ (el.revertMode = "drop" \/ el.canRevert)
<1>1. SimulatedElement(el) = [fields |-> fields, tx |-> el.tx, canRevert |-> may]
  BY Zenon DEF SimulatedElement, Simulated
<1>. HIDE DEF fields, may
<1>2. /\ SimulatedElement(el).fields = fields
      /\ SimulatedElement(el).tx = el.tx
      /\ SimulatedElement(el).canRevert = may
  BY <1>1, SMT, SMTT(30)
<1>. QED
  BY <1>2, Zenon DEF fields, may

\* The simulator lets a transaction fail exactly when its sender does.
LEMMA SimulatedMayFail ==
  ASSUME NEW el \in Element, "tx" \in el.fields, validateRevertMode(el.revertMode)
  PROVE  SimulatedElement(applyRevertMode(el)).canRevert <=> MayFail(el)
<1>1. el.canRevert \in BOOLEAN /\ "tx" \in applyRevertMode(el).fields
  BY AppliedIs DEF Element
<1>2. SimulatedElement(applyRevertMode(el)).canRevert <=>
        applyRevertMode(el).revertMode = "drop" \/ applyRevertMode(el).canRevert
  BY <1>1, SimulatedIs, Zenon
<1>3. CASE el.revertMode = NoMode
  <2>1. /\ applyRevertMode(el).revertMode = IF el.canRevert THEN "allow" ELSE "fail"
        /\ applyRevertMode(el).canRevert = el.canRevert
    BY <1>3 DEF applyRevertMode, Element
  <2>. QED
    BY <1>1, <1>2, <1>3, <2>1, Zenon DEF MayFail
<1>4. CASE el.revertMode # NoMode
  <2>1. /\ applyRevertMode(el).revertMode = el.revertMode
        /\ applyRevertMode(el).canRevert = (el.revertMode = "allow")
    BY <1>4 DEF applyRevertMode, Element
  <2>2. el.revertMode \in {"fail", "drop", "allow"}
    BY <1>4 DEF validateRevertMode, RevertModes
  <2>. QED
    BY <1>2, <1>4, <2>1, <2>2, Zenon DEF MayFail
<1>. QED
  BY <1>3, <1>4

(***************************************************************************)
(* What is simulated has all the transactions and bundles of the submitted *)
(* one, each at its position, and a transaction of a bundle that is        *)
(* validated may fail exactly when its sender says so (applyRevertMode and *)
(* replaceRevertModeForSimulation).                                        *)
(***************************************************************************)
THEOREM SimulatedAsAskedThm == Spec => []SimulatedAsAsked
<1>1. IInv => SimulatedAsAsked
  <2>. SUFFICES ASSUME IInv, Queued PROVE SimulatedAsAsked
    BY DEF SimulatedAsAsked
  <2>. Accepted
    BY DEF Queued
  <2>. DEFINE sent == replaceRevertModeForSimulation(ThroughQueue(bundle))
  <2>1. bundle \in [DOMAIN input -> Args] /\ DOMAIN bundle = DOMAIN input
    BY DEF IInv, TypeInv
  <2>2. ThroughQueue(bundle) = bundle
    BY <2>1, QueueKeeps, Zenon
  <2>3. sent = [p \in DOMAIN input |->
                 [bundle[p] EXCEPT !.body = [i \in DOMAIN bundle[p].body |-> SimulatedElement(bundle[p].body[i])]]]
    BY <2>1, <2>2, Zenon DEF replaceRevertModeForSimulation
  <2>. HIDE DEF sent
  <2>4. ASSUME NEW p \in DOMAIN input
        PROVE  sent[p].body = [i \in DOMAIN input[p].body |-> SimulatedElement(bundle[p].body[i])]
    <3>1. sent[p] = [bundle[p] EXCEPT !.body = [i \in DOMAIN bundle[p].body |-> SimulatedElement(bundle[p].body[i])]]
      BY <2>3, ZenonT(30)
    <3>2. bundle[p] \in Args /\ DOMAIN bundle[p].body = DOMAIN input[p].body
      BY <2>1, BodyIs
    <3>3. ASSUME NEW x PROVE [bundle[p] EXCEPT !.body = x].body = x
      BY <3>2 DEF Args
    <3>. QED
      BY <3>1, <3>2, <3>3, Zenon
  <2>5. DOMAIN sent = DOMAIN input /\ \A p \in DOMAIN input : DOMAIN sent[p].body = DOMAIN input[p].body
    BY <2>3, <2>4, Zenon
  <2>6. ASSUME NEW p \in DOMAIN input, NEW i \in DOMAIN input[p].body
        PROVE  LET el == input[p].body[i]
               IN  /\ sent[p].body[i].fields = el.fields \ {"hash"}
                   /\ sent[p].body[i].tx = el.tx
                   /\ "tx" \in el.fields =>
                        (sent[p].body[i].canRevert <=>
                           IF p \in Validated(input) THEN MayFail(el) ELSE el.canRevert \/ el.revertMode = "drop")
    <3>. DEFINE el == input[p].body[i]
    <3>1. /\ el \in Element /\ bundle[p].body[i] = Left(p, el)
          /\ p \in Validated(input) /\ Branch(el) = "tx" => validateRevertMode(el.revertMode)
          /\ Left(p, el).fields = el.fields /\ Left(p, el).tx = el.tx
      BY BodyIs, Zenon
    <3>2. sent[p].body[i] = SimulatedElement(Left(p, el))
      BY <2>4, <3>1, ZenonT(30)
    <3>3. p \in Validated(input) => (Branch(el) = "tx" <=> "tx" \in el.fields)
      BY NoHashes, Zenon
    <3>. HIDE DEF el
    <3>4. /\ SimulatedElement(Left(p, el)).fields = el.fields \ {"hash"}
          /\ SimulatedElement(Left(p, el)).tx = el.tx
      BY <3>1, SimulatedIs, Zenon
    <3>5. p \in Validated(input) /\ "tx" \in el.fields => (SimulatedElement(Left(p, el)).canRevert <=> MayFail(el))
      BY <3>1, <3>3, SimulatedMayFail, Zenon DEF Left
    <3>6. p \notin Validated(input) /\ "tx" \in el.fields =>
            (SimulatedElement(Left(p, el)).canRevert <=> el.canRevert \/ el.revertMode = "drop")
      <4>1. p \notin Validated(input) => Left(p, el) = el
        BY Zenon DEF Left
      <4>. QED
        BY <4>1, SimulatedIs, Zenon
    <3>. QED
      BY <3>2, <3>4, <3>5, <3>6, Zenon DEF el
  <2>8. ASSUME NEW pos \in TxPositions(input)
        PROVE  LET el == TxAt(input, pos)
               IN  /\ TxAt(sent, pos).tx = el.tx
                   /\ TxAt(sent, pos).canRevert <=>
                        IF pos[1] \in Validated(input) THEN MayFail(el) ELSE el.canRevert \/ el.revertMode = "drop"
    <3>. DEFINE q == pos[1]
                j == pos[2]
    <3>1. /\ q \in DOMAIN input /\ j \in DOMAIN input[q].body
          /\ TxAt(input, pos) = input[q].body[j] /\ "tx" \in input[q].body[j].fields
          /\ TxAt(sent, pos) = sent[q].body[j]
      BY TxPosition, Zenon DEF TxAt
    <3>. HIDE DEF q, j
    <3>2. /\ sent[q].body[j].tx = input[q].body[j].tx
          /\ sent[q].body[j].canRevert <=>
               IF q \in Validated(input) THEN MayFail(input[q].body[j])
                 ELSE input[q].body[j].canRevert \/ input[q].body[j].revertMode = "drop"
      BY <2>6, <3>1, Zenon
    <3>. QED
      BY <3>1, <3>2, Zenon DEF q
  <2>9. \A p \in DOMAIN input :
          /\ DOMAIN sent[p].body = DOMAIN input[p].body
          /\ \A i \in DOMAIN input[p].body : sent[p].body[i].fields = input[p].body[i].fields \ {"hash"}
    BY <2>5, <2>6, Zenon
  <2>. QED
    BY <2>5, <2>8, <2>9, Zenon DEF SimulatedAsAsked, sent
<1>. QED
  BY <1>1, ValidationInv, PTL
-----------------------------------------------------------------------------
\* The transactions of an accepted bundle are where they were submitted.
LEMMA PositionsKept ==
  ASSUME IInv, Accepted
  PROVE  /\ TxPositions(bundle) = TxPositions(input)
         /\ \A pos \in TxPositions(input) :
              /\ TxAt(bundle, pos) = Left(pos[1], TxAt(input, pos))
              /\ TxAt(bundle, pos).tx = TxAt(input, pos).tx
              /\ TxAt(bundle, pos).parses = TxAt(input, pos).parses
              /\ TxAt(bundle, pos).fields = TxAt(input, pos).fields
<1>1. DOMAIN bundle = DOMAIN input
  BY DEF IInv, TypeInv
<1>2. \A p \in DOMAIN input :
         /\ DOMAIN bundle[p].body = DOMAIN input[p].body
         /\ \A i \in DOMAIN input[p].body :
              "tx" \in bundle[p].body[i].fields <=> "tx" \in input[p].body[i].fields
  BY BodyIs, Zenon
<1>3. TxPositions(bundle) = TxPositions(input)
  BY <1>1, <1>2, SamePositions, SMT, Zenon, SMTT(30)
<1>4. ASSUME NEW pos \in TxPositions(input)
      PROVE  /\ TxAt(bundle, pos) = Left(pos[1], TxAt(input, pos))
             /\ TxAt(bundle, pos).tx = TxAt(input, pos).tx
             /\ TxAt(bundle, pos).parses = TxAt(input, pos).parses
             /\ TxAt(bundle, pos).fields = TxAt(input, pos).fields
  BY TxPosition, BodyIs, ZenonT(30) DEF TxAt
<1>. QED
  BY <1>3, <1>4

\* The bundles around a bundle are bundles.
LEMMA AroundIn ==
  ASSUME IsBundle(input), NEW p \in DOMAIN input
  PROVE  Around(p) \subseteq DOMAIN input /\ p \in Around(p)
<1>. DEFINE B == {r \in DOMAIN input : ~(Around(r) \subseteq DOMAIN input)}
<1>1. B = {}
  <2>1. SUFFICES ASSUME B # {} PROVE FALSE
    OBVIOUS
  <2>2. B \in SUBSET Seq(Nat)
    BY TreeFacts
  <2>3. PICK r \in B : \A q \in B : Len(r) <= Len(q)
    BY <2>1, <2>2, ShortestPath, Zenon
  <2>4. r \in DOMAIN input /\ r \in Seq(Nat) /\ ~(Around(r) \subseteq DOMAIN input)
    BY <2>2, <2>3
  <2>5. r # Top
    <3>1. Around(Top) = {Top}
      BY <2>4, AroundSelf, Zenon
    <3>. QED
      BY <2>4, <3>1, Zenon
  <2>. DEFINE f == Front(r)
  <2>6. f \in DOMAIN input /\ \E i \in With(input[f], "bundle") : r = Append(f, i)
    BY <2>4, <2>5, TreeFacts, Zenon
  <2>. HIDE DEF f, B
  <2>7. PICK i \in With(input[f], "bundle") : r = Append(f, i)
    BY <2>6
  <2>8. f \in Seq(Nat) /\ i \in Nat
    BY <2>6, TreeFacts, WithFacts, ZenonT(30)
  <2>9. ~(Len(r) <= Len(f))
    BY <2>7, <2>8, AppendPath, SMTT(30), SMTT(60)
  <2>10. Around(f) \subseteq DOMAIN input
    BY <2>3, <2>6, <2>9, Zenon DEF B
  <2>11. Around(r) = Around(f) \cup {r}
    BY <2>7, <2>8, AroundAppend, Zenon
  <2>. QED
    BY <2>4, <2>10, <2>11, Zenon
<1>2. p \in Around(p)
  BY TreeFacts, AroundSelf, Zenon
<1>. QED
  BY <1>1, <1>2, SMT, Zenon, SMTT(30)

\* The conversion comes to the bundles that were validated.
LEMMA ConvertedIs ==
  ASSUME IInv, Queued
  PROVE  Converted(bundle) = Validated(input)
<1>1. IsBundle(input) /\ DOMAIN bundle = DOMAIN input /\ Accepted
  BY Zenon DEF IInv, TypeInv, Queued
<1>2. \A s \in Seq(Nat), i \in Nat : Last(Append(s, i)) = i
  BY SMT, SMTT(30) DEF Last
<1>. DEFINE El(q) == bundle[Front(q)].body[Last(q)]
<1>3. ASSUME NEW q \in DOMAIN input, q # Top
      PROVE  /\ q \in Seq(Nat) /\ Front(q) \in DOMAIN input /\ Front(q) \in Seq(Nat)
             /\ Last(q) \in Nat /\ Last(q) \in DOMAIN input[Front(q)].body /\ q = Append(Front(q), Last(q))
             /\ El(q).fields = input[Front(q)].body[Last(q)].fields
             /\ "bundle" \in input[Front(q)].body[Last(q)].fields
             /\ input[Front(q)].body[Last(q)] \in Element
  <2>1. /\ q \in Seq(Nat) /\ Front(q) \in DOMAIN input
        /\ \E i \in With(input[Front(q)], "bundle") : q = Append(Front(q), i)
    BY <1>1, <1>3, TreeFacts, Zenon
  <2>2. PICK i \in With(input[Front(q)], "bundle") : q = Append(Front(q), i)
    BY <2>1
  <2>3. Front(q) \in Seq(Nat) /\ i \in Nat /\ i \in DOMAIN input[Front(q)].body /\ "bundle" \in input[Front(q)].body[i].fields
    BY <1>1, <2>1, TreeFacts, WithFacts, Zenon DEF With
  <2>4. Last(q) = i
    BY <1>2, <2>2, <2>3, Zenon
  <2>5. /\ bundle[Front(q)].body[i].fields = input[Front(q)].body[i].fields
        /\ input[Front(q)].body[i] \in Element
    BY <1>1, <2>1, <2>3, BodyIs, Zenon
  <2>. QED
    BY <2>1, <2>2, <2>3, <2>4, <2>5, Zenon
<1>4. ASSUME NEW p \in Validated(input) PROVE p \in Converted(bundle)
  <2>1. p \in DOMAIN input /\ \A q \in Around(p) \ {Top} : q \in Checked(input, Front(q))
    BY Zenon DEF Validated
  <2>2. ASSUME NEW q \in Around(p), q # Top PROVE "tx" \notin El(q).fields
    <3>1. q \in DOMAIN input
      BY <1>1, <2>1, <2>2, AroundIn, Zenon
    <3>2. PICK i \in NestedAt(Front(q)) : q = Append(Front(q), i)
      BY <2>1, <2>2, CheckedAre, Zenon
    <3>3. i = Last(q)
      BY <1>1, <1>2, <1>3, <2>2, <3>1, <3>2, TreeFacts, Zenon
    <3>4. Branch(input[Front(q)].body[Last(q)]) = "bundle"
      BY <3>2, <3>3, Zenon DEF NestedAt
    <3>5. input[Front(q)].body[Last(q)].fields = {"bundle"}
      BY <1>3, <2>2, <3>1, <3>4, BranchIs, Zenon
    <3>6. "tx" \notin {"bundle"}
      OBVIOUS
    <3>. QED
      BY <1>3, <2>2, <3>1, <3>5, <3>6, Zenon
  <2>. QED
    BY <1>1, <2>1, <2>2, Zenon DEF Converted
<1>5. ASSUME NEW p \in Converted(bundle) PROVE p \in Validated(input)
  <2>. DEFINE B == Converted(bundle) \ Validated(input)
  <2>1. SUFFICES ASSUME B # {} PROVE FALSE
    BY <1>5, Zenon
  <2>2. B \in SUBSET Seq(Nat)
    BY <1>1, TreeFacts DEF Converted
  <2>3. PICK r \in B : \A q \in B : Len(r) <= Len(q)
    BY <2>1, <2>2, ShortestPath, Zenon
  <2>4. /\ r \in DOMAIN input /\ r \notin Validated(input) /\ r # Top
        /\ \A q \in Around(r) \ {Top} : "tx" \notin El(q).fields
    BY <1>1, <2>3, TopValidated, Zenon DEF Converted
  <2>. DEFINE f == Front(r)
              i == Last(r)
  <2>5. /\ f \in DOMAIN input /\ f \in Seq(Nat) /\ i \in Nat /\ r = Append(f, i) /\ r \in Around(r)
        /\ i \in DOMAIN input[f].body /\ "bundle" \in input[f].body[i].fields /\ "tx" \notin input[f].body[i].fields
    BY <1>1, <1>3, <2>4, AroundIn, Zenon
  <2>. HIDE DEF B, f, i
  <2>6. Around(r) = Around(f) \cup {r} /\ ~(Len(r) <= Len(f))
    <3>1. Around(r) = Around(f) \cup {r}
      BY <2>5, AroundAppend, Zenon
    <3>2. Len(r) = Len(f) + 1 /\ Len(f) \in Nat
      BY <2>5, AppendPath, SMT, SMTT(30)
    <3>. QED
      BY <3>1, <3>2, SMT, SMTT(30)
  <2>7. f \in Converted(bundle)
    BY <1>1, <2>4, <2>5, <2>6, Zenon DEF Converted
  <2>8. f \in Validated(input)
    BY <2>3, <2>6, <2>7, Zenon DEF B
  <2>9. i \in NestedAt(f)
    BY <2>5, <2>8, NoHashes, Zenon DEF NestedAt
  <2>. QED
    BY <1>1, <2>4, <2>5, <2>8, <2>9, ValidatedNested, Zenon
<1>. QED
  BY <1>4, <1>5, Zenon

\* What a conversion that succeeds refunds.
LEMMA RefundDataIs ==
  ASSUME NEW tree, extractRefundData(tree).ok,
         tree[Top].refund \in Seq([bodyIdx : Int, percent : Int]), tree[Top].refund # << >>,
         refundConfigOf(tree, tree[Top].refund[1].bodyIdx) \in Seq([address : Addresses, percent : Int])
  PROVE  LET r == tree[Top].refund
             config == refundConfigOf(tree, r[1].bodyIdx)
         IN  /\ Len(r) = 1
             /\ \/ /\ config = << >> /\ r[1].bodyIdx = 0
                   /\ extractRefundData(tree) = Refund(r[1].percent, FirstSender)
                \/ /\ Len(config) = 1
                   /\ extractRefundData(tree) = Refund(correctedPercent(config[1], r[1].percent), config[1].address)
<1>. DEFINE r == tree[Top].refund
            config == refundConfigOf(tree, r[1].bodyIdx)
            R == [bodyIdx : Int, percent : Int]
            C == [address : Addresses, percent : Int]
<1>. DEFINE data == extractRefundData(tree)
            idx == r[1].bodyIdx
            bad == \/ Len(r) > 1
                   \/ idx >= Len(tree[Top].body) \/ tree[Top].body[idx + 1].fields \cap {"tx", "bundle"} = {}
                   \/ Len(config) > 1
                   \/ config = << >> /\ idx # 0
            first == Refund(r[1].percent, FirstSender)
            share == Refund(correctedPercent(config[1], r[1].percent), config[1].address)
<1>1. data = IF r = << >> THEN NoRefund
             ELSE IF bad THEN Failed
             ELSE IF config = << >> THEN first ELSE share
  BY Zenon DEF extractRefundData
<1>2. /\ ~Failed.ok /\ Len(r) \in Nat /\ Len(config) \in Nat
      /\ Len(r) <= 1 => r = << >> \/ Len(r) = 1
      /\ Len(config) <= 1 => config = << >> \/ Len(config) = 1
  <2>1. Len(r) \in Nat /\ Len(config) \in Nat /\ (Len(r) = 0 => r = << >>) /\ (Len(config) = 0 => config = << >>)
    <3>1. r \in Seq(R) /\ config \in Seq(C)
      OBVIOUS
    <3>. HIDE DEF r, config, R, C
    <3>. QED
      BY <3>1, SMT, Zenon, SMTT(30)
  <2>2. \A n \in Nat : n <= 1 => n = 0 \/ n = 1
    BY SMT, SMTT(30)
  <2>3. ~Failed.ok
    BY SMT, Zenon, SMTT(30) DEF Failed
  <2>. QED
    BY <2>1, <2>2, <2>3, Zenon
<1>3. ~bad => Len(r) <= 1 /\ Len(config) <= 1 /\ (config = << >> => idx = 0)
  <2>. HIDE DEF r, config
  <2>. QED
    BY <1>2, SMT, Zenon, SMTT(30)
<1>. HIDE DEF r, config, bad, first, share, data, idx
<1>4. r = << >> \/ ~bad
  BY <1>1, <1>2, Zenon DEF data
<1>5. r # << >> => Len(r) = 1 /\ (config # << >> => Len(config) = 1)
  BY <1>2, <1>3, <1>4, Zenon
<1>. QED
  <2>1. r # << >> /\ extractRefundData(tree) = data
    BY Zenon DEF r, data
  <2>2. /\ Len(r) = 1
        /\ \/ /\ config = << >> /\ r[1].bodyIdx = 0
              /\ extractRefundData(tree) = Refund(r[1].percent, FirstSender)
           \/ /\ Len(config) = 1
              /\ extractRefundData(tree) = Refund(correctedPercent(config[1], r[1].percent), config[1].address)
    BY <1>1, <1>3, <1>4, <1>5, <2>1, Zenon DEF first, share, idx
  <2>. QED
    BY <2>2, Zenon DEF r, config

(***************************************************************************)
(* A bundle that is converted for the refund recipient API has all the     *)
(* transactions of the submitted one and of the bundles validated in it,   *)
(* and refunds what it asks for, rounded down to a percent                 *)
(* (ConvertBundleToRefundRecipient).                                       *)
(***************************************************************************)
THEOREM RefundAsAskedThm == Spec => []RefundAsAsked
<1>1. IInv => RefundAsAsked
  <2>. SUFFICES ASSUME IInv, Queued PROVE RefundAsAsked
    BY Zenon DEF RefundAsAsked
  <2>. Accepted
    BY DEF Queued
  <2>. DEFINE sent == ConvertBundleToRefundRecipient(ThroughQueue(bundle), MaxNestingLevel)
              at == {pos \in TxPositions(input) : pos[1] \in Validated(input)}
              refund == input[Top].refund
              config == refundConfigOf(input, refund[1].bodyIdx)
              extracted == extractTxs(bundle, MaxNestingLevel)
              data == extractRefundData(bundle)
  <2>1. /\ bundle \in [DOMAIN input -> Args] /\ DOMAIN bundle = DOMAIN input /\ IsBundle(input)
        /\ Top \in DOMAIN input /\ Top \in Validated(input)
    BY TopValidated, Zenon DEF IInv, TypeInv, IsBundle
  <2>2. ThroughQueue(bundle) = bundle
    BY <2>1, QueueKeeps, Zenon
  <2>3. SUFFICES ASSUME sent.ok
                 PROVE  /\ sent.txs = [pos \in at |-> TxAt(input, pos).tx]
                        /\ \A pos \in at : MayFail(TxAt(input, pos)) => TxAt(input, pos).revertMode = "drop"
                        /\ sent.data.refund <=> refund # << >>
                        /\ \A p \in Validated(input) \ {Top} : input[p].refund = << >>
                        /\ sent.data.refund =>
                             /\ Len(refund) = 1
                             /\ IF sent.data.recipient = FirstSender
                                  THEN config = << >> /\ refund[1].bodyIdx = 0 /\ sent.data.percent = refund[1].percent
                                  ELSE /\ [c \in DOMAIN config |-> config[c].address] = <<sent.data.recipient>>
                                       /\ refund[1].percent * config[1].percent - 100 * sent.data.percent \in 0 .. 99
    BY Zenon DEF RefundAsAsked
  <2>4. extracted.ok /\ data.ok /\ sent.txs = extracted.txs /\ sent.data = data
    <3>. HIDE DEF extracted, data
    <3>1. sent = IF extracted.ok /\ data.ok THEN [ok |-> TRUE, txs |-> extracted.txs, data |-> data] ELSE [ok |-> FALSE]
      BY <2>2 DEF ConvertBundleToRefundRecipient, Failed, extracted, data
    <3>. HIDE DEF sent
    <3>. QED
      BY <2>3, <3>1, SMT, Zenon, SMTT(30)
  <2>. HIDE DEF sent, extracted, data
  <2>5. /\ \A p \in Validated(input) :
             /\ Len(p) > 0 => bundle[p].refund = << >>
             /\ \A i \in DOMAIN bundle[p].body : "tx" \in bundle[p].body[i].fields => ~bundle[p].body[i].canRevert
        /\ extracted.txs = [pos \in {x \in TxPositions(bundle) : x[1] \in Validated(input)} |-> TxAt(bundle, pos).tx]
    <3>. DEFINE Ok(el) == IF "tx" \in el.fields THEN ~el.canRevert ELSE "bundle" \in el.fields
                all == \A p \in Converted(bundle) :
                         /\ Len(p) <= MaxNestingLevel
                         /\ Len(p) > 0 => bundle[p].refund = << >>
                         /\ \A i \in DOMAIN bundle[p].body : Ok(bundle[p].body[i])
                list == [pos \in {x \in TxPositions(bundle) : x[1] \in Converted(bundle)} |-> TxAt(bundle, pos).tx]
    <3>1. extracted = IF all THEN [ok |-> TRUE, txs |-> list] ELSE Failed
      BY Zenon DEF extractTxs, extracted
    <3>2. ~Failed.ok
      BY DEF Failed
    <3>3. all /\ extracted.txs = list
      <4>. HIDE DEF all, list
      <4>. QED
        BY <2>4, <3>1, <3>2, SMT, Zenon, SMTT(30)
    <3>4. \A el : Ok(el) /\ "tx" \in el.fields => ~el.canRevert
      OBVIOUS
    <3>. QED
      BY <3>3, <3>4, ConvertedIs, ZenonT(30)
  <2>6. sent.txs = [pos \in at |-> TxAt(input, pos).tx]
    <3>1. {x \in TxPositions(bundle) : x[1] \in Validated(input)} = at
      BY PositionsKept, Zenon
    <3>2. \A pos \in at : TxAt(bundle, pos).tx = TxAt(input, pos).tx
      BY PositionsKept, Zenon
    <3>. HIDE DEF at
    <3>. QED
      BY <2>4, <2>5, <3>1, <3>2, SMT, Zenon, SMTT(30)
  <2>7. ASSUME NEW pos \in at, MayFail(TxAt(input, pos)) PROVE TxAt(input, pos).revertMode = "drop"
    <3>. DEFINE el == TxAt(input, pos)
    <3>1. /\ el \in Element /\ validateRevertMode(el.revertMode)
          /\ TxAt(bundle, pos) = applyRevertMode(el)
          /\ ~TxAt(bundle, pos).canRevert
      <4>1. /\ pos[1] \in DOMAIN input /\ pos[2] \in DOMAIN input[pos[1]].body
            /\ el = input[pos[1]].body[pos[2]] /\ "tx" \in el.fields /\ pos[1] \in Validated(input)
        BY TxPosition, Zenon
      <4>2. Branch(el) = "tx"
        BY <4>1, NoHashes, Zenon
      <4>3. /\ el \in Element /\ validateRevertMode(el.revertMode)
            /\ pos[2] \in DOMAIN bundle[pos[1]].body /\ bundle[pos[1]].body[pos[2]] = Left(pos[1], el)
            /\ "tx" \in bundle[pos[1]].body[pos[2]].fields
        BY <4>1, <4>2, BodyIs, ZenonT(30)
      <4>. QED
        BY <2>5, <4>1, <4>2, <4>3, ZenonT(30) DEF TxAt, Left
    <3>. HIDE DEF el
    <3>2. el.canRevert \in BOOLEAN /\ ~applyRevertMode(el).canRevert
      BY <3>1 DEF Element
    <3>3. CASE el.revertMode = NoMode
      <4>1. applyRevertMode(el).canRevert = el.canRevert
        BY <3>1, <3>3, SMT, Zenon, SMTT(30) DEF applyRevertMode, Element
      <4>. QED
        BY <2>7, <3>2, <3>3, <4>1, ZenonT(30) DEF MayFail, el
    <3>4. CASE el.revertMode # NoMode
      <4>1. applyRevertMode(el).canRevert = (el.revertMode = "allow")
        BY <3>1, <3>4, SMT, Zenon, SMTT(30) DEF applyRevertMode, Element
      <4>2. el.revertMode \in {"fail", "drop", "allow"}
        BY <3>1, <3>4, SMT, Zenon, SMTT(30) DEF validateRevertMode, RevertModes
      <4>3. el.revertMode # "fail"
        BY <2>7, <3>4, Zenon DEF MayFail, el
      <4>. QED
        BY <3>2, <4>1, <4>2, <4>3, Zenon DEF el
    <3>. QED
      BY <3>3, <3>4, SMT, Zenon, SMTT(30)
  <2>8. ASSUME NEW p \in DOMAIN input PROVE bundle[p].refund = input[p].refund /\ bundle[p].refundConfig = input[p].refundConfig
    BY Zenon DEF IInv, Each, BodyInv
  <2>9. ASSUME NEW p \in Validated(input) \ {Top} PROVE input[p].refund = << >>
    <3>0. p \in DOMAIN input
      BY Zenon DEF Validated
    <3>1. Len(p) > 0
      <4>1. p \in Seq(Nat) /\ p # << >>
        BY <2>1, <3>0, TreeFacts, SMT, Zenon, SMTT(30) DEF Top
      <4>. QED
        BY <4>1, SMT, Zenon, SMTT(30)
    <3>. QED
      BY <2>5, <2>8, <3>0, <3>1, ZenonT(30)
  <2>10. /\ sent.data.refund <=> refund # << >>
         /\ sent.data.refund =>
               /\ Len(refund) = 1
               /\ IF sent.data.recipient = FirstSender
                    THEN config = << >> /\ refund[1].bodyIdx = 0 /\ sent.data.percent = refund[1].percent
                    ELSE /\ [c \in DOMAIN config |-> config[c].address] = <<sent.data.recipient>>
                         /\ refund[1].percent * config[1].percent - 100 * sent.data.percent \in 0 .. 99
    <3>. DEFINE R == [bodyIdx : Int, percent : Int]
                C == [address : Addresses, percent : Int]
    <3>1. /\ refund \in Seq(R) /\ refund = bundle[Top].refund
          /\ \A p \in DOMAIN input : input[p] \in Args /\ input[p].refundConfig \in Seq(C)
      <4>1. \A p \in DOMAIN input : input[p] \in Args
        BY <2>1, TreeFacts, SMT, Zenon, SMTT(30)
      <4>. QED
        BY <2>1, <2>8, <4>1, Zenon DEF Args
    <3>2. CASE refund = << >>
      <4>1. sent.data = NoRefund
        BY <2>4, <3>1, <3>2, Zenon DEF extractRefundData, data
      <4>2. ~NoRefund.refund
        BY DEF NoRefund
      <4>. QED
        BY <3>2, <4>1, <4>2, Zenon
    <3>3. CASE refund # << >>
      <4>. DEFINE idx == refund[1].bodyIdx
      <4>1. /\ 1 \in DOMAIN refund /\ idx \in 0 .. Len(input[Top].body) - 1
            /\ refund[1].percent \in 0 .. 100
        <5>1. \A i \in DOMAIN refund : refund[i].bodyIdx \in 0 .. Len(input[Top].body) - 1 /\ PercentOk(refund[i].percent)
          BY <2>1, AllPassed, ZenonT(30) DEF Each, ClosedInv, ValidityOk
        <5>2. 1 \in DOMAIN refund
          BY <3>1, <3>3, SMTT(30), SMTT(60)
        <5>. QED
          BY <5>1, <5>2, Zenon DEF PercentOk
      <4>2. idx + 1 \in DOMAIN input[Top].body /\ idx + 1 \in Nat
        <5>1. input[Top].body \in Seq(Element)
          BY <2>1, <3>1, ArgsFields, Zenon
        <5>. HIDE DEF idx
        <5>. QED
          BY <4>1, <5>1, SMTT(30), SMTT(60)
      <4>. HIDE DEF idx
      <4>3. bundle[Top].body[idx + 1].fields = input[Top].body[idx + 1].fields
        BY <2>1, <4>2, BodyIs, Zenon
      <4>4. /\ config = refundConfigOf(bundle, idx) /\ config \in Seq(C)
            /\ \A i \in DOMAIN config : PercentOk(config[i].percent)
        <5>. DEFINE fields == input[Top].body[idx + 1].fields
        <5>1. CASE "bundle" \in fields /\ "tx" \notin fields
          <6>1. <<idx + 1>> \in DOMAIN input /\ <<idx + 1>> \in Validated(input)
            <7>1. idx + 1 \in NestedAt(Top)
              BY <2>1, <4>2, <5>1, NoHashes, ZenonT(30) DEF NestedAt
            <7>2. Append(Top, idx + 1) \in DOMAIN input /\ Append(Top, idx + 1) \in Validated(input)
              BY <2>1, <7>1, TreeFacts, ValidatedNested, Zenon
            <7>3. Append(Top, idx + 1) = <<idx + 1>>
              BY SMT, SMTT(30) DEF Top
            <7>. QED
              BY <7>2, <7>3, ZenonT(30)
          <6>2. config = input[<<idx + 1>>].refundConfig
            BY <5>1, Zenon DEF refundConfigOf, idx
          <6>3. refundConfigOf(bundle, idx) = bundle[<<idx + 1>>].refundConfig
            BY <4>3, <5>1, ZenonT(30) DEF refundConfigOf
          <6>4. \A i \in DOMAIN input[<<idx + 1>>].refundConfig : PercentOk(input[<<idx + 1>>].refundConfig[i].percent)
            BY <6>1, AllPassed, Zenon DEF Each, ClosedInv, ValidityOk
          <6>. HIDE DEF config, fields
          <6>. QED
            BY <2>8, <3>1, <6>1, <6>2, <6>3, <6>4, ZenonT(30)
        <5>2. CASE ~("bundle" \in fields /\ "tx" \notin fields)
          <6>1. config = << >>
            BY <5>2, Zenon DEF refundConfigOf, idx
          <6>2. refundConfigOf(bundle, idx) = << >>
            BY <4>3, <5>2, Zenon DEF refundConfigOf
          <6>. HIDE DEF config, fields
          <6>. QED
            BY <6>1, <6>2, SMT, Zenon, SMTT(30)
        <5>. QED
          BY <5>1, <5>2, Zenon
      <4>. HIDE DEF config, refund
      <4>5. /\ Len(refund) = 1
            /\ \/ config = << >> /\ refund[1].bodyIdx = 0 /\ data = Refund(refund[1].percent, FirstSender)
               \/ Len(config) = 1 /\ data = Refund(correctedPercent(config[1], refund[1].percent), config[1].address)
        <5>1. refund = bundle[Top].refund /\ config = refundConfigOf(bundle, bundle[Top].refund[1].bodyIdx)
          BY <3>1, <4>4, ZenonT(30) DEF idx
        <5>2. /\ extractRefundData(bundle).ok
              /\ bundle[Top].refund \in Seq(R) /\ bundle[Top].refund # << >>
              /\ refundConfigOf(bundle, bundle[Top].refund[1].bodyIdx) \in Seq(C)
          BY <2>4, <3>1, <3>3, <4>4, <5>1, Zenon DEF data
        <5>. QED
          BY <5>1, <5>2, RefundDataIs, ZenonT(30) DEF data
      <4>6. \A x, y : Refund(x, y).refund /\ Refund(x, y).percent = x /\ Refund(x, y).recipient = y
        BY DEF Refund
      <4>7. CASE config = << >> /\ refund[1].bodyIdx = 0 /\ data = Refund(refund[1].percent, FirstSender)
        <5>1. sent.data.refund /\ sent.data.percent = refund[1].percent /\ sent.data.recipient = FirstSender
          BY <2>4, <4>6, <4>7, SMTT(30), SMTT(60)
        <5>. QED
          BY <3>3, <4>5, <4>7, <5>1, Zenon
      <4>8. CASE Len(config) = 1 /\ data = Refund(correctedPercent(config[1], refund[1].percent), config[1].address)
        <5>1. /\ config[1].address \in Addresses /\ config[1].percent \in 0 .. 100
              /\ [c \in DOMAIN config |-> config[c].address] = <<config[1].address>>
          <6>1. DOMAIN config = 1 .. 1 /\ 1 \in DOMAIN config /\ config[1] \in C
            <7>1. config \in Seq(C) /\ Len(config) = 1
              BY <4>4, <4>8, Zenon
            <7>. HIDE DEF C
            <7>. QED
              BY <7>1, SMT, SMTT(30)
          <6>2. config[1].percent \in 0 .. 100
            BY <4>4, <6>1, Zenon DEF PercentOk
          <6>3. [c \in DOMAIN config |-> config[c].address] = <<config[1].address>>
            BY <6>1, SMT, SMTT(30)
          <6>. QED
            BY <6>1, <6>2, <6>3, Zenon
        <5>2. config[1].address # FirstSender
          BY <5>1, BundlePathAssumption, Zenon
        <5>3. refund[1].percent * config[1].percent - 100 * correctedPercent(config[1], refund[1].percent) \in 0 .. 99
          <6>1. \A x \in Nat : x - 100 * (x \div 100) \in 0 .. 99
            BY SMT, SMTT(30)
          <6>2. ASSUME NEW x \in 0 .. 100, NEW y \in 0 .. 100 PROVE x * y \in Nat /\ y * x = x * y
            BY SMT, SMTT(30)
          <6>. QED
            BY <4>1, <5>1, <6>1, <6>2, ZenonT(30) DEF correctedPercent
        <5>. QED
          <6>1. /\ sent.data.refund /\ sent.data.recipient = config[1].address
                /\ sent.data.percent = correctedPercent(config[1], refund[1].percent)
            BY <2>4, <4>6, <4>8, SMTT(30), SMTT(60)
          <6>. QED
            BY <3>3, <4>5, <5>1, <5>2, <5>3, <6>1, ZenonT(30)
      <4>. QED
        BY <4>5, <4>7, <4>8, Zenon
    <3>. QED
      BY <3>2, <3>3, ZenonT(30)
  <2>. QED
    BY <2>6, <2>7, <2>9, <2>10, Zenon
<1>. QED
  BY <1>1, ValidationInv, PTL
-----------------------------------------------------------------------------
\* Whether a bundle by itself shares anything.
Opens(p) == IF p \in Validated(input) THEN WantOf(input[p]) # {} ELSE "hash" \in WantOf(input[p])

\* What has become of the hints that a bundle asks for when it is accepted.
LEMMA WantIs ==
  ASSUME IInv, Accepted, NEW p \in DOMAIN input
  PROVE  /\ HasHint(WantOf(bundle[p]), {"hash"}) <=> Opens(p)
         /\ Opens(p) => WantOf(bundle[p]) = WantOf(input[p]) \cup {"hash"}
<1>. DEFINE w == WantOf(bundle[p])
            v == WantOf(input[p])
<1>1. CASE p \in Validated(input)
  <2>1. PrivacyInv(p) /\ Closed(p) /\ input[p] \in Args
    BY <1>1, AllPassed, Zenon DEF Each
  <2>2. bundle[p].privacy.set = input[p].privacy.set /\ bundle[p].privacy.hints = WithHashHint(input[p].privacy).hints
    BY <2>1, Zenon DEF PrivacyInv
  <2>3. WithHashHint(input[p].privacy).hints =
          IF input[p].privacy.hints = {} \/ ~input[p].privacy.set THEN input[p].privacy.hints
          ELSE input[p].privacy.hints \cup {"hash"}
    <3>1. input[p].privacy \in Privacy
      BY <2>1, ArgsFields, Zenon
    <3>. QED
      BY <3>1 DEF WithHashHint, Privacy
  <2>4. (v = {} => w = {}) /\ (v # {} => w = v \cup {"hash"})
    BY <2>2, <2>3, Zenon DEF WantOf
  <2>. HIDE DEF w, v
  <2>5. w \cap {"hash"} # {} <=> v # {}
    BY <2>4
  <2>. QED
    BY <1>1, <2>4, <2>5, Zenon DEF HasHint, Opens, w, v
<1>2. CASE p \notin Validated(input)
  <2>1. PrivacyInv(p) /\ ~Closed(p)
    BY <1>2, KeptAs, Zenon DEF Each
  <2>2. w = v
    BY <2>1, Zenon DEF PrivacyInv, WantOf
  <2>. HIDE DEF w, v
  <2>3. (w \cap {"hash"} # {} <=> "hash" \in v) /\ ("hash" \in v => w = v \cup {"hash"})
    BY <2>2
  <2>. QED
    BY <1>2, <2>3, Zenon DEF HasHint, Opens, w, v
<1>. QED
  BY <1>1, <1>2, Zenon

\* The fields that are shown of a transaction.
LEMMA FieldsShown ==
  ASSUME NEW W, NEW tx
  PROVE  /\ extractTxHints(tx, W \cup {"hash"}) = [tx |-> tx, shows |-> {f \in TxFields : W \cap ShownBy[f] # {}}]
         /\ HasHint(W \cup {"hash"}, TxFields) <=> {f \in TxFields : W \cap ShownBy[f] # {}} # {}
<1>. DEFINE want == W \cup {"hash"}
            address == IF HasHint(want, {"function_selector", "calldata"}) THEN {"contract_address"} ELSE {}
            selector == IF HasHint(want, {"calldata"}) THEN {"function_selector"} ELSE {}
            shown == {f \in TxFields : W \cap ShownBy[f] # {}}
<1>1. /\ W \cap ShownBy["contract_address"] # {} <=>
           "contract_address" \in W \/ "function_selector" \in W \/ "calldata" \in W
      /\ W \cap ShownBy["function_selector"] # {} <=> "function_selector" \in W \/ "calldata" \in W
      /\ W \cap ShownBy["calldata"] # {} <=> "calldata" \in W
      /\ W \cap ShownBy["tx_hash"] # {} <=> "tx_hash" \in W
  <2>1. /\ ShownBy["contract_address"] = {"contract_address", "function_selector", "calldata"}
        /\ ShownBy["function_selector"] = {"function_selector", "calldata"}
        /\ ShownBy["calldata"] = {"calldata"}
        /\ ShownBy["tx_hash"] = {"tx_hash"}
    BY DEF ShownBy
  <2>. QED
    BY <2>1
<1>2. /\ HasHint(want, {"function_selector", "calldata"}) <=> "function_selector" \in W \/ "calldata" \in W
      /\ HasHint(want, {"calldata"}) <=> "calldata" \in W
  BY DEF HasHint
<1>3. \A f \in TxFields : f \in want \cup address \cup selector <=> W \cap ShownBy[f] # {}
  <2>1. /\ "contract_address" \in want \cup address \cup selector <=>
             "contract_address" \in W \/ "function_selector" \in W \/ "calldata" \in W
        /\ "function_selector" \in want \cup address \cup selector <=> "function_selector" \in W \/ "calldata" \in W
        /\ "calldata" \in want \cup address \cup selector <=> "calldata" \in W
        /\ "tx_hash" \in want \cup address \cup selector <=> "tx_hash" \in W
    BY <1>2
  <2>. HIDE DEF address, selector, want
  <2>. QED
    BY <1>1, <2>1, SMT, Zenon, SMTT(30) DEF TxFields
<1>4. (want \cup address \cup selector) \cap TxFields = shown
  <2>. HIDE DEF address, selector, want
  <2>. QED
    BY <1>3
<1>5. extractTxHints(tx, want) = [tx |-> tx, shows |-> shown]
  BY <1>4, Zenon DEF extractTxHints
<1>6. HasHint(want, TxFields) <=> \E f \in TxFields : f \in W
  BY DEF HasHint, TxFields
<1>7. (\E f \in TxFields : f \in W) <=> \E f \in TxFields : W \cap ShownBy[f] # {}
  BY <1>1 DEF TxFields
<1>8. HasHint(want, TxFields) <=> shown # {}
  BY <1>6, <1>7, SMT, Zenon, SMTT(30)
<1>. QED
  BY <1>5, <1>8, SMT, Zenon, SMTT(30)

\* The logs of swaps that are shown.
LEMMA PoolShown ==
  ASSUME NEW log \in [tx : Txs, topics : Seq(STRING), data : Seq(STRING)], IsSpecial(log)
  PROVE  FilteredLog(log) = Pool(log)
<1>. DEFINE t == log.topics
            cut == [i \in DOMAIN t |-> IF i = 1 THEN t[i] ELSE Zero]
<1>1. t \in Seq(STRING) /\ removeLogFields(log) = [tx |-> log.tx, topics |-> cut, data |-> << >>]
  <2>1. t \in Seq(STRING)
    OBVIOUS
  <2>2. ASSUME NEW x, NEW y
        PROVE  [[log EXCEPT !.topics = x] EXCEPT !.data = y] = [tx |-> log.tx, topics |-> x, data |-> y]
    <3>. DEFINE m == [log EXCEPT !.topics = x]
    <3>1. m = [tx |-> log.tx, topics |-> x, data |-> log.data]
      BY SMT, SMTT(30)
    <3>. HIDE DEF m
    <3>2. [m EXCEPT !.data = y] = [tx |-> log.tx, topics |-> x, data |-> y]
      BY <3>1, SMT, SMTT(30)
    <3>. QED
      BY <3>2, Zenon DEF m
  <2>3. removeLogFields(log) = [[log EXCEPT !.topics = cut] EXCEPT !.data = << >>]
    BY Zenon DEF removeLogFields
  <2>. HIDE DEF cut
  <2>. QED
    BY <2>1, <2>2, <2>3, Zenon
<1>2. CASE t[1] = "balancerLog"
  <2>1. Len(t) >= 2
    BY <1>2 DEF IsSpecial, Swaps
  <2>2. FilteredLog(log) = [removeLogFields(log) EXCEPT !.topics[2] = t[2]]
    BY <1>2, Zenon DEF FilteredLog
  <2>3. FilteredLog(log) = [tx |-> log.tx, topics |-> [cut EXCEPT ![2] = t[2]], data |-> << >>]
    <3>1. ASSUME NEW x, NEW y, NEW z, NEW w
          PROVE  [[tx |-> x, topics |-> y, data |-> z] EXCEPT !.topics = w] = [tx |-> x, topics |-> w, data |-> z]
      BY SMT, SMTT(30)
    <3>2. removeLogFields(log).topics = cut
      <4>. HIDE DEF cut
      <4>. QED
        BY <1>1, SMT, SMTT(30)
    <3>. DEFINE new == [cut EXCEPT ![2] = t[2]]
                r == removeLogFields(log)
    <3>3. FilteredLog(log) = [r EXCEPT !.topics = new]
      <4>. HIDE DEF cut
      <4>. QED
        BY <2>2, <3>2, ZenonT(30)
    <3>. HIDE DEF cut, new, r
    <3>4. FilteredLog(log) = [[tx |-> log.tx, topics |-> cut, data |-> << >>] EXCEPT !.topics = new]
      BY <1>1, <3>3, ZenonT(30) DEF r
    <3>. QED
      BY <3>1, <3>4, Zenon DEF new
  <2>4. [cut EXCEPT ![2] = t[2]] = [i \in DOMAIN t |-> IF i <= 2 THEN t[i] ELSE Zero]
    BY <1>1, <2>1, SMT, Zenon, SMTT(30)
  <2>. QED
    BY <1>2, <2>3, <2>4, Zenon DEF Pool
<1>3. CASE t[1] # "balancerLog"
  <2>1. FilteredLog(log) = [tx |-> log.tx, topics |-> cut, data |-> << >>]
    BY <1>1, <1>3, ZenonT(30) DEF FilteredLog
  <2>2. cut = [i \in DOMAIN t |-> IF i <= 1 THEN t[i] ELSE Zero]
    BY <1>1, SMT, SMTT(30)
  <2>. QED
    BY <1>3, <2>1, <2>2, SMT, Zenon, SMTT(30) DEF Pool
<1>. QED
  BY <1>2, <1>3, SMT, Zenon, SMTT(30)

\* The bundles to which the recursion for the hint comes, and their
\* transactions, of which those to be shown must parse.
Visited(tree) == {p \in DOMAIN tree : \A q \in Around(p) : HasHint(WantOf(tree[q]), {"hash"})}
VisitedTxs(tree) ==
  {pos \in TxPositions(tree) : pos[1] \in Visited(tree) /\ "bundle" \notin TxAt(tree, pos).fields}
Parsed(tree) ==
  \A pos \in VisitedTxs(tree) : HasHint(WantOf(tree[pos[1]]), TxFields) => TxAt(tree, pos).parses

\* What extractHintsInner returns.
LEMMA InnerIs ==
  ASSUME NEW tree, NEW logs
  PROVE  /\ extractHintsInner(tree, logs).ok <=>
              (\A p \in Visited(tree) : Len(logs[p]) = Len(tree[p].body)) /\ Parsed(tree)
         /\ extractHintsInner(tree, logs).ok =>
              /\ extractHintsInner(tree, logs).logs =
                   UNION {LogHints(logs[pos[1]][pos[2]], WantOf(tree[pos[1]])) : pos \in VisitedTxs(tree)}
              /\ extractHintsInner(tree, logs).txs =
                   UNION {TxHints(TxAt(tree, pos).tx, WantOf(tree[pos[1]])) : pos \in VisitedTxs(tree)}
<1>. DEFINE inner == extractHintsInner(tree, logs)
            fits == \A p \in Visited(tree) : Len(logs[p]) = Len(tree[p].body)
            wrong == \E p \in Visited(tree) : Len(logs[p]) # Len(tree[p].body)
            broken == \E pos \in VisitedTxs(tree) : HasHint(WantOf(tree[pos[1]]), TxFields) /\ ~TxAt(tree, pos).parses
            l == UNION {LogHints(logs[pos[1]][pos[2]], WantOf(tree[pos[1]])) : pos \in VisitedTxs(tree)}
            t == UNION {TxHints(TxAt(tree, pos).tx, WantOf(tree[pos[1]])) : pos \in VisitedTxs(tree)}
<1>1. inner = IF wrong \/ broken THEN [ok |-> FALSE] ELSE [ok |-> TRUE, logs |-> l, txs |-> t]
  BY Zenon DEF extractHintsInner, Visited, VisitedTxs, NoHint
<1>2. (wrong <=> ~fits) /\ (broken <=> ~Parsed(tree))
  BY Zenon DEF Parsed
<1>. HIDE DEF inner, wrong, broken, fits, l, t
<1>3. wrong \/ broken => ~inner.ok
  BY <1>1
<1>4. ~(wrong \/ broken) => inner.ok /\ inner.logs = l /\ inner.txs = t
  BY <1>1
<1>. QED
  BY <1>2, <1>3, <1>4, Zenon DEF inner, fits, l, t

\* The simulator reports logs for each element of an accepted bundle.
LEMMA LogsFit ==
  ASSUME IInv, Accepted, NEW p \in DOMAIN input
  PROVE  /\ Len(BodyLogs(bundle)[p]) = Len(bundle[p].body)
         /\ \A i \in DOMAIN input[p].body :
              "tx" \in input[p].body[i].fields => BodyLogs(bundle)[p][i] = TxLogs[input[p].body[i].tx]
<1>1. DOMAIN bundle = DOMAIN input
  BY DEF IInv, TypeInv
<1>. DEFINE LogsAt(i) == IF "tx" \in bundle[p].body[i].fields THEN TxLogs[bundle[p].body[i].tx] ELSE {}
            n == Len(bundle[p].body)
            S == {LogsAt(i) : i \in 1 .. n}
<1>2. n \in Nat /\ DOMAIN bundle[p].body = 1 .. n /\ DOMAIN input[p].body = 1 .. n
  BY BodyIs, SMT, SMTT(30)
<1>3. BodyLogs(bundle)[p] = [i \in 1 .. n |-> LogsAt(i)]
  BY <1>1, <1>2, Zenon DEF BodyLogs
<1>4. Len(BodyLogs(bundle)[p]) = n
  <2>. HIDE DEF LogsAt, n
  <2>. QED
    BY <1>2, <1>3, SMTT(30), SMTT(60)
<1>5. ASSUME NEW i \in DOMAIN input[p].body, "tx" \in input[p].body[i].fields
      PROVE  BodyLogs(bundle)[p][i] = TxLogs[input[p].body[i].tx]
  <2>1. BodyLogs(bundle)[p][i] = LogsAt(i)
    BY <1>2, <1>3, Zenon
  <2>2. "tx" \in bundle[p].body[i].fields /\ bundle[p].body[i].tx = input[p].body[i].tx
    BY <1>5, BodyIs, Zenon
  <2>. QED
    BY <2>1, <2>2, Zenon
<1>. QED
  BY <1>4, <1>5, SMT, Zenon, SMTT(30)

\* The hint shows of a transaction what was asked for.
LEMMA AtPosition ==
  ASSUME IInv, Accepted, NEW pos \in TxPositions(input)
  PROVE  /\ Shares(pos[1]) =>
              /\ TxHints(TxAt(bundle, pos).tx, WantOf(bundle[pos[1]])) =
                   IF Shown(pos) = {} THEN {} ELSE {[tx |-> TxAt(input, pos).tx, shows |-> Shown(pos)]}
              /\ LogHints(BodyLogs(bundle)[pos[1]][pos[2]], WantOf(bundle[pos[1]])) = ShownLogs(pos)
              /\ HasHint(WantOf(bundle[pos[1]]), TxFields) <=> Shown(pos) # {}
         /\ ~Shares(pos[1]) => Shown(pos) = {} /\ ShownLogs(pos) = {}
<1>. DEFINE p == pos[1]
            tx == TxAt(input, pos).tx
<1>1. /\ p \in DOMAIN input /\ pos[2] \in DOMAIN input[p].body
      /\ TxAt(input, pos) = input[p].body[pos[2]] /\ "tx" \in TxAt(input, pos).fields
  BY TxPosition, Zenon
<1>2. TxAt(bundle, pos).tx = tx /\ TxAt(input, pos) \in Element
  BY <1>1, PositionsKept, BodyIs, Zenon
<1>3. BodyLogs(bundle)[p][pos[2]] = TxLogs[tx]
  BY <1>1, LogsFit, Zenon
<1>4. ASSUME ~Shares(p) PROVE Shown(pos) = {} /\ ShownLogs(pos) = {}
  <2>1. Asked(pos) = {}
    BY <1>4, Zenon DEF Asked
  <2>. QED
    BY <2>1 DEF Shown, ShownLogs
<1>5. ASSUME Shares(p)
      PROVE  /\ TxHints(TxAt(bundle, pos).tx, WantOf(bundle[p])) =
                  IF Shown(pos) = {} THEN {} ELSE {[tx |-> tx, shows |-> Shown(pos)]}
             /\ LogHints(BodyLogs(bundle)[p][pos[2]], WantOf(bundle[p])) = ShownLogs(pos)
             /\ HasHint(WantOf(bundle[p]), TxFields) <=> Shown(pos) # {}
  <2>. DEFINE W == WantOf(input[p])
  <2>1. WantOf(bundle[p]) = W \cup {"hash"} /\ Asked(pos) = W
    <3>1. p \in Around(p)
      BY <1>1, AroundIn, Zenon DEF IInv, TypeInv
    <3>2. Opens(p) /\ Asked(pos) = W
      BY <1>5, <3>1, ZenonT(30) DEF Shares, Asked, Opens
    <3>. QED
      BY <1>1, <3>2, WantIs, Zenon
  <2>2. Shown(pos) = {f \in TxFields : W \cap ShownBy[f] # {}}
    BY <2>1, Zenon DEF Shown
  <2>. HIDE DEF W, tx, p
  <2>3. /\ TxHints(tx, W \cup {"hash"}) = IF Shown(pos) = {} THEN {} ELSE {[tx |-> tx, shows |-> Shown(pos)]}
        /\ HasHint(W \cup {"hash"}, TxFields) <=> Shown(pos) # {}
    <3>1. /\ extractTxHints(tx, W \cup {"hash"}) = [tx |-> tx, shows |-> Shown(pos)]
          /\ HasHint(W \cup {"hash"}, TxFields) <=> Shown(pos) # {}
      BY <2>2, FieldsShown, Zenon
    <3>. QED
      BY <3>1, Zenon DEF TxHints
  <2>4. LogHints(TxLogs[tx], W \cup {"hash"}) = ShownLogs(pos)
    <3>1. /\ HasHint(W \cup {"hash"}, {"logs"}) <=> "logs" \in W
          /\ HasHint(W \cup {"hash"}, {"special_logs"}) <=> "special_logs" \in W
      BY DEF HasHint
    <3>2. filterSpecialLogs(TxLogs[tx]) = {Pool(log) : log \in {l \in TxLogs[tx] : IsSpecial(l)}}
      <4>1. tx \in Txs
        BY <1>2 DEF Element, tx
      <4>2. \A log \in {l \in TxLogs[tx] : IsSpecial(l)} : FilteredLog(log) = Pool(log)
        BY <4>1, BundlePathAssumption, PoolShown, Zenon
      <4>. QED
        BY <4>2, SMT, Zenon, SMTT(30) DEF filterSpecialLogs
    <3>. QED
      BY <2>1, <3>1, <3>2, Zenon DEF LogHints, ShownLogs, tx
  <2>. QED
    BY <1>2, <1>3, <2>1, <2>3, <2>4, Zenon DEF tx
<1>. QED
  BY <1>4, <1>5, Zenon

\* The recursion comes to the bundles which share something.
LEMMA VisitedIs ==
  ASSUME IInv, Accepted
  PROVE  /\ Visited(bundle) = {p \in DOMAIN input : Shares(p)}
         /\ Shares(Top) <=> HasHint(WantOf(bundle[Top]), {"hash"})
<1>1. IsBundle(input) /\ DOMAIN bundle = DOMAIN input /\ Top \in DOMAIN input
  BY Zenon DEF IInv, TypeInv, IsBundle
<1>2. ASSUME NEW p \in DOMAIN input
      PROVE  (\A q \in Around(p) : HasHint(WantOf(bundle[q]), {"hash"})) <=> Shares(p)
  <2>1. \A q \in Around(p) : q \in DOMAIN input
    BY <1>1, AroundIn, ZenonT(30)
  <2>2. \A q \in Around(p) : HasHint(WantOf(bundle[q]), {"hash"}) <=> Opens(q)
    BY <2>1, WantIs, Zenon
  <2>. QED
    BY <2>2, Zenon DEF Shares, Opens
<1>3. Visited(bundle) = {p \in DOMAIN input : Shares(p)}
  BY <1>1, <1>2, Zenon DEF Visited
<1>4. Shares(Top) <=> HasHint(WantOf(bundle[Top]), {"hash"})
  <2>1. Around(Top) = {Top}
    BY <1>1, TreeFacts, AroundSelf, Zenon
  <2>. QED
    BY <1>1, <1>2, <2>1, Zenon
<1>. QED
  BY <1>3, <1>4, SMT, Zenon, SMTT(30)

\* Cleaning takes the hints of a bundle away, and no more that matters here.
LEMMA CleanedIs ==
  ASSUME IInv, Accepted, NEW cleaned \in SUBSET DOMAIN input
  PROVE  /\ DOMAIN CleanNested(bundle, cleaned) = DOMAIN input
         /\ TxPositions(CleanNested(bundle, cleaned)) = TxPositions(input)
         /\ \A p \in DOMAIN input :
              /\ CleanNested(bundle, cleaned)[p].body = bundle[p].body
              /\ p \in cleaned => WantOf(CleanNested(bundle, cleaned)[p]) = {}
              /\ p \notin cleaned => CleanNested(bundle, cleaned)[p] = bundle[p]
<1>. DEFINE tree == CleanNested(bundle, cleaned)
<1>1. DOMAIN bundle = DOMAIN input /\ \A p \in DOMAIN input : bundle[p] \in Args
  BY DEF IInv, TypeInv
<1>2. tree = [p \in DOMAIN input |-> IF p \in cleaned THEN [bundle[p] EXCEPT !.privacy.set = FALSE] ELSE bundle[p]]
  BY <1>1, Zenon DEF CleanNested
<1>3. ASSUME NEW b \in Args
      PROVE  [b EXCEPT !.privacy.set = FALSE].body = b.body /\ WantOf([b EXCEPT !.privacy.set = FALSE]) = {}
  <2>1. [b EXCEPT !.privacy.set = FALSE].body = b.body
    BY DEF Args
  <2>2. [b EXCEPT !.privacy.set = FALSE].privacy.set = FALSE
    BY DEF Args, Privacy
  <2>. QED
    BY <2>1, <2>2, Zenon DEF WantOf
<1>. HIDE DEF tree
<1>4. ASSUME NEW p \in DOMAIN input
      PROVE  /\ tree[p].body = bundle[p].body
             /\ p \in cleaned => WantOf(tree[p]) = {}
             /\ p \notin cleaned => tree[p] = bundle[p]
  <2>1. tree[p] = IF p \in cleaned THEN [bundle[p] EXCEPT !.privacy.set = FALSE] ELSE bundle[p]
    BY <1>2, Zenon
  <2>2. CASE p \in cleaned
    BY <1>1, <1>3, <2>1, <2>2, Zenon
  <2>3. CASE p \notin cleaned
    BY <2>1, <2>3, Zenon
  <2>. QED
    BY <2>2, <2>3, Zenon
<1>5. DOMAIN tree = DOMAIN input
  BY <1>2, Zenon
<1>6. TxPositions(tree) = TxPositions(input)
  <2>1. \A p \in DOMAIN input :
          /\ DOMAIN tree[p].body = DOMAIN input[p].body
          /\ \A i \in DOMAIN input[p].body : "tx" \in tree[p].body[i].fields <=> "tx" \in input[p].body[i].fields
    BY <1>4, BodyIs, ZenonT(30)
  <2>. QED
    BY <1>5, <2>1, SamePositions, Zenon
<1>. QED
  BY <1>4, <1>5, <1>6, Zenon DEF tree

\* What the hint is made of, at any set of the shared bundles.
HintLogs(pos) == LogHints(BodyLogs(bundle)[pos[1]][pos[2]], WantOf(bundle[pos[1]]))
HintTxs(pos) == TxHints(TxAt(bundle, pos).tx, WantOf(bundle[pos[1]]))

\* The positions the hint shows something of, and whether they can be shown.
SharedAt == {pos \in Sharable : Shares(pos[1])}
Showable == \A pos \in SharedAt : Shown(pos) # {} => TxAt(input, pos).parses

\* The hint about an accepted bundle, and that no other logs are taken.
LEMMA HintIs ==
  ASSUME IInv, Accepted
  PROVE  LET hint == ExtractHints(bundle, BodyLogs(bundle))
         IN  /\ VisitedTxs(bundle) = SharedAt
             /\ Parsed(bundle) <=> Showable
             /\ hint.ok <=> Shares(Top) /\ Showable
             /\ hint.ok => /\ hint.txs = UNION {HintTxs(pos) : pos \in SharedAt}
                           /\ hint.logs = UNION {HintLogs(pos) : pos \in SharedAt}
             /\ \A p \in DOMAIN input :
                  Shares(p) /\ input[p].body # << >> =>
                    ~ExtractHints(bundle, [BodyLogs(bundle) EXCEPT ![p] = << >>]).ok
<1>. DEFINE logs == BodyLogs(bundle)
            hint == ExtractHints(bundle, logs)
            inner == extractHintsInner(bundle, logs)
<1>1. VisitedTxs(bundle) = SharedAt
  <2>1. \A pos \in TxPositions(input) : pos[1] \in Visited(bundle) <=> Shares(pos[1])
    BY VisitedIs, TxPosition, Zenon
  <2>2. \A pos \in TxPositions(input) : TxAt(bundle, pos).fields = TxAt(input, pos).fields
    BY PositionsKept, Zenon
  <2>3. TxPositions(bundle) = TxPositions(input)
    BY PositionsKept, Zenon
  <2>. QED
    BY <2>1, <2>2, <2>3, ZenonT(30) DEF VisitedTxs, SharedAt, Sharable
<1>2. \A p \in Visited(bundle) : Len(logs[p]) = Len(bundle[p].body)
  BY VisitedIs, LogsFit, Zenon
<1>3. Parsed(bundle) <=> Showable
  <2>1. \A pos \in SharedAt : /\ HasHint(WantOf(bundle[pos[1]]), TxFields) <=> Shown(pos) # {}
                              /\ TxAt(bundle, pos).parses = TxAt(input, pos).parses
    BY AtPosition, PositionsKept, Zenon DEF SharedAt, Sharable
  <2>. QED
    BY <1>1, <2>1, Zenon DEF Parsed, Showable
<1>4. /\ inner.ok <=> Showable
      /\ inner.ok => /\ inner.logs = UNION {HintLogs(pos) : pos \in SharedAt}
                     /\ inner.txs = UNION {HintTxs(pos) : pos \in SharedAt}
  BY <1>1, <1>2, <1>3, InnerIs, Zenon DEF HintLogs, HintTxs
<1>5. hint = IF Shares(Top) THEN inner ELSE NoHint
  BY VisitedIs, Zenon DEF ExtractHints
<1>6. ~NoHint.ok
  BY DEF NoHint
<1>7. ASSUME NEW p \in DOMAIN input, Shares(p), input[p].body # << >>
      PROVE  ~ExtractHints(bundle, [logs EXCEPT ![p] = << >>]).ok
  <2>. DEFINE other == [logs EXCEPT ![p] = << >>]
  <2>1. other[p] = << >>
    <3>1. p \in DOMAIN logs
      BY Zenon DEF BodyLogs, IInv, TypeInv
    <3>. QED
      BY <3>1, Zenon
  <2>2. Len(other[p]) # Len(bundle[p].body)
    <3>2. input[p].body \in Seq(Element) /\ Len(bundle[p].body) = Len(input[p].body)
      BY BodyIs, SMT, Zenon, SMTT(30)
    <3>3. Len(input[p].body) # 0
      BY <1>7, <3>2, SMTT(30), SMTT(60)
    <3>. QED
      BY <2>1, <3>2, <3>3, Zenon
  <2>. HIDE DEF other
  <2>3. p \in Visited(bundle)
    BY <1>7, VisitedIs, Zenon
  <2>4. ~extractHintsInner(bundle, other).ok
    <3>1. extractHintsInner(bundle, other).ok => \A q \in Visited(bundle) : Len(other[q]) = Len(bundle[q].body)
      BY InnerIs, Zenon, SMT
    <3>. QED
      BY <2>2, <2>3, <3>1, Zenon
  <2>5. ~ExtractHints(bundle, other).ok
    BY <1>6, <2>4, Zenon DEF ExtractHints
  <2>. QED
    BY <2>5 DEF other
<1>. HIDE DEF hint, inner
<1>8. hint.ok <=> Shares(Top) /\ Showable
  BY <1>4, <1>5, <1>6, Zenon
<1>9. hint.ok => /\ hint.txs = UNION {HintTxs(pos) : pos \in SharedAt}
                 /\ hint.logs = UNION {HintLogs(pos) : pos \in SharedAt}
  BY <1>4, <1>5, <1>8, Zenon
<1>. QED
  BY <1>1, <1>3, <1>7, <1>8, <1>9, Zenon DEF hint, logs

\* A hint made while the bundle is being cleaned comes from fewer bundles.
LEMMA LateIs ==
  ASSUME IInv, Accepted, NEW cleaned \in SUBSET (DOMAIN input \ {Top})
  PROVE  LET late == ExtractHints(CleanNested(bundle, cleaned), BodyLogs(bundle))
         IN  /\ Shares(Top) /\ Showable => late.ok
             /\ late.ok => /\ late.txs \subseteq UNION {HintTxs(pos) : pos \in SharedAt}
                           /\ late.logs \subseteq UNION {HintLogs(pos) : pos \in SharedAt}
<1>. DEFINE tree == CleanNested(bundle, cleaned)
            logs == BodyLogs(bundle)
            inner == extractHintsInner(tree, logs)
            late == ExtractHints(tree, logs)
<1>1. /\ DOMAIN tree = DOMAIN input
      /\ TxPositions(tree) = TxPositions(input)
      /\ \A p \in DOMAIN input : /\ tree[p].body = bundle[p].body
                                 /\ p \in cleaned => WantOf(tree[p]) = {}
                                 /\ p \notin cleaned => tree[p] = bundle[p]
  <2>1. cleaned \in SUBSET DOMAIN input
    OBVIOUS
  <2>. QED
    BY <2>1, CleanedIs, Zenon
<1>2. IsBundle(input) /\ DOMAIN bundle = DOMAIN input /\ Top \in DOMAIN input /\ Top \notin cleaned
  BY Zenon DEF IInv, TypeInv, IsBundle
<1>. HIDE DEF tree
<1>3. ~HasHint({}, {"hash"})
  BY DEF HasHint
<1>4. ASSUME NEW p \in Visited(tree) PROVE p \in Visited(bundle) /\ tree[p] = bundle[p]
  <2>1. p \in DOMAIN input /\ \A q \in Around(p) : HasHint(WantOf(tree[q]), {"hash"})
    BY <1>1, <1>4, Zenon DEF Visited
  <2>2. Around(p) \subseteq DOMAIN input /\ p \in Around(p)
    BY <1>2, <2>1, AroundIn, Zenon
  <2>3. \A q \in Around(p) : q \in DOMAIN input /\ q \notin cleaned
    BY <1>1, <1>3, <2>1, <2>2, Zenon
  <2>4. \A q \in Around(p) : tree[q] = bundle[q]
    BY <1>1, <2>3, Zenon
  <2>. QED
    BY <1>2, <2>1, <2>2, <2>4, Zenon DEF Visited
<1>5. \A p \in Visited(tree) : Len(logs[p]) = Len(tree[p].body)
  BY <1>4, VisitedIs, LogsFit, Zenon
<1>6. ASSUME NEW pos \in VisitedTxs(tree)
      PROVE  /\ pos \in VisitedTxs(bundle) /\ pos \in SharedAt
             /\ tree[pos[1]] = bundle[pos[1]] /\ TxAt(tree, pos) = TxAt(bundle, pos)
  <2>1. pos \in TxPositions(input) /\ pos[1] \in Visited(tree) /\ "bundle" \notin TxAt(tree, pos).fields
    BY <1>1, <1>6, Zenon DEF VisitedTxs
  <2>2. pos[1] \in Visited(bundle) /\ tree[pos[1]] = bundle[pos[1]]
    BY <1>4, <2>1, Zenon
  <2>3. TxAt(tree, pos) = TxAt(bundle, pos)
    BY <2>2, Zenon DEF TxAt
  <2>4. pos \in TxPositions(bundle)
    BY <2>1, PositionsKept, Zenon
  <2>5. pos \in VisitedTxs(bundle)
    BY <2>1, <2>2, <2>3, <2>4, Zenon DEF VisitedTxs
  <2>. QED
    BY <2>2, <2>3, <2>5, HintIs, Zenon
<1>7. Showable => Parsed(tree)
  <2>1. Showable => Parsed(bundle)
    BY HintIs, Zenon
  <2>. QED
    BY <1>6, <2>1, Zenon DEF Parsed
<1>8. /\ Showable => inner.ok
      /\ inner.ok =>
           /\ inner.logs = UNION {LogHints(logs[pos[1]][pos[2]], WantOf(tree[pos[1]])) : pos \in VisitedTxs(tree)}
           /\ inner.txs = UNION {TxHints(TxAt(tree, pos).tx, WantOf(tree[pos[1]])) : pos \in VisitedTxs(tree)}
  BY <1>5, <1>7, InnerIs, Zenon
<1>9. ASSUME NEW pos \in VisitedTxs(tree)
      PROVE  /\ pos \in SharedAt
             /\ LogHints(logs[pos[1]][pos[2]], WantOf(tree[pos[1]])) = HintLogs(pos)
             /\ TxHints(TxAt(tree, pos).tx, WantOf(tree[pos[1]])) = HintTxs(pos)
  BY <1>6, Zenon DEF HintLogs, HintTxs
<1>. HIDE DEF inner, logs
<1>10. inner.ok => inner.logs \subseteq UNION {HintLogs(pos) : pos \in SharedAt}
  BY <1>8, <1>9, Zenon
<1>11. inner.ok => inner.txs \subseteq UNION {HintTxs(pos) : pos \in SharedAt}
  BY <1>8, <1>9, Zenon
<1>12. late = IF Shares(Top) THEN inner ELSE NoHint
  <2>1. HasHint(WantOf(tree[Top]), {"hash"}) <=> Shares(Top)
    BY <1>1, <1>2, VisitedIs, Zenon
  <2>. QED
    BY <2>1, Zenon DEF ExtractHints, inner
<1>13. ~NoHint.ok
  BY DEF NoHint
<1>. HIDE DEF late
<1>14. /\ Shares(Top) /\ Showable => late.ok
       /\ late.ok => /\ late.txs \subseteq UNION {HintTxs(pos) : pos \in SharedAt}
                     /\ late.logs \subseteq UNION {HintLogs(pos) : pos \in SharedAt}
  BY <1>8, <1>10, <1>11, <1>12, <1>13, Zenon
<1>. QED
  BY <1>14, Zenon DEF late, tree, logs

(***************************************************************************)
(* The hint about a bundle shows exactly what its sender, and the sender   *)
(* of each bundle in it, asked to share, and less while the bundle is      *)
(* being cleaned (ExtractHints, with what ValidateBundle leaves of the     *)
(* privacy at each level and what the queue's JSON keeps of it).           *)
(***************************************************************************)
THEOREM HintsWithinPrivacyThm == Spec => []HintsWithinPrivacy
<1>1. IInv => HintsWithinPrivacy
  <2>. SUFFICES ASSUME IInv, Accepted PROVE HintsWithinPrivacy
    BY DEF HintsWithinPrivacy, Queued
  <2>. DEFINE logs == BodyLogs(bundle)
              hint == ExtractHints(bundle, logs)
              Late(cleaned) == ExtractHints(CleanNested(bundle, cleaned), logs)
  <2>1. ThroughQueue(bundle) = bundle
    BY QueueKeeps, Zenon DEF IInv, TypeInv
  <2>2. /\ hint.ok <=> Shares(Top) /\ Showable
        /\ hint.ok => /\ hint.txs = UNION {HintTxs(pos) : pos \in SharedAt}
                      /\ hint.logs = UNION {HintLogs(pos) : pos \in SharedAt}
        /\ \A p \in DOMAIN input :
             Shares(p) /\ input[p].body # << >> => ~ExtractHints(bundle, [logs EXCEPT ![p] = << >>]).ok
    BY HintIs, Zenon
  <2>3. ASSUME NEW pos \in Sharable
        PROVE  /\ Shares(pos[1]) =>
                    /\ HintTxs(pos) = IF Shown(pos) = {} THEN {} ELSE {[tx |-> TxAt(input, pos).tx, shows |-> Shown(pos)]}
                    /\ HintLogs(pos) = ShownLogs(pos)
               /\ ~Shares(pos[1]) => Shown(pos) = {} /\ ShownLogs(pos) = {}
    BY AtPosition, Zenon DEF HintTxs, HintLogs, Sharable
  <2>4. Showable <=> \A pos \in Sharable : Shown(pos) # {} => TxAt(input, pos).parses
    BY <2>3, Zenon DEF Showable, SharedAt
  <2>5. UNION {HintLogs(pos) : pos \in SharedAt} = AskedLogs
    <3>1. UNION {HintLogs(pos) : pos \in SharedAt} \subseteq AskedLogs
      BY <2>3, Zenon DEF SharedAt, AskedLogs
    <3>2. AskedLogs \subseteq UNION {HintLogs(pos) : pos \in SharedAt}
      BY <2>3, Zenon DEF SharedAt, AskedLogs
    <3>. QED
      BY <3>1, <3>2, Zenon
  <2>6. UNION {HintTxs(pos) : pos \in SharedAt} = AskedTxs
    <3>1. ASSUME NEW x, x \in UNION {HintTxs(pos) : pos \in SharedAt} PROVE x \in AskedTxs
      <4>1. PICK pos \in SharedAt : x \in HintTxs(pos)
        BY <3>1, Zenon
      <4>2. pos \in Sharable /\ Shown(pos) # {} /\ x = [tx |-> TxAt(input, pos).tx, shows |-> Shown(pos)]
        BY <2>3, <4>1, Zenon DEF SharedAt
      <4>. QED
        BY <4>2, Zenon DEF AskedTxs
    <3>2. ASSUME NEW x, x \in AskedTxs PROVE x \in UNION {HintTxs(pos) : pos \in SharedAt}
      <4>1. PICK pos \in Sharable :
              Shown(pos) # {} /\ x = [tx |-> TxAt(input, pos).tx, shows |-> Shown(pos)]
        BY <3>2, Zenon DEF AskedTxs
      <4>2. pos \in SharedAt /\ x \in HintTxs(pos)
        BY <2>3, <4>1, Zenon DEF SharedAt
      <4>. QED
        BY <4>2, Zenon
    <3>. QED
      BY <3>1, <3>2, Zenon
  <2>7. ASSUME NEW cleaned \in SUBSET (DOMAIN input \ {Top})
        PROVE  /\ hint.ok => Late(cleaned).ok
               /\ Late(cleaned).ok => Late(cleaned).txs \subseteq AskedTxs /\ Late(cleaned).logs \subseteq AskedLogs
    <3>1. /\ Shares(Top) /\ Showable => Late(cleaned).ok
          /\ Late(cleaned).ok => /\ Late(cleaned).txs \subseteq UNION {HintTxs(pos) : pos \in SharedAt}
                                 /\ Late(cleaned).logs \subseteq UNION {HintLogs(pos) : pos \in SharedAt}
      BY LateIs, Zenon
    <3>. HIDE DEF Late, hint
    <3>. QED
      BY <2>2, <2>5, <2>6, <3>1, Zenon
  <2>. HIDE DEF hint, Late, logs
  <2>8. /\ hint.ok <=> Shares(Top) /\ \A pos \in Sharable : Shown(pos) # {} => TxAt(input, pos).parses
        /\ hint.ok => hint.txs = AskedTxs /\ hint.logs = AskedLogs
    BY <2>2, <2>4, <2>5, <2>6, Zenon
  <2>. QED
    BY <2>1, <2>2, <2>7, <2>8, ZenonT(30) DEF HintsWithinPrivacy, hint, Late, logs
<1>. QED
  BY <1>1, ValidationInv, PTL
-----------------------------------------------------------------------------
(***************************************************************************)
(* A bundle with privacy settings is sent to exactly the external builders *)
(* that it and all the bundles in it name, those that validation does not  *)
(* look at included (MergeBuilders, first for the bundles in a body and    *)
(* then, in MergePrivacyBuilders, for all of them).                        *)
(***************************************************************************)
THEOREM BuildersAreCommonThm == Spec => []BuildersAreCommon
<1>1. IInv => BuildersAreCommon
  <2>. SUFFICES ASSUME IInv, Accepted, input[Top].privacy.set PROVE BuildersAreCommon
    BY DEF BuildersAreCommon, Queued
  <2>. DEFINE top == bundle[Top].privacy
              Common == {v \in input[Top].privacy.builders :
                           \A p \in DOMAIN input : input[p].privacy.set /\ v \in input[p].privacy.builders}
              Names1(p) == MergeBuilders(top, bundle[p].privacy).builders
  <2>1. /\ IsBundle(input) /\ bundle \in [DOMAIN input -> Args] /\ DOMAIN bundle = DOMAIN input /\ Top \in DOMAIN input
        /\ \A p \in DOMAIN input : PrivacyInv(p)
    BY Zenon DEF IInv, TypeInv, IsBundle, Each
  <2>2. ThroughQueue(bundle) = bundle
    BY <2>1, QueueKeeps, Zenon
  <2>3. top \in Privacy /\ top.set
    <3>1. bundle[Top] \in Args
      BY <2>1
    <3>. QED
      BY <2>1, <3>1, ArgsFields, Zenon DEF PrivacyInv
  <2>4. ASSUME NEW p \in DOMAIN input
        PROVE  /\ bundle[p].privacy.set = input[p].privacy.set
               /\ NestedBefore(p) \subseteq DOMAIN input
               /\ bundle[p].privacy.builders =
                    IF ~input[p].privacy.set THEN input[p].privacy.builders
                    ELSE {v \in input[p].privacy.builders :
                            \A q \in NestedBefore(p) : input[q].privacy.set /\ v \in input[q].privacy.builders}
    <3>1. NestedBefore(p) \subseteq DOMAIN input
      BY <2>1, TreeFacts, Zenon DEF NestedBefore
    <3>. QED
      BY <2>1, <3>1, Zenon DEF PrivacyInv
  <2>. HIDE DEF top
  <2>5. ASSUME NEW p \in DOMAIN input
        PROVE  Names1(p) = IF ~bundle[p].privacy.set THEN {} ELSE top.builders \cap bundle[p].privacy.builders
    BY <2>3 DEF MergeBuilders, Privacy
  <2>6. MergePrivacyBuilders(bundle).builders = {v \in top.builders : \A p \in DOMAIN input : v \in Names1(p)}
    <3>1. ASSUME NEW x PROVE [top EXCEPT !.builders = x].builders = x
      BY <2>3 DEF Privacy
    <3>2. MergePrivacyBuilders(bundle) =
            [top EXCEPT !.builders = {v \in top.builders : \A p \in DOMAIN input : v \in Names1(p)}]
      BY <2>1, Zenon DEF MergePrivacyBuilders, top
    <3>. QED
      BY <3>1, <3>2, Zenon
  <2>. HIDE DEF Names1
  <2>7. ASSUME NEW v, v \in top.builders, \A p \in DOMAIN input : v \in Names1(p) PROVE v \in Common
    <3>1. \A p \in DOMAIN input : bundle[p].privacy.set /\ v \in bundle[p].privacy.builders
      BY <2>5, <2>7, Zenon
    <3>2. \A p \in DOMAIN input : input[p].privacy.set /\ v \in input[p].privacy.builders
      BY <2>4, <3>1, Zenon
    <3>. QED
      BY <2>1, <3>2, Zenon
  <2>8. ASSUME NEW v \in Common PROVE v \in top.builders /\ \A p \in DOMAIN input : v \in Names1(p)
    <3>1. \A p \in DOMAIN input : bundle[p].privacy.set /\ v \in bundle[p].privacy.builders
      BY <2>4, <2>8, Zenon
    <3>. QED
      BY <2>1, <2>5, <3>1, Zenon DEF top
  <2>. HIDE DEF Common
  <2>9. MergePrivacyBuilders(bundle).builders = Common
    BY <2>6, <2>7, <2>8, Zenon
  <2>. QED
    BY <2>2, <2>9, Zenon DEF BuildersAreCommon, Common
<1>. QED
  BY <1>1, ValidationInv, PTL
=============================================================================
