--------------------------- MODULE BuildersProofs ---------------------------
(***************************************************************************)
(* Proofs about one call of SendBundle, for any builders, any configs and  *)
(* any call: which builders get the bundle, what they get of it, and that  *)
(* none is still being sent to when the call returns.                      *)
(***************************************************************************)
EXTENDS Builders, FiniteSetTheorems, TLAPS

\* The goroutines that are still to count down the wait group.
Active == {b \in Builders : goroutine[b] \in {"start", "sending"}}

\* Where SendBundle is once the bundle is clean.
Sending == {"internal", "external", "wait", "returned"}

Shapes ==
  /\ \E x \in Settings : api = x.api /\ delay = x.delay /\ call = x.call
  /\ goroutine \in [Builders -> {"none", "start", "sending", "done"}]
  /\ sent \in [Builders -> Nat]
  /\ todo \subseteq Internal

(***************************************************************************)
(* The wait group counts at least the goroutines that have not ended: each *)
(* is added before it starts, and counts down when it ends or, if it is    *)
(* the one of a delayed external builder, never.                           *)
(***************************************************************************)
CountInv ==
  /\ IsFiniteSet(Active) /\ wg \in Int /\ Cardinality(Active) <= wg
  /\ pc = "returned" => Active = {}
  /\ main = "exited" => pc = "returned"

(***************************************************************************)
(* The fields go one after the other before the first goroutine starts,    *)
(* and none of the bundle itself goes.                                     *)
(***************************************************************************)
CleanInv ==
  /\ top = call.fields
  /\ inner \subseteq Fields
  /\ stored \in [top : SUBSET Fields, inner : SUBSET Fields]
  /\ pc = "clean metadata" => "privacy" \notin inner
  /\ pc \in {"clean args"} \cup Sending => inner = {}
  /\ pc \in Sending => args = {}
  /\ \A b \in Builders : goroutine[b] # "none" => pc \in Sending
  /\ \A b \in Builders : sent[b] > 0 => pc \in Sending
  /\ stats = Done => stored.top = call.fields

\* How far the loop over the internal builders has come: each is either to do
\* or dealt with as the rule says.
InternalInv ==
  /\ \A b \in todo : goroutine[b] = "none"
  /\ \A b \in Internal \ todo : goroutine[b] # "none" <=> ~SkipInternal(b)
  /\ pc \in {"external", "wait", "returned"} => todo = {}

\* How far the loop over privacy.builders has come: each name stands for the
\* internal builders, or has been used, or is still in the list.
ListInv ==
  /\ list \in Seq(STRING)
  /\ pc = "merge" => buildersUsed = {}
  /\ pc # "merge" =>
       ToSet(Merged(call)) \ InternalNames = buildersUsed \cup (ToSet(list) \ InternalNames)
  /\ pc \in {"wait", "returned"} => list = << >>

\* An external builder is dealt with when its name is used.
ExternalInv ==
  \A b \in External : goroutine[b] # "none" <=> b \in buildersUsed /\ ~SkipExternal(b)

LoopInv == InternalInv /\ ListInv /\ ExternalInv

\* A goroutine has sent one request, unless it has yet to start, is skipped or
\* cannot convert the bundle.
Sends(b) == ~Delayed(b) /\ ~Unconvertible(b)

SentInv ==
  \A b \in Builders :
    /\ goroutine[b] = "sending" => Sends(b)
    /\ sent[b] = IF goroutine[b] \in {"sending", "done"} /\ Sends(b) THEN 1 ELSE 0

-----------------------------------------------------------------------------
\* What the assumption on the settings says of the call.
CallShape ==
  /\ Merged(call) \in Seq(STRING)
  /\ \A b \in Builders : b \in ToSet(Merged(call)) <=> Named(call, b)
  /\ call.fields \subseteq Fields /\ call.nested.fields \subseteq Fields

\* The call is one of those the assumption speaks of.
LEMMA CallShapes == Shapes => CallShape
  <1>1. SUFFICES ASSUME NEW x \in Settings, call = x.call
                 PROVE  CallShape
    BY DEF Shapes
  <1>2. QED
    BY <1>1, BuildersAssumption, Zenon DEF CallShape

\* Shapes holds initially.
LEMMA ShapesInit == Init => Shapes
  BY SMT, SMTT(30) DEF Init, Shapes

\* Every step keeps it; no step changes the configs or the call.
LEMMA ShapesStep == Shapes /\ [Next]_vars => Shapes'
  <1> SUFFICES ASSUME Shapes, [Next]_vars PROVE Shapes'
    OBVIOUS
  <1> DEFINE GS == {"none", "start", "sending", "done"}
             G == goroutine \in [Builders -> GS]
             S == sent \in [Builders -> Nat]
             T == todo \subseteq Internal
  <1>1. G /\ S /\ T
    BY DEF Shapes
  <1>2. UNCHANGED config
    BY Zenon DEF Next, vars, SendBundle, MergePrivacyBuilders, cleanBundle, InternalLoop,
      ExternalLoop, Wait, InsertBundleForStats, Goroutine, Skip, ConvertFails, SendRequest, Answer,
      Shutdown, Exit
  <1>3. (\E x \in Settings : api = x.api /\ delay = x.delay /\ call = x.call)'
    BY <1>2 DEF Shapes, config
  <1>4. ASSUME NEW b, NEW v \in GS, goroutine' = [goroutine EXCEPT ![b] = v]
        PROVE  G'
    BY <1>1, <1>4, Zenon
  <1>5. T'
    <2>1. UNCHANGED todo \/ \E b : todo' = todo \ {b}
      BY Zenon DEF Next, vars, SendBundle, MergePrivacyBuilders, cleanBundle, InternalLoop,
        ExternalLoop, Wait, InsertBundleForStats, Goroutine, Skip, ConvertFails, SendRequest, Answer,
        Shutdown, Exit
    <2>2. QED
      BY <1>1, <2>1
  <1>6. CASE SendBundle
    <2>1. UNCHANGED sent
      BY <1>6, Zenon DEF SendBundle, MergePrivacyBuilders, cleanBundle, InternalLoop,
        ExternalLoop, Wait
    <2>2. \/ UNCHANGED goroutine
          \/ \E b : goroutine' = [goroutine EXCEPT ![b] = "start"]
      BY <1>6, Zenon DEF SendBundle, MergePrivacyBuilders, cleanBundle, InternalLoop,
        ExternalLoop, Wait, Start
    <2>3. "start" \in GS
      OBVIOUS
    <2>4. G'
      BY <1>1, <1>4, <2>2, <2>3, Zenon
    <2>5. QED
      BY <1>1, <1>3, <1>5, <2>1, <2>4, Zenon DEF Shapes
  <1>7. CASE \E b \in Builders : Goroutine(b)
    <2>1. PICK b \in Builders : Goroutine(b)
      BY <1>7
    <2>2. \E v \in GS : goroutine' = [goroutine EXCEPT ![b] = v]
      BY <2>1 DEF Goroutine, Skip, ConvertFails, SendRequest, Answer
    <2>3. UNCHANGED sent \/ sent' = [sent EXCEPT ![b] = @ + 1]
      BY <2>1, Zenon DEF Goroutine, Skip, ConvertFails, SendRequest, Answer
    <2>4. S'
      BY <1>1, <2>1, <2>3, SMT, SMTT(30)
    <2>5. G'
      BY <1>4, <2>2, Zenon
    <2>6. QED
      BY <1>3, <1>5, <2>4, <2>5, Zenon DEF Shapes
  <1>8. CASE InsertBundleForStats \/ Shutdown \/ Exit \/ UNCHANGED vars
    <2>1. UNCHANGED <<goroutine, sent>>
      BY <1>8, Zenon DEF InsertBundleForStats, Shutdown, Exit, vars
    <2>2. QED
      BY <1>1, <1>3, <1>5, <2>1 DEF Shapes
  <1>9. QED
    BY <1>6, <1>7, <1>8, Zenon DEF Next

-----------------------------------------------------------------------------
\* What a change of one goroutine does to the set of those to wait for.
LEMMA ActiveGrows ==
  ASSUME Shapes, NEW b \in Builders, goroutine' = [goroutine EXCEPT ![b] = "start"]
  PROVE  Active' = Active \cup {b}
  BY DEF Shapes, Active

\* A goroutine that ends leaves it.
LEMMA ActiveShrinks ==
  ASSUME Shapes, NEW b \in Builders, goroutine' = [goroutine EXCEPT ![b] = "done"]
  PROVE  Active' = Active \ {b}
  BY DEF Shapes, Active

\* An addition to the wait group pays for the goroutine that starts.
LEMMA StartCounts ==
  ASSUME Shapes, CountInv, NEW b \in Builders, Start(b)
  PROVE  IsFiniteSet(Active') /\ wg' \in Int /\ Cardinality(Active') <= wg'
  <1>1. Active' = Active \cup {b} /\ wg' = wg + 1
    BY ActiveGrows, Zenon DEF Start
  <1>2. /\ IsFiniteSet(Active \cup {b})
        /\ Cardinality(Active \cup {b}) = IF b \in Active THEN Cardinality(Active)
                                          ELSE Cardinality(Active) + 1
    BY FS_AddElement DEF CountInv
  <1>3. Cardinality(Active) \in Nat /\ Cardinality(Active) <= wg /\ wg \in Int
    BY FS_CardinalityType DEF CountInv
  <1>4. Cardinality(Active \cup {b}) <= wg + 1 /\ wg + 1 \in Int
    BY <1>2, <1>3, SMT, SMTT(30)
  <1>5. QED
    BY <1>1, <1>2, <1>4, Zenon

\* A goroutine that ends takes one off the wait group, or nothing.
LEMMA EndCounts ==
  ASSUME Shapes, CountInv, NEW b \in Active, goroutine' = [goroutine EXCEPT ![b] = "done"],
         wg' = wg - 1 \/ wg' = wg
  PROVE  IsFiniteSet(Active') /\ wg' \in Int /\ Cardinality(Active') <= wg'
  <1>1. Active' = Active \ {b}
    BY ActiveShrinks, Zenon DEF Active
  <1>2. /\ IsFiniteSet(Active \ {b})
        /\ Cardinality(Active \ {b}) = Cardinality(Active) - 1
    BY FS_RemoveElement DEF CountInv
  <1>3. Cardinality(Active) \in Nat /\ Cardinality(Active) <= wg /\ wg \in Int
    BY FS_CardinalityType DEF CountInv
  <1>4. Cardinality(Active) - 1 <= wg' /\ wg' \in Int
    BY <1>3, SMT, SMTT(30)
  <1>5. QED
    BY <1>1, <1>2, <1>4

\* No goroutine runs and the wait group is zero initially.
LEMMA CountInit == Init => CountInv
  <1> SUFFICES ASSUME Init PROVE CountInv
    OBVIOUS
  <1>1. Active = {}
    BY DEF Init, Active
  <1>2. IsFiniteSet({}) /\ Cardinality({}) = 0
    BY FS_EmptySet
  <1>3. wg = 0 /\ pc = "merge" /\ main = "running"
    BY Zenon DEF Init
  <1>4. QED
    BY <1>1, <1>2, <1>3, SMT, SMTT(30) DEF CountInv

\* Every step keeps CountInv; the wait ends at zero only.
LEMMA CountStep == Shapes /\ CountInv /\ [Next]_vars => CountInv'
  <1> SUFFICES ASSUME Shapes, CountInv, [Next]_vars PROVE CountInv'
    OBVIOUS
  <1> DEFINE Counted == IsFiniteSet(Active) /\ wg \in Int /\ Cardinality(Active) <= wg
             Returned == pc = "returned" => Active = {}
             Exited == main = "exited" => pc = "returned"
  <1>1. Counted /\ Returned /\ Exited
    BY DEF CountInv
  <1>2. CountInv' <=> Counted' /\ Returned' /\ Exited'
    BY DEF CountInv
  <1>3. ASSUME UNCHANGED <<goroutine, wg>>
        PROVE  Counted' /\ Active' = Active
    BY <1>1, <1>3 DEF Active
  <1>4. CASE MergePrivacyBuilders \/ cleanBundle
    <2>1. UNCHANGED <<goroutine, wg, main>> /\ pc # "returned" /\ pc' # "returned"
      BY <1>4 DEF MergePrivacyBuilders, cleanBundle
    <2>2. QED
      BY <1>1, <1>2, <1>3, <2>1
  <1>5. CASE InternalLoop
    <2>1. UNCHANGED main /\ pc # "returned" /\ pc' # "returned"
      BY <1>5 DEF InternalLoop
    <2>2. UNCHANGED <<goroutine, wg>> \/ \E b \in Internal \cup External : Start(b)
      BY <1>5, Zenon DEF InternalLoop, Shapes
    <2>3. QED
      BY <1>1, <1>2, <1>3, <2>1, <2>2, StartCounts DEF Builders
  <1>6. CASE ExternalLoop
    <2>1. UNCHANGED main /\ pc # "returned" /\ pc' # "returned"
      BY <1>6 DEF ExternalLoop
    <2>2. UNCHANGED <<goroutine, wg>> \/ \E b \in Internal \cup External : Start(b)
      BY <1>6, Zenon DEF ExternalLoop
    <2>3. QED
      BY <1>1, <1>2, <1>3, <2>1, <2>2, StartCounts DEF Builders
  <1>7. CASE Wait
    <2>1. UNCHANGED <<goroutine, wg, main>> /\ wg = 0 /\ pc' = "returned"
      BY <1>7 DEF Wait
    <2>2. Cardinality(Active) \in Nat
      BY <1>1, FS_CardinalityType
    <2>3. Cardinality(Active) = 0
      BY <1>1, <2>1, <2>2, SMT, SMTT(30)
    <2>4. Active = {}
      BY <1>1, <2>3, FS_EmptySet
    <2>5. QED
      BY <1>2, <1>3, <2>1, <2>4
  <1>8. CASE InsertBundleForStats \/ UNCHANGED vars \/ Shutdown \/ Exit
    <2>1. UNCHANGED <<goroutine, wg, pc>>
      BY <1>8, Zenon DEF InsertBundleForStats, vars, Shutdown, Exit
    <2>2. main' = "exited" => main = "exited" \/ pc = "returned"
      BY <1>8 DEF InsertBundleForStats, vars, Shutdown, Exit
    <2>3. QED
      BY <1>1, <1>2, <1>3, <2>1, <2>2
  <1>9. ASSUME NEW b \in Builders, Goroutine(b)
        PROVE  CountInv'
    <2>1. UNCHANGED <<pc, main>>
      BY <1>9, Zenon DEF Goroutine, Skip, ConvertFails, SendRequest, Answer
    <2>2. b \in Active
      BY <1>9 DEF Goroutine, Skip, ConvertFails, SendRequest, Answer, Active
    <2>3. CASE SendRequest(b)
      <3>1. goroutine' = [goroutine EXCEPT ![b] = "sending"] /\ UNCHANGED wg
        BY <2>3, Zenon DEF SendRequest
      <3>2. Active' = Active
        BY <2>2, <3>1 DEF Active, Shapes
      <3>3. QED
        BY <1>1, <1>2, <2>1, <3>1, <3>2
    <2>4. CASE Skip(b) \/ ConvertFails(b) \/ \E ok \in BOOLEAN : Answer(b, ok)
      <3>1. goroutine' = [goroutine EXCEPT ![b] = "done"] /\ (wg' = wg - 1 \/ wg' = wg)
        BY <2>4, Zenon DEF Skip, ConvertFails, Answer, DoneOf
      <3>2. Counted'
        BY <2>2, <3>1, EndCounts, Zenon
      <3>3. Active' = Active \ {b}
        BY <2>2, <3>1, ActiveShrinks, Zenon DEF Active
      <3>4. QED
        BY <1>1, <1>2, <2>1, <3>2, <3>3
    <2>5. QED
      BY <1>9, <2>3, <2>4, Zenon DEF Goroutine
  <1>10. QED
    BY <1>4, <1>5, <1>6, <1>7, <1>8, <1>9, Zenon DEF Next, SendBundle

(***************************************************************************)
(* SendBundle returns, and main exits, only when no request to a builder   *)
(* is under way, whatever the builders, their delays and their answers.    *)
(***************************************************************************)
THEOREM NothingIsLeftBehind == Spec => []NothingLeftBehind
  <1>1. Init => Shapes /\ CountInv
    BY ShapesInit, CountInit
  <1>2. Shapes /\ CountInv /\ [Next]_vars => (Shapes /\ CountInv)'
    BY ShapesStep, CountStep
  <1>3. Shapes /\ CountInv => NothingLeftBehind
    BY DEF Shapes, CountInv, NothingLeftBehind, Active
  <1>4. QED
    BY <1>1, <1>2, <1>3, PTL DEF Spec

-----------------------------------------------------------------------------
\* The goroutines that share the bundle: each part of CleanInv and its steps.
LEMMA CleanInit == Init => CleanInv
  <1> SUFFICES ASSUME Init PROVE CleanInv
    OBVIOUS
  <1>1. top = call.fields /\ inner = call.nested.fields /\ pc = "merge"
    BY Zenon DEF Init, SharedInit
  <1>2. inner \subseteq Fields
    BY <1>1, ShapesInit, CallShapes DEF CallShape
  <1>3. stored \in [top : SUBSET Fields, inner : SUBSET Fields] /\ stats = Look("privacy")
    BY DEF Init, SharedInit
  <1>4. \A b \in Builders : goroutine[b] = "none" /\ sent[b] = 0
    BY DEF Init
  <1>5. stats # Done
    BY <1>3 DEF Look, Done
  <1>6. QED
    BY <1>1, <1>2, <1>3, <1>4, <1>5, SMT, Zenon, SMTT(30) DEF CleanInv, Sending

\* The encoding goroutine reads the bundle and changes nothing of it.
LEMMA EncodeClean ==
  ASSUME Shapes, CleanInv, InsertBundleForStats
  PROVE  CleanInv'
  <1> DEFINE ST == stored \in [top : SUBSET Fields, inner : SUBSET Fields]
             DT == stats = Done => stored.top = call.fields
  <1>1. UNCHANGED <<top, inner, args, pc, call, goroutine, sent>>
    BY Zenon DEF InsertBundleForStats, Encode, EncodeTop, EncodeLook, EncodeFollow, config
  <1>2. top = call.fields /\ call.fields \subseteq Fields /\ ST
    BY CallShapes DEF CleanInv, CallShape
  <1>3. ST' /\ DT'
    <2>1. CASE EncodeTop
      BY <1>1, <1>2, <2>1 DEF EncodeTop
    <2>2. ASSUME NEW f \in Fields, EncodeLook(f) \/ EncodeFollow(f)
          PROVE  ST' /\ DT'
      <3>1. stats' \in {Follow(f), Look("metadata"), Top, Panic}
        BY <2>2 DEF EncodeLook, EncodeFollow, After
      <3>2. stats' # Done
        BY <3>1, SMT, SMTT(30) DEF Follow, Look, Top, Panic, Done
      <3>3. UNCHANGED stored \/ stored' = [stored EXCEPT !.inner = @ \cup {f}]
        BY <2>2, Zenon DEF EncodeLook, EncodeFollow
      <3>4. ST'
        BY <1>2, <2>2, <3>3, SMT, Zenon, SMTT(30)
      <3>5. QED
        BY <3>2, <3>4
    <2>3. QED
      BY <2>1, <2>2, Zenon DEF InsertBundleForStats, Encode
  <1>4. QED
    BY <1>1, <1>3 DEF CleanInv

\* Every step keeps CleanInv.
LEMMA CleanStep == Shapes /\ CleanInv /\ [Next]_vars => CleanInv'
  <1> SUFFICES ASSUME Shapes, CleanInv, [Next]_vars PROVE CleanInv'
    OBVIOUS
  <1> DEFINE GP == \A b \in Builders : goroutine[b] # "none" => pc \in Sending
             SP == \A b \in Builders : sent[b] > 0 => pc \in Sending
             Clean == /\ inner \subseteq Fields
                      /\ pc = "clean metadata" => "privacy" \notin inner
                      /\ pc \in {"clean args"} \cup Sending => inner = {}
                      /\ pc \in Sending => args = {}
             Whole == /\ top = call.fields
                      /\ stored \in [top : SUBSET Fields, inner : SUBSET Fields]
                      /\ stats = Done => stored.top = call.fields
  <1>1. GP /\ SP /\ Clean /\ Whole
    BY Zenon DEF CleanInv
  <1>2. CleanInv' <=> GP' /\ SP' /\ Clean' /\ Whole'
    BY Zenon DEF CleanInv
  <1>3. CASE InsertBundleForStats
    BY <1>3, EncodeClean
  <1>4. ASSUME ~InsertBundleForStats
        PROVE  UNCHANGED <<top, stored, stats, call>>
    BY <1>4, Zenon DEF Next, vars, sharedVars, config, SendBundle, MergePrivacyBuilders,
      cleanBundle, CleanInner, CleanTop, InternalLoop, ExternalLoop, Wait, Goroutine, Skip,
      ConvertFails, SendRequest, Answer, Shutdown, Exit
  <1>5. ASSUME ~InsertBundleForStats
        PROVE  Whole'
    BY <1>1, <1>4, <1>5
  <1>6. CASE MergePrivacyBuilders
    <2>1. UNCHANGED <<inner, args, goroutine, sent>> /\ pc = "merge" /\ pc' = "clean"
      BY <1>6, Zenon DEF MergePrivacyBuilders, sharedVars
    <2>2. GP' /\ SP' /\ Clean'
      BY <1>1, <2>1 DEF Sending
    <2>3. QED
      BY <1>2, <1>3, <1>5, <2>2, Zenon
  <1>7. CASE cleanBundle
    <2>1. UNCHANGED <<goroutine, sent>> /\ pc \notin Sending
      BY <1>7 DEF cleanBundle, Sending
    <2>2. Clean'
      <3>1. CASE pc = "clean" /\ CleanInner("privacy") /\ pc' = "clean metadata"
        BY <1>1, <3>1 DEF CleanInner, Sending
      <3>2. CASE pc = "clean metadata" /\ CleanInner("metadata") /\ pc' = "clean args"
        BY <1>1, <3>2, ZenonT(30) DEF CleanInner, Sending, Fields
      <3>3. CASE pc = "clean args" /\ CleanTop /\ pc' = "internal"
        BY <1>1, <3>3 DEF CleanTop, Sending
      <3>4. QED
        BY <1>7, <3>1, <3>2, <3>3, Zenon DEF cleanBundle
    <2>3. GP' /\ SP'
      BY <1>1, <2>1
    <2>4. QED
      BY <1>2, <1>3, <1>5, <2>2, <2>3, Zenon
  <1>8. CASE InternalLoop \/ ExternalLoop \/ Wait
    <2>1. UNCHANGED <<inner, args>>
      BY <1>8, Zenon DEF InternalLoop, ExternalLoop, Wait, sharedVars
    <2>2. pc \in Sending /\ pc' \in Sending
      BY <1>8 DEF InternalLoop, ExternalLoop, Wait, Sending
    <2>3. GP' /\ SP' /\ Clean'
      BY <1>1, <2>1, <2>2 DEF Sending
    <2>4. QED
      BY <1>2, <1>3, <1>5, <2>3, Zenon
  <1>9. ASSUME NEW b \in Builders, Goroutine(b)
        PROVE  CleanInv'
    <2>1. UNCHANGED <<inner, args, pc>>
      BY <1>9, Zenon DEF Goroutine, Skip, ConvertFails, SendRequest, Answer, sharedVars
    <2>2. goroutine[b] # "none"
      BY <1>9 DEF Goroutine, Skip, ConvertFails, SendRequest, Answer
    <2>3. pc' \in Sending
      BY <1>1, <2>1, <2>2
    <2>4. GP' /\ SP'
      BY <2>3
    <2>5. Clean'
      BY <1>1, <2>1
    <2>6. QED
      BY <1>2, <1>3, <1>5, <2>4, <2>5, Zenon
  <1>10. CASE Shutdown \/ Exit \/ UNCHANGED vars
    <2>1. UNCHANGED <<inner, args, pc, goroutine, sent>>
      BY <1>10, Zenon DEF Shutdown, Exit, vars, sharedVars
    <2>2. GP' /\ SP' /\ Clean'
      BY <1>1, <2>1
    <2>3. QED
      BY <1>2, <1>3, <1>5, <2>2, Zenon
  <1>11. QED
    BY <1>3, <1>6, <1>7, <1>8, <1>9, <1>10, Zenon DEF Next, SendBundle

(***************************************************************************)
(* No builder gets private fields of the sender, not even those of the     *)
(* bundle in the body, and what the other goroutine stores of the bundle   *)
(* itself is complete, in every order of the steps of the two.             *)
(***************************************************************************)
THEOREM SentAreCleanStoredAreComplete == Spec => []SentCleanStoredComplete
  <1>1. Init => Shapes /\ CleanInv
    BY ShapesInit, CleanInit
  <1>2. Shapes /\ CleanInv /\ [Next]_vars => (Shapes /\ CleanInv)'
    BY ShapesStep, CleanStep
  <1>3. Shapes /\ CleanInv => SentCleanStoredComplete
    BY DEF CleanInv, SentCleanStoredComplete
  <1>4. QED
    BY <1>1, <1>2, <1>3, PTL DEF Spec

-----------------------------------------------------------------------------
\* Taking the head off a list takes its name from the names still to come.
LEMMA NamesOfTail ==
  ASSUME NEW s \in Seq(STRING), s # << >>
  PROVE  Tail(s) \in Seq(STRING) /\ ToSet(s) = {Head(s)} \cup ToSet(Tail(s))
  <1>1. Len(s) \in Nat /\ Len(s) > 0 /\ DOMAIN s = 1 .. Len(s) /\ Head(s) = s[1]
    BY SMT, SMTT(30)
  <1>2. /\ Tail(s) \in Seq(STRING) /\ DOMAIN Tail(s) = 1 .. Len(s) - 1
        /\ \A i \in 1 .. Len(s) - 1 : Tail(s)[i] = s[i + 1]
    BY <1>1, SMT, SMTT(30)
  <1>3. ASSUME NEW i \in DOMAIN s
        PROVE  s[i] = Head(s) \/ s[i] \in ToSet(Tail(s))
    <2>1. CASE i = 1
      BY <1>1, <2>1
    <2>2. CASE i # 1
      <3>1. i - 1 \in 1 .. Len(s) - 1 /\ (i - 1) + 1 = i
        BY <1>1, <1>3, <2>2, SMT, Zenon, SMTT(30)
      <3>2. Tail(s)[i - 1] = s[i] /\ i - 1 \in DOMAIN Tail(s)
        BY <1>2, <3>1
      <3>3. QED
        BY <3>2 DEF ToSet
    <2>3. QED
      BY <2>1, <2>2
  <1>4. ASSUME NEW i \in DOMAIN Tail(s)
        PROVE  Tail(s)[i] \in ToSet(s)
    <2>1. i + 1 \in DOMAIN s /\ Tail(s)[i] = s[i + 1]
      BY <1>1, <1>2, <1>4, SMT, SMTT(30)
    <2>2. QED
      BY <2>1 DEF ToSet
  <1>5. Head(s) \in ToSet(s)
    BY <1>1, SMT, SMTT(30) DEF ToSet
  <1>6. QED
    BY <1>2, <1>3, <1>4, <1>5, SMT, Zenon, SMTT(30) DEF ToSet

\* Nothing is dealt with initially.
LEMMA LoopInit == Init => LoopInv
  <1> SUFFICES ASSUME Init PROVE LoopInv
    OBVIOUS
  <1>1. list = << >> /\ todo = Internal /\ buildersUsed = {} /\ pc = "merge"
    BY Zenon DEF Init
  <1>2. \A b \in Internal \cup External : goroutine[b] = "none"
    BY DEF Init, Builders
  <1>3. << >> \in Seq(STRING)
    BY SMT, SMTT(30)
  <1>4. QED
    BY <1>1, <1>2, <1>3, SMT, Zenon, SMTT(30) DEF LoopInv, InternalInv, ListInv, ExternalInv

\* The rules depend on the configs and the call, which no step changes.
LEMMA RulesStay ==
  ASSUME [Next]_vars
  PROVE  /\ UNCHANGED call
         /\ \A b : SkipInternal(b)' <=> SkipInternal(b)
         /\ \A b : SkipExternal(b)' <=> SkipExternal(b)
         /\ \A b : Sends(b)' <=> Sends(b)
  <1>1. UNCHANGED config
    BY Zenon DEF Next, vars, SendBundle, MergePrivacyBuilders, cleanBundle, InternalLoop,
      ExternalLoop, Wait, InsertBundleForStats, Goroutine, Skip, ConvertFails, SendRequest, Answer,
      Shutdown, Exit
  <1>2. QED
    BY <1>1, Zenon DEF config, SkipInternal, SkipExternal, Sends, Delayed,
      Unconvertible

\* The loop over the internal builders deals with one that is to do.
LEMMA InternalStep ==
  ASSUME Shapes, LoopInv, [Next]_vars, InternalLoop
  PROVE  LoopInv'
  <1>1. /\ UNCHANGED <<list, buildersUsed>> /\ pc = "internal"
        /\ UNCHANGED call
        /\ \A b : SkipInternal(b)' <=> SkipInternal(b)
        /\ \A b : SkipExternal(b)' <=> SkipExternal(b)
    BY RulesStay, Zenon DEF InternalLoop
  <1>2. InternalInv /\ ListInv /\ ExternalInv
    BY Zenon DEF LoopInv
  <1>3. pc' = "internal" \/ pc' = "external"
    BY DEF InternalLoop
  <1>4. ListInv'
    BY <1>1, <1>2, <1>3 DEF ListInv, ToSet
  <1>5. CASE UNCHANGED goroutine /\ todo = {} /\ UNCHANGED todo
    <2>1. InternalInv' /\ ExternalInv'
      BY <1>1, <1>2, <1>5 DEF InternalInv, ExternalInv
    <2>2. QED
      BY <1>4, <2>1, Zenon DEF LoopInv
  <1>6. ASSUME NEW b \in todo, todo' = todo \ {b}, UNCHANGED pc,
               \/ SkipInternal(b) /\ UNCHANGED goroutine
               \/ ~SkipInternal(b) /\ goroutine' = [goroutine EXCEPT ![b] = "start"]
        PROVE  LoopInv'
    <2>1. b \in Internal /\ b \notin External
      BY <1>6, BuildersAssumption DEF Shapes
    <2>2. \A c \in Internal \cup External : c # b => goroutine'[c] = goroutine[c]
      BY <1>6 DEF Shapes, Builders
    <2>3. goroutine'[b] # "none" <=> ~SkipInternal(b)
      BY <1>2, <1>6, <2>1 DEF Shapes, Builders, InternalInv
    <2>4. ExternalInv'
      BY <1>1, <1>2, <2>1, <2>2 DEF ExternalInv
    <2>5. InternalInv'
      BY <1>1, <1>2, <1>6, <2>1, <2>2, <2>3, SMT, Zenon, SMTT(30) DEF Shapes, InternalInv
    <2>6. QED
      BY <1>4, <2>4, <2>5, Zenon DEF LoopInv
  <1>7. QED
    BY <1>5, <1>6, Zenon DEF InternalLoop, Start

\* The loop over privacy.builders uses the name at the head of the list.
LEMMA ExternalStep ==
  ASSUME Shapes, LoopInv, [Next]_vars, ExternalLoop
  PROVE  LoopInv'
  <1>1. /\ UNCHANGED todo /\ pc = "external"
        /\ UNCHANGED call
        /\ \A b : SkipInternal(b)' <=> SkipInternal(b)
        /\ \A b : SkipExternal(b)' <=> SkipExternal(b)
    BY RulesStay, Zenon DEF ExternalLoop
  <1>2. InternalInv /\ ListInv /\ ExternalInv
    BY Zenon DEF LoopInv
  <1>3. todo = {} /\ list \in Seq(STRING)
    BY <1>1, <1>2, SMT, Zenon, SMTT(30) DEF InternalInv, ListInv
  <1>4. ToSet(Merged(call)) \ InternalNames = buildersUsed \cup (ToSet(list) \ InternalNames)
    BY <1>1, <1>2 DEF ListInv
  <1>5. CASE list = << >> /\ pc' = "wait" /\ UNCHANGED <<list, buildersUsed, goroutine>>
    <2>1. InternalInv' /\ ExternalInv'
      BY <1>1, <1>2, <1>3, <1>5, SMT, Zenon, SMTT(30) DEF InternalInv, ExternalInv
    <2>2. ListInv'
      BY <1>1, <1>3, <1>4, <1>5, SMT, Zenon, SMTT(30) DEF ListInv, ToSet
    <2>3. QED
      BY <2>1, <2>2, Zenon DEF LoopInv
  <1> DEFINE target == Head(list)
             start == ~Ignored(target) /\ target \in External /\ ~SkipExternal(target)
  <1>6. ASSUME list # << >>, list' = Tail(list), UNCHANGED pc,
               buildersUsed' = (IF Ignored(target) THEN buildersUsed ELSE buildersUsed \cup {target}),
               \/ start /\ goroutine' = [goroutine EXCEPT ![target] = "start"]
               \/ ~start /\ UNCHANGED goroutine
        PROVE  LoopInv'
    <2>1. list' \in Seq(STRING) /\ ToSet(list) = {target} \cup ToSet(list')
      BY <1>3, <1>6, NamesOfTail
    <2>2. Ignored(target) <=> target \in InternalNames \/ target \in buildersUsed
      BY DEF Ignored
    <2>3. /\ call' = call /\ pc' = "external"
          /\ ToSet(Merged(call)) \ InternalNames
               = buildersUsed' \cup (ToSet(list') \ InternalNames)
      <3> HIDE DEF target
      <3>1. QED
        BY <1>1, <1>4, <1>6, <2>1, <2>2, SMT, Zenon, SMTT(30)
    <2>4. ListInv'
      BY <2>1, <2>3 DEF ListInv, ToSet
    <2>5. \A b \in Internal \cup External : goroutine'[b] = IF start /\ b = target THEN "start"
                                                            ELSE goroutine[b]
      <3> HIDE DEF target
      <3>1. QED
        BY <1>6 DEF Shapes, Builders
    <2>6. InternalInv'
      <3> HIDE DEF target
      <3>1. \A b \in Internal : goroutine'[b] = goroutine[b]
        BY <2>5, BuildersAssumption
      <3>2. QED
        BY <1>1, <1>2, <1>3, <3>1, SMT, Zenon, SMTT(30) DEF InternalInv
    <2>7. ASSUME NEW b \in External
          PROVE  goroutine'[b] # "none" <=> b \in buildersUsed' /\ ~SkipExternal(b)
      <3> HIDE DEF target
      <3>1. goroutine[b] # "none" <=> b \in buildersUsed /\ ~SkipExternal(b)
        BY <1>2 DEF ExternalInv
      <3>2. CASE Ignored(target)
        BY <1>6, <2>5, <3>1, <3>2, SMT, Zenon, SMTT(30)
      <3>3. CASE ~Ignored(target)
        BY <1>6, <2>2, <2>5, <3>1, <3>3, SMT, Zenon, SMTT(30)
      <3>4. QED
        BY <3>2, <3>3, SMT, Zenon, SMTT(30)
    <2>8. ExternalInv'
      BY <1>1, <2>7, Zenon DEF ExternalInv
    <2>9. QED
      BY <2>4, <2>6, <2>8, Zenon DEF LoopInv
  <1>7. QED
    BY <1>5, <1>6, Zenon DEF ExternalLoop, Start

\* Every step keeps LoopInv.
LEMMA LoopStep == Shapes /\ CleanInv /\ LoopInv /\ [Next]_vars => LoopInv'
  <1> SUFFICES ASSUME Shapes, CleanInv, LoopInv, [Next]_vars PROVE LoopInv'
    OBVIOUS
  <1>1. /\ UNCHANGED call
        /\ \A b : SkipInternal(b)' <=> SkipInternal(b)
        /\ \A b : SkipExternal(b)' <=> SkipExternal(b)
    BY RulesStay, Zenon
  <1>2. InternalInv /\ ListInv /\ ExternalInv
    BY Zenon DEF LoopInv
  <1>3. ASSUME UNCHANGED <<todo, buildersUsed>>,
               \A b \in Internal \cup External : goroutine'[b] # "none" <=> goroutine[b] # "none",
               pc' \in {"external", "wait", "returned"} => pc \in {"external", "wait", "returned"}
        PROVE  InternalInv' /\ ExternalInv'
    BY <1>1, <1>2, <1>3, SMT, Zenon, SMTT(30) DEF InternalInv, ExternalInv, Shapes
  <1>4. ASSUME UNCHANGED <<list, buildersUsed>>, pc # "merge",
               pc' # "merge", pc' \in {"wait", "returned"} => pc \in {"wait", "returned"}
        PROVE  ListInv'
    BY <1>1, <1>2, <1>4, SMT, Zenon, SMTT(30) DEF ListInv, ToSet
  <1>5. CASE MergePrivacyBuilders
    <2>1. /\ UNCHANGED <<todo, buildersUsed, goroutine>> /\ pc = "merge" /\ pc' = "clean"
          /\ list' = Merged(call) /\ Merged(call) \in Seq(STRING)
      BY <1>5, CallShapes, Zenon DEF MergePrivacyBuilders, CallShape
    <2>2. ListInv'
      BY <1>1, <1>2, <2>1, SMT, Zenon, SMTT(30) DEF ListInv, ToSet
    <2>3. QED
      BY <1>3, <2>1, <2>2, SMT, Zenon, SMTT(30) DEF LoopInv
  <1>6. CASE cleanBundle
    <2>1. UNCHANGED <<todo, list, buildersUsed, goroutine>>
      BY <1>6, Zenon DEF cleanBundle
    <2>2. pc # "merge" /\ pc' \in {"clean metadata", "clean args", "internal"}
      BY <1>6 DEF cleanBundle
    <2>3. QED
      BY <1>3, <1>4, <2>1, <2>2 DEF LoopInv
  <1>7. CASE Wait
    <2>1. /\ UNCHANGED <<todo, list, buildersUsed, goroutine>>
          /\ pc = "wait" /\ pc' = "returned"
      BY <1>7, Zenon DEF Wait
    <2>2. QED
      BY <1>3, <1>4, <2>1 DEF LoopInv
  <1>8. ASSUME NEW b \in Builders, Goroutine(b)
        PROVE  LoopInv'
    <2>1. UNCHANGED <<todo, list, buildersUsed, pc>>
      BY <1>8, ZenonT(30) DEF Goroutine, Skip, ConvertFails, SendRequest, Answer
    <2>2. /\ goroutine[b] # "none"
          /\ \E v \in {"done", "sending"} : goroutine' = [goroutine EXCEPT ![b] = v]
      BY <1>8, SMT, Zenon, SMTT(30) DEF Goroutine, Skip, ConvertFails, SendRequest, Answer
    <2>3. \A c \in Internal \cup External : goroutine'[c] # "none" <=> goroutine[c] # "none"
      BY <2>2 DEF Shapes, Builders
    <2>4. pc # "merge"
      BY <2>2 DEF CleanInv, Sending
    <2>5. QED
      BY <1>3, <1>4, <2>1, <2>3, <2>4, SMT, Zenon, SMTT(30) DEF LoopInv
  <1>9. CASE InsertBundleForStats \/ Shutdown \/ Exit \/ UNCHANGED vars
    <2>1. UNCHANGED <<todo, list, buildersUsed, pc, goroutine>>
      BY <1>9, Zenon DEF InsertBundleForStats, Shutdown, Exit, vars
    <2>2. ListInv'
      BY <1>1, <1>2, <2>1, SMT, Zenon, SMTT(30) DEF ListInv, ToSet
    <2>3. QED
      BY <1>3, <2>1, <2>2, SMT, Zenon, SMTT(30) DEF LoopInv
  <1>10. QED
    BY <1>5, <1>6, <1>7, <1>8, <1>9, InternalStep, ExternalStep, Zenon DEF Next, SendBundle

-----------------------------------------------------------------------------
\* Nothing is sent initially.
LEMMA SentInit == Init => SentInv
  BY DEF Init, SentInv

\* A goroutine that starts had not started before: no builder gets a second one.
LEMMA StartsOnce ==
  ASSUME Shapes, LoopInv, [Next]_vars, InternalLoop \/ ExternalLoop
  PROVE  \A b \in Builders : goroutine'[b] # goroutine[b]
                             => goroutine[b] = "none" /\ goroutine'[b] = "start"
  <1>1. InternalInv /\ ExternalInv
    BY Zenon DEF LoopInv
  <1>2. \/ UNCHANGED goroutine
        \/ \E c \in Builders : /\ goroutine[c] = "none"
                               /\ goroutine' = [goroutine EXCEPT ![c] = "start"]
    <2>1. CASE InternalLoop
      <3>1. \/ UNCHANGED goroutine
            \/ \E c \in todo : goroutine' = [goroutine EXCEPT ![c] = "start"]
        BY <2>1, Zenon DEF InternalLoop, Start
      <3>2. \A c \in todo : c \in Builders /\ goroutine[c] = "none"
        BY <1>1 DEF InternalInv, Shapes, Builders
      <3>3. QED
        BY <3>1, <3>2, Zenon
    <2>2. CASE ExternalLoop
      <3> DEFINE t == Head(list)
      <3>1. \/ UNCHANGED goroutine
            \/ /\ ~Ignored(t) /\ t \in External
               /\ goroutine' = [goroutine EXCEPT ![t] = "start"]
        BY <2>2, Zenon DEF ExternalLoop, Start
      <3> HIDE DEF t
      <3>2. \A c \in External : c \in Builders /\ (~Ignored(c) => goroutine[c] = "none")
        BY <1>1 DEF ExternalInv, Ignored, Builders
      <3>3. QED
        BY <3>1, <3>2, Zenon
    <2>3. QED
      BY <2>1, <2>2
  <1>3. QED
    BY <1>2 DEF Shapes

\* Every step keeps SentInv.
LEMMA SentStep == Shapes /\ LoopInv /\ SentInv /\ [Next]_vars => SentInv'
  <1> SUFFICES ASSUME Shapes, LoopInv, SentInv, [Next]_vars PROVE SentInv'
    OBVIOUS
  <1> DEFINE Has(b) == goroutine[b] \in {"sending", "done"} /\ Sends(b)
             Part(b) == goroutine[b] = "sending" => Sends(b)
  <1>1. \A b : Sends(b)' <=> Sends(b)
    BY RulesStay, Zenon
  <1>2. \A b \in Builders : Part(b) /\ sent[b] = IF Has(b) THEN 1 ELSE 0
    BY DEF SentInv
  <1>3. SUFFICES ASSUME NEW b \in Builders
                 PROVE  Part(b)' /\ sent'[b] = IF Has(b)' THEN 1 ELSE 0
    BY Zenon DEF SentInv
  <1>4. CASE InternalLoop \/ ExternalLoop
    <2>1. UNCHANGED sent
      BY <1>4, Zenon DEF InternalLoop, ExternalLoop
    <2>2. goroutine'[b] = goroutine[b] \/ (goroutine[b] = "none" /\ goroutine'[b] = "start")
      BY <1>4, StartsOnce
    <2>3. QED
      BY <1>1, <1>2, <2>1, <2>2, SMT, Zenon, SMTT(30)
  <1>5. ASSUME NEW c \in Builders, Goroutine(c)
        PROVE  Part(b)' /\ sent'[b] = IF Has(b)' THEN 1 ELSE 0
    <2>1. CASE SendRequest(c)
      <3>1. /\ goroutine[c] = "start" /\ goroutine' = [goroutine EXCEPT ![c] = "sending"]
            /\ sent' = [sent EXCEPT ![c] = @ + 1] /\ Sends(c)
        BY <2>1, Zenon DEF SendRequest, Sends
      <3>2. QED
        BY <1>1, <1>2, <3>1, SMT, Zenon, SMTT(30) DEF Shapes
    <2>2. CASE Skip(c) \/ ConvertFails(c)
      <3>1. /\ goroutine[c] = "start" /\ goroutine' = [goroutine EXCEPT ![c] = "done"]
            /\ sent' = sent /\ ~Sends(c)
        BY <2>2, Zenon DEF Skip, ConvertFails, Sends
      <3>2. QED
        BY <1>1, <1>2, <3>1, SMT, Zenon, SMTT(30) DEF Shapes
    <2>3. CASE \E ok \in BOOLEAN : Answer(c, ok)
      <3>1. /\ goroutine[c] = "sending" /\ goroutine' = [goroutine EXCEPT ![c] = "done"]
            /\ sent' = sent
        BY <2>3, Zenon DEF Answer
      <3>2. QED
        BY <1>1, <1>2, <3>1 DEF Shapes
    <2>4. QED
      BY <1>5, <2>1, <2>2, <2>3, Zenon DEF Goroutine
  <1>6. CASE \/ MergePrivacyBuilders \/ cleanBundle \/ Wait
             \/ InsertBundleForStats \/ Shutdown \/ Exit \/ UNCHANGED vars
    <2>1. UNCHANGED <<goroutine, sent>>
      BY <1>6, Zenon DEF MergePrivacyBuilders, cleanBundle, Wait, InsertBundleForStats,
        Shutdown, Exit, vars
    <2>2. QED
      BY <1>1, <1>2, <2>1, SMT, Zenon, SMTT(30)
  <1>7. QED
    BY <1>4, <1>5, <1>6, Zenon DEF Next, SendBundle

\* When the loops are over and every goroutine has ended, the rules of the
\* loops and of the goroutines together are the choice of SentExactly.
LEMMA LoopsChoose ==
  ASSUME Shapes, CountInv, LoopInv, SentInv
  PROVE  SentExactly
  <1>1. SUFFICES ASSUME pc = "returned", NEW b \in Builders
                 PROVE  sent[b] = IF Chosen(b) THEN 1 ELSE 0
    BY DEF SentExactly
  <1>2. goroutine[b] \in {"none", "done"}
    BY <1>1 DEF CountInv, Active, Shapes
  <1>3. sent[b] = IF goroutine[b] # "none" /\ Sends(b) THEN 1 ELSE 0
    BY <1>2 DEF SentInv
  <1>4. CASE b \in Internal
    <2>1. b \notin External /\ (goroutine[b] # "none" <=> ~SkipInternal(b))
      BY <1>1, <1>4, BuildersAssumption DEF LoopInv, InternalInv
    <2>2. Chosen(b) <=> ~SkipInternal(b) /\ Sends(b)
      BY <1>4, <2>1, Zenon DEF Chosen, SkipInternal, Sends, Delayed, Unconvertible
    <2>3. QED
      BY <1>3, <2>1, <2>2, Zenon
  <1>5. CASE b \in External
    <2>1. b \notin Internal /\ (goroutine[b] # "none" <=> b \in buildersUsed /\ ~SkipExternal(b))
      BY <1>5, BuildersAssumption DEF LoopInv, ExternalInv
    <2>2. ToSet(<< >>) = {}
      BY SMT, SMTT(30) DEF ToSet
    <2>3. buildersUsed = ToSet(Merged(call)) \ InternalNames
      BY <1>1, <2>2, SMT, Zenon, SMTT(30) DEF LoopInv, ListInv
    <2>4. b \in ToSet(Merged(call)) <=> Named(call, b)
      BY CallShapes, Zenon DEF CallShape
    <2>5. Chosen(b) <=> /\ b \notin InternalNames /\ b \in ToSet(Merged(call))
                        /\ ~SkipExternal(b) /\ Sends(b)
      BY <1>5, <2>1, <2>4, Zenon DEF Chosen, SkipExternal, Sends, Delayed, Unconvertible
    <2>6. QED
      BY <1>3, <2>1, <2>3, <2>5, SMT, Zenon, SMTT(30)
  <1>6. QED
    BY <1>4, <1>5 DEF Builders

(***************************************************************************)
(* When SendBundle returns, the builders that the rules choose have got    *)
(* the bundle exactly once and the others not at all, whatever names       *)
(* privacy.builders repeats and whatever the order of the goroutines: not  *)
(* a builder that the bundle in the body does not name, nor one of the     *)
(* refund-recipient API when the bundle cannot be converted for it.        *)
(***************************************************************************)
THEOREM SentToExactlyTheChosen == Spec => []SentExactly
  <1> DEFINE Inv == Shapes /\ CountInv /\ CleanInv /\ LoopInv /\ SentInv
  <1>1. Init => Inv
    BY ShapesInit, CountInit, CleanInit, LoopInit, SentInit, SMT, Zenon, SMTT(30)
  <1>2. Inv /\ [Next]_vars => Inv'
    BY ShapesStep, CountStep, CleanStep, LoopStep, SentStep, Zenon
  <1>3. Inv => SentExactly
    BY LoopsChoose
  <1>4. QED
    BY <1>1, <1>2, <1>3, PTL DEF Spec
=============================================================================
