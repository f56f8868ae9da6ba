------------------------------ MODULE Builders ------------------------------
(***************************************************************************)
(* One call of SendBundle of mevshare/builders.go, which sends a simulated *)
(* bundle to the builders in parallel and waits for all of them, and the   *)
(* shutdown of the node, which waits for the background job that made the  *)
(* call (mevshare/sim_result_backend.go, mevshare/sim_queue.go, main).     *)
(***************************************************************************)
EXTENDS SharedBundle

CONSTANTS
  Internal, External,   \* the names of the enabled builders
  Settings              \* the configs of the builders and the calls to consider

Builders == Internal \cup External

APIs == {"plain", "refund-recipient", "replacement"}    \* "plain" is v0.1

(***************************************************************************)
(* A call is for a bundle with the names of privacy.builders, if it has    *)
(* privacy settings, and so has the bundle in its body, if there is one,   *)
(* which need not have been validated.  A cancelling call is made for a    *)
(* replaceable bundle.  The signer may be the restricted address.  A       *)
(* bundle is convertible when ConvertBundleToRefundRecipient gives no      *)
(* error for it.                                                           *)
(***************************************************************************)
NoBundle == [fields |-> {}, builders |-> << >>]

MergeBuilders(builders, nested) ==
  IF "privacy" \in nested.fields THEN Intersect(builders, nested.builders) ELSE << >>

Merged(c) ==
  LET own == Intersect(c.builders, c.builders)
  IN  IF c.nested = NoBundle THEN own ELSE MergeBuilders(own, c.nested)

\* The call and the bundle in its body both name b.
Named(c, b) ==
  /\ b \in ToSet(c.builders)
  /\ c.nested # NoBundle => "privacy" \in c.nested.fields /\ b \in ToSet(c.nested.builders)

(***************************************************************************)
(* The last conjunct is a fact about the recursively defined SelectSeq,    *)
(* which TLC evaluates: Intersect leaves the names that both lists have.   *)
(***************************************************************************)
ASSUME BuildersAssumption ==
  /\ Internal \cap External = {}
  /\ \A x \in Settings :
       /\ x.api \in [Builders -> APIs] /\ x.delay \in [Builders -> BOOLEAN]
       /\ x.call.replaceable \in BOOLEAN /\ x.call.restricted \in BOOLEAN
       /\ x.call.firstBlock \in BOOLEAN /\ x.call.convertible \in BOOLEAN
       /\ x.call.fields \subseteq Fields /\ x.call.nested.fields \subseteq Fields
       /\ x.call.builders \in Seq(STRING)
       /\ "privacy" \notin x.call.fields => x.call.builders = << >>
       /\ Merged(x.call) \in Seq(STRING)
       /\ \A b \in Builders : b \in ToSet(Merged(x.call)) <=> Named(x.call, b)

VARIABLES
  api, delay,           \* the config of each builder
  call,                 \* the call: what it depends on
  todo,                 \* internal builders that the first loop has not reached
  list,                 \* what is left of privacy.builders for the second loop
  buildersUsed,
  pc,                   \* where SendBundle is
  goroutine,            \* the goroutine of each builder
  wg,                   \* the counter of the wait group
  sent,                 \* requests to each builder
  internalSuccess,      \* internalBuildersSuccess
  main                  \* the main goroutine: running, waiting, exited

config == <<api, delay, call>>
vars == <<sharedVars, config, todo, list, buildersUsed, pc, goroutine, wg, sent, internalSuccess, main>>

Init ==
  /\ \E x \in Settings : api = x.api /\ delay = x.delay /\ call = x.call
  /\ SharedInit(call.fields, call.nested.fields)
  /\ todo = Internal
  /\ list = << >>
  /\ buildersUsed = {}
  /\ pc = "merge"
  /\ goroutine = [b \in Builders |-> "none"]
  /\ wg = 0
  /\ sent = [b \in Builders |-> 0]
  /\ internalSuccess = {}
  /\ main = "running"

-----------------------------------------------------------------------------
\* MergePrivacyBuilders, which narrows the names again in case it was not done.
MergePrivacyBuilders ==
  /\ pc = "merge" /\ pc' = "clean"
  /\ list' = Merged(call)
  /\ UNCHANGED <<sharedVars, config, todo, buildersUsed, goroutine, wg, sent, internalSuccess, main>>

cleanBundle ==
  /\ \/ pc = "clean" /\ CleanInner("privacy") /\ pc' = "clean metadata"
     \/ pc = "clean metadata" /\ CleanInner("metadata") /\ pc' = "clean args"
     \/ pc = "clean args" /\ CleanTop /\ pc' = "internal"
  /\ UNCHANGED <<config, todo, list, buildersUsed, goroutine, wg, sent, internalSuccess, main>>

Start(b) ==
  /\ goroutine' = [goroutine EXCEPT ![b] = "start"]
  /\ wg' = wg + 1

\* Only builders with the replacement API get replaceable bundles, and, of the
\* internal ones, bundles of the restricted address.
SkipInternal_OnlyReplaceable(b) == call.replaceable /\ api[b] # "replacement"
SkipInternal(b) == (call.replaceable \/ call.restricted) /\ api[b] # "replacement"

InternalLoop ==
  /\ pc = "internal"
  /\ \/ \E b \in todo :
          /\ todo' = todo \ {b}
          /\ \/ SkipInternal(b) /\ internalSuccess' = internalSuccess \cup {b}
                /\ UNCHANGED <<goroutine, wg>>
             \/ ~SkipInternal(b) /\ Start(b) /\ UNCHANGED internalSuccess
          /\ UNCHANGED pc
     \/ /\ todo = {}
        /\ pc' = "external"
        /\ UNCHANGED <<todo, goroutine, wg, internalSuccess>>
  /\ UNCHANGED <<sharedVars, config, list, buildersUsed, sent, main>>

\* The names that stand for the internal builders.
InternalNames == {"default", "flashbots"}

Ignored(target) == target \in InternalNames \cup buildersUsed
SkipExternal(b) == call.replaceable /\ api[b] # "replacement"

ExternalLoop ==
  /\ pc = "external"
  /\ \/ /\ list # << >>
        /\ list' = Tail(list)
        /\ LET target == Head(list)
               start == ~Ignored(target) /\ target \in External /\ ~SkipExternal(target)
           IN  /\ buildersUsed' = IF Ignored(target) THEN buildersUsed ELSE buildersUsed \cup {target}
               /\ \/ start /\ Start(target)
                  \/ ~start /\ UNCHANGED <<goroutine, wg>>
        /\ UNCHANGED pc
     \/ /\ list = << >>
        /\ pc' = "wait"
        /\ UNCHANGED <<list, buildersUsed, goroutine, wg>>
  /\ UNCHANGED <<sharedVars, config, todo, sent, internalSuccess, main>>

Wait ==
  /\ pc = "wait" /\ wg = 0
  /\ pc' = "returned"
  /\ UNCHANGED <<sharedVars, config, todo, list, buildersUsed, goroutine, wg, sent, internalSuccess, main>>

-----------------------------------------------------------------------------
\* A goroutine skips a delayed builder on the bundle's first block.  The one of
\* an external builder returns before it has deferred wg.Done.
Delayed(b) == delay[b] /\ call.firstBlock

Skip(b) ==
  /\ goroutine[b] = "start" /\ Delayed(b)
  /\ goroutine' = [goroutine EXCEPT ![b] = "done"]
  /\ wg' = IF b \in Internal THEN wg - 1 ELSE wg
  /\ internalSuccess' = internalSuccess \cup ({b} \cap Internal)
  /\ UNCHANGED <<sharedVars, config, todo, list, buildersUsed, pc, sent, main>>

\* The refund-recipient API takes no bundle that cannot be converted.
Unconvertible(b) == api[b] = "refund-recipient" /\ ~call.convertible

ConvertFails(b) ==
  /\ goroutine[b] = "start" /\ ~Delayed(b) /\ Unconvertible(b)
  /\ goroutine' = [goroutine EXCEPT ![b] = "done"]
  /\ wg' = wg - 1
  /\ UNCHANGED <<sharedVars, config, todo, list, buildersUsed, pc, sent, internalSuccess, main>>

SendRequest(b) ==
  /\ goroutine[b] = "start" /\ ~Delayed(b) /\ ~Unconvertible(b)
  /\ goroutine' = [goroutine EXCEPT ![b] = "sending"]
  /\ sent' = [sent EXCEPT ![b] = @ + 1]
  /\ UNCHANGED <<sharedVars, config, todo, list, buildersUsed, pc, wg, internalSuccess, main>>

\* The builder answers, or the call fails or runs into the timeout of its context.
DoneOf_OnSuccess(ok) == IF ok THEN 1 ELSE 0
DoneOf_Twice(ok) == 2
DoneOf(ok) == 1

Answer(b, ok) ==
  /\ goroutine[b] = "sending"
  /\ goroutine' = [goroutine EXCEPT ![b] = "done"]
  /\ wg' = wg - DoneOf(ok)
  /\ internalSuccess' = IF ok THEN internalSuccess \cup ({b} \cap Internal) ELSE internalSuccess
  /\ UNCHANGED <<sharedVars, config, todo, list, buildersUsed, pc, sent, main>>

-----------------------------------------------------------------------------
\* A signal ends the server; main then waits for backgroundWg.
Shutdown ==
  /\ main = "running"
  /\ main' = "waiting"
  /\ UNCHANGED <<sharedVars, config, todo, list, buildersUsed, pc, goroutine, wg, sent, internalSuccess>>

Exit ==
  /\ main = "waiting" /\ pc = "returned" /\ stats = Done
  /\ main' = "exited"
  /\ UNCHANGED <<sharedVars, config, todo, list, buildersUsed, pc, goroutine, wg, sent, internalSuccess>>

Goroutine(b) == Skip(b) \/ ConvertFails(b) \/ SendRequest(b) \/ \E ok \in BOOLEAN : Answer(b, ok)
SendBundle == MergePrivacyBuilders \/ cleanBundle \/ InternalLoop \/ ExternalLoop \/ Wait

\* A panic ends the node.
Running == stats # Panic

InsertBundleForStats ==
  /\ Encode
  /\ UNCHANGED <<config, todo, list, buildersUsed, pc, goroutine, wg, sent, internalSuccess, main>>

Next ==
  /\ Running
  /\ \/ SendBundle \/ InsertBundleForStats \/ \E b \in Builders : Goroutine(b)
     \/ Shutdown \/ Exit

Spec == Init /\ [][Next]_vars

(***************************************************************************)
(* Goroutines run, requests end with an answer or with their context, and  *)
(* main goes on once it can; a shutdown need not come.                     *)
(***************************************************************************)
FairSpec ==
  /\ Spec
  /\ WF_vars(Running /\ SendBundle)
  /\ WF_vars(Running /\ InsertBundleForStats)
  /\ \A b \in Builders : WF_vars(Running /\ Goroutine(b))
  /\ WF_vars(Running /\ Exit)

-----------------------------------------------------------------------------
\* The types of the variables.
TypeOK ==
  /\ todo \subseteq Internal /\ internalSuccess \subseteq Internal
  /\ top \subseteq Fields /\ inner \subseteq Fields /\ args \subseteq Fields
  /\ pc \in {"merge", "clean", "clean metadata", "clean args", "internal", "external", "wait", "returned"}
  /\ goroutine \in [Builders -> {"none", "start", "sending", "done"}]
  /\ wg \in Nat
  /\ sent \in [Builders -> Nat]
  /\ main \in {"running", "waiting", "exited"}

\* The builders that the code's rules choose for the bundle, without the loops.
Chosen(b) ==
  /\ b \in External => b \notin InternalNames /\ Named(call, b)
  /\ call.replaceable => api[b] = "replacement"
  /\ b \in Internal /\ call.restricted => api[b] = "replacement"
  /\ ~(delay[b] /\ call.firstBlock)
  /\ api[b] = "refund-recipient" => call.convertible

(***************************************************************************)
(* When SendBundle returns, every builder that the rules choose has got    *)
(* the bundle exactly once, whatever privacy.builders repeats, and no      *)
(* other builder has seen it.  A builder with the refund-recipient API     *)
(* gets nothing of a bundle that cannot be converted for it, and an        *)
(* external one is named by the bundle and by the one in its body.         *)
(***************************************************************************)
SentExactly ==
  pc = "returned" => \A b \in Builders : sent[b] = IF Chosen(b) THEN 1 ELSE 0

(***************************************************************************)
(* Of the bundle that two goroutines share, no builder gets privacy        *)
(* settings or metadata of the sender, not even those of the bundle in the *)
(* body (internal builders get metadata made for them), and what is stored *)
(* of the bundle itself is complete.  Nothing is said of what is stored of *)
(* the bundle in the body, which may be incomplete, nor of the runs in     *)
(* which the encoder panics on it.                                         *)
(***************************************************************************)
SentCleanStoredComplete ==
  /\ (\E b \in Builders : sent[b] > 0) => args = {} /\ inner = {}
  /\ stats = Done => stored.top = call.fields

(***************************************************************************)
(* SendBundle returns, and main exits, only when no request to a builder   *)
(* is under way.                                                           *)
(***************************************************************************)
NothingLeftBehind ==
  pc = "returned" \/ main = "exited" => \A b \in Builders : goroutine[b] \in {"none", "done"}

(***************************************************************************)
(* After a signal the node finishes its background work and exits, also    *)
(* when requests fail, unless an external builder was skipped for its      *)
(* delay, or the node has panicked on the bundle in the body.              *)
(***************************************************************************)
SkippedExternal == \E b \in External : goroutine[b] = "done" /\ Delayed(b)

Panicked == ~Running /\ call.nested # NoBundle

ShutdownFinishes == main = "waiting" ~> main = "exited" \/ SkippedExternal \/ Panicked

-----------------------------------------------------------------------------
(* What the repository says, and the code does otherwise.                  *)

\* "wait for queue to finish processing" (cmd/node/main.go): the wait ends.
WaitEnds == main = "waiting" ~> main = "exited"
=============================================================================
