----------------------------- MODULE CancelCache ----------------------------
(***************************************************************************)
(* The cancellation cache of mevshare/cancellation_cache.go: an entry is   *)
(* set by CancelBundleByHash with the lifetime that cmd/node/main.go gives *)
(* it, and looked up by the workers.                                       *)
(***************************************************************************)
EXTENDS Chain

CONSTANTS
  Cancelled,    \* the bundles that are cancelled, once each
  Window        \* the blocks for which a cancellation is kept track of: 30

ASSUME CancelAssumption == Window \in Nat

Never == -1

VARIABLES
  age,          \* the age of the entry, up to Lifetime, or Never
  headThen,     \* history: the latest block when it was set
  missedThen    \* history: the slots missed until then

cancelVars == <<age, headThen, missedThen>>

CancelInit ==
  /\ age = [h \in Cancelled |-> Never]
  /\ headThen = [h \in Cancelled |-> 0] /\ missedThen = [h \in Cancelled |-> 0]

Add(h) ==
  /\ age[h] = Never
  /\ age' = [age EXCEPT ![h] = 0]
  /\ headThen' = [headThen EXCEPT ![h] = head]
  /\ missedThen' = [missedThen EXCEPT ![h] = Missed]

\* expireDuration.
Lifetime_OneShort == (Window - 1) * SlotTime
Lifetime == Window * SlotTime

\* The MGET of IsCancelled: Redis deletes the key when its lifetime is over.
IsCancelled(h) == age[h] # Never /\ age[h] < Lifetime

CancelElapse ==
  /\ age' = [h \in Cancelled |-> IF IsCancelled(h) THEN age[h] + 1 ELSE age[h]]
  /\ UNCHANGED <<headThen, missedThen>>
=============================================================================
