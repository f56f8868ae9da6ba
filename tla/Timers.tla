------------------------------- MODULE Timers -------------------------------
(***************************************************************************)
(* The parts of the node that rely on the wall clock, with the chain:      *)
(* the cached block number and the cancellation cache.                     *)
(***************************************************************************)
EXTENDS EthClient, CancelCache

vars == <<chainVars, ethVars, cancelVars>>

Init == ChainInit /\ EthInit /\ CancelInit

CallStep(c) == BlockNumber(c) /\ UNCHANGED <<chainVars, cancelVars>>
ChainStep == (NewBlock \/ MissSlot) /\ UNCHANGED <<ethVars, cancelVars>>
TimeStep == Tick /\ EthElapse /\ CancelElapse

Next ==
  \/ \E c \in Callers : CallStep(c) \/ (Call(c) /\ UNCHANGED <<chainVars, cancelVars>>)
  \/ \E h \in Cancelled : Add(h) /\ UNCHANGED <<chainVars, ethVars>>
  \/ ChainStep
  \/ TimeStep

Spec == Init /\ [][Next]_vars

(***************************************************************************)
(* A call goes on when it can; a sync.RWMutex serves those who wait for it *)
(* in turn, so a step that is possible again and again is taken.  The node *)
(* answers or fails: the client's connection is not left open forever.     *)
(***************************************************************************)
FairSpec == Spec /\ \A c \in Callers : SF_vars(CallStep(c))

-----------------------------------------------------------------------------
Labels == {"idle", "rlock", "read", "lock", "return"} \cup Asking

\* The types of the variables.
TypeOK ==
  /\ slot \in Nat /\ phase \in 0 .. SlotTime - 1 /\ due \in BOOLEAN /\ head \in Nat \ {0}
  /\ blockNumber \in Nat /\ sinceUpdate \in 0 .. Validity /\ holder \in Callers \cup {Nobody}
  /\ epc \in [Callers -> Labels] /\ highest \in Nat
  /\ answer \in [Callers -> Nat] /\ waited \in [Callers -> 0 .. MaxLatency]
  /\ headAt \in [Callers -> Nat] /\ floor \in [Callers -> Nat]
  /\ age \in [Cancelled -> Nat \cup {Never}]
  /\ headThen \in [Cancelled -> Nat] /\ missedThen \in [Cancelled -> Int]

(***************************************************************************)
(* BlockNumber returns the block that was the latest one when it was       *)
(* called, the one before, or a later one that exists; in particular never *)
(* the initial 0.  This is what SendBundle and ValidateBundle rely on when *)
(* they compare a bundle's blocks with the number.  It holds as long as    *)
(* Validity + MaxLatency <= SlotTime - Jitter (EthClientAssumption), and   *)
(* no timeout in the code makes the node answer within MaxLatency.         *)
(***************************************************************************)
AnswersAreFresh ==
  \A c \in Callers : epc[c] = "return" => answer[c] \in headAt[c] - 1 .. head /\ answer[c] > 0

(***************************************************************************)
(* The chain never goes backwards for the users of the client: a call that *)
(* begins after another has returned gets no lower number, although the    *)
(* number is read without the lock.                                        *)
(***************************************************************************)
AnswersNeverDecrease ==
  \A c \in Callers : epc[c] = "return" => answer[c] >= floor[c]

(***************************************************************************)
(* A cancellation is found until Window - 1 of the blocks it is meant for  *)
(* have come, less one for every slot missed since: its lifetime counts    *)
(* seconds.  The last block of the window may come Jitter later in its     *)
(* slot than the first, so that this is one block less than the "30-block  *)
(* window" of main.go even when no slot is missed.                         *)
(***************************************************************************)
CancelledForBlocks ==
  \A h \in Cancelled :
    age[h] # Never /\ (head - headThen[h]) + (Missed - missedThen[h]) < Window - 1 => IsCancelled(h)

\* Every call of BlockNumber returns, although the lock is held during a
\* request to the node and every call that finds the number too old asks again.
CallsReturn == \A c \in Callers : epc[c] # "idle" ~> epc[c] = "idle"
=============================================================================
