------------------------------ MODULE EthClient -----------------------------
(***************************************************************************)
(* EthCachingClient of mevshare/utils.go: the block number that the API    *)
(* validates bundles with, asked for by concurrent requests and kept for   *)
(* five seconds.  The read lock is released before the number is read, and *)
(* the write lock is held while the node is asked.                         *)
(***************************************************************************)
EXTENDS Chain

CONSTANTS
  Callers,
  Validity,     \* 5 seconds
  MaxLatency    \* how long the Ethereum node takes to answer

Nobody == "nobody"

ASSUME EthClientAssumption ==
  /\ Validity \in Nat \ {0} /\ MaxLatency \in Nat
  /\ Validity + MaxLatency <= SlotTime - Jitter
  /\ Nobody \notin Callers

VARIABLES
  blockNumber,
  sinceUpdate,  \* the time since lastUpdate, up to Validity
  holder,       \* who has the write lock
  epc,          \* where each call is
  answer,       \* the number each call is about to use or to return
  waited,       \* how long the node has been asked
  \* History variables, read by the properties only.
  headAt,       \* the latest block when the call came
  highest,      \* the highest number returned so far
  floor         \* what highest was when the call came

ethVars == <<blockNumber, sinceUpdate, holder, epc, answer, waited, headAt, highest, floor>>

\* NewCachingEthClient: the number is older than it may be.
EthInit ==
  /\ blockNumber = 0 /\ sinceUpdate = Validity
  /\ holder = Nobody
  /\ epc = [c \in Callers |-> "idle"]
  /\ answer = [c \in Callers |-> 0] /\ waited = [c \in Callers |-> 0]
  /\ headAt = [c \in Callers |-> 0] /\ floor = [c \in Callers |-> 0]
  /\ highest = 0

Goto(c, label) == epc' = [epc EXCEPT ![c] = label]

\* BlockNumber is called.
Call(c) ==
  /\ epc[c] = "idle"
  /\ Goto(c, "rlock")
  /\ headAt' = [headAt EXCEPT ![c] = head] /\ floor' = [floor EXCEPT ![c] = highest]
  /\ UNCHANGED <<blockNumber, sinceUpdate, holder, answer, waited, highest>>

Valid_Always == blockNumber # 0
Valid == sinceUpdate < Validity

\* The look at lastUpdate under the read lock.
Check(c) ==
  /\ epc[c] = "rlock" /\ holder = Nobody
  /\ Goto(c, IF Valid THEN "read" ELSE "lock")
  /\ answer' = [answer EXCEPT ![c] = IF Valid THEN blockNumber ELSE 0]
  /\ UNCHANGED <<blockNumber, sinceUpdate, holder, waited, headAt, highest, floor>>

\* The number is read without a lock: the one under the check, or a later one.
Read(c) ==
  /\ epc[c] = "read"
  /\ \E n \in {answer[c], blockNumber} : answer' = [answer EXCEPT ![c] = n]
  /\ Goto(c, "return")
  /\ UNCHANGED <<blockNumber, sinceUpdate, holder, waited, headAt, highest, floor>>

Lock_Shared(c) ==
  /\ epc[c] = "lock"
  /\ Goto(c, "asked")
  /\ UNCHANGED <<blockNumber, sinceUpdate, holder, answer, waited, headAt, highest, floor>>

\* The write lock is taken and the node asked, without another look at lastUpdate.
Lock(c) ==
  /\ epc[c] = "lock" /\ holder = Nobody
  /\ holder' = c
  /\ Goto(c, "asked")
  /\ UNCHANGED <<blockNumber, sinceUpdate, answer, waited, headAt, highest, floor>>

\* The node looks at its chain, or fails; the answer takes time to come back.
NodeAnswers(c) ==
  /\ epc[c] = "asked"
  /\ answer' = [answer EXCEPT ![c] = head]
  /\ Goto(c, "answered")
  /\ UNCHANGED <<blockNumber, sinceUpdate, holder, waited, headAt, highest, floor>>

NodeFails_KeepsLock(c) ==
  /\ epc[c] = "asked"
  /\ Goto(c, "idle")
  /\ UNCHANGED <<blockNumber, sinceUpdate, holder, answer, waited, headAt, highest, floor>>

NodeFails(c) ==
  /\ epc[c] = "asked"
  /\ holder' = Nobody
  /\ waited' = [waited EXCEPT ![c] = 0]
  /\ headAt' = [headAt EXCEPT ![c] = 0] /\ floor' = [floor EXCEPT ![c] = 0]
  /\ Goto(c, "idle")
  /\ UNCHANGED <<blockNumber, sinceUpdate, answer, highest>>

Store(c) ==
  /\ epc[c] = "answered"
  /\ blockNumber' = answer[c]
  /\ Goto(c, "stored")
  /\ UNCHANGED <<sinceUpdate, holder, answer, waited, headAt, highest, floor>>

Unlock(c) ==
  /\ epc[c] = "stored"
  /\ sinceUpdate' = 0
  /\ holder' = Nobody
  /\ waited' = [waited EXCEPT ![c] = 0]
  /\ Goto(c, "return")
  /\ UNCHANGED <<blockNumber, answer, headAt, highest, floor>>

Return(c) ==
  /\ epc[c] = "return"
  /\ highest' = IF answer[c] > highest THEN answer[c] ELSE highest
  /\ answer' = [answer EXCEPT ![c] = 0]
  /\ headAt' = [headAt EXCEPT ![c] = 0] /\ floor' = [floor EXCEPT ![c] = 0]
  /\ Goto(c, "idle")
  /\ UNCHANGED <<blockNumber, sinceUpdate, holder, waited>>

\* The rest of a call.
BlockNumber(c) ==
  \/ Check(c) \/ Read(c) \/ Lock(c) \/ NodeAnswers(c) \/ NodeFails(c)
  \/ Store(c) \/ Unlock(c) \/ Return(c)

\* Time passes; the node has answered within MaxLatency.
Asking == {"asked", "answered", "stored"}

EthElapse ==
  /\ \A c \in Callers : epc[c] \in Asking => waited[c] < MaxLatency
  /\ sinceUpdate' = IF sinceUpdate < Validity THEN sinceUpdate + 1 ELSE sinceUpdate
  /\ waited' = [c \in Callers |-> IF epc[c] \in Asking THEN waited[c] + 1 ELSE waited[c]]
  /\ UNCHANGED <<blockNumber, holder, epc, answer, headAt, highest, floor>>
=============================================================================
