----------------------------- MODULE TimersProofs ---------------------------
(***************************************************************************)
(* The cached block number is fresh and never goes back, and cancellations *)
(* last for their blocks, for every slot time, jitter, latency, validity   *)
(* that EthClientAssumption allows, every window and set of callers.       *)
(***************************************************************************)
EXTENDS Timers, TLAPS

USE ChainAssumption, EthClientAssumption, CancelAssumption

(***************************************************************************)
(* At least this long ago the latest block came: blocks are at least       *)
(* SlotTime - Jitter apart.                                                *)
(***************************************************************************)
BlockAge == IF due THEN phase + SlotTime - Jitter ELSE phase - Jitter

\* A number that was the latest block `ago` before now.
WasLatest(n, ago) == n = head \/ (n = head - 1 /\ ago >= BlockAge)

\* The block of a slot comes while the slot is young, and the lock excludes.
Timely == due => phase <= Jitter

Exclusive == \A c \in Callers : epc[c] \in Asking => holder = c

(***************************************************************************)
(* What the node said, and what was cached from it, is missing at most one *)
(* block: a second one would be Validity + MaxLatency younger.  Between    *)
(* Store and Unlock lastUpdate is that of the number before.               *)
(***************************************************************************)
AnswerSound ==
  \A c \in Callers : epc[c] \in {"answered", "stored"} => WasLatest(answer[c], waited[c])

CacheSound ==
  \/ sinceUpdate = Validity
  \/ \E c \in Callers : epc[c] = "stored"
  \/ WasLatest(blockNumber, sinceUpdate + MaxLatency)

\* The numbers in the order in which they were learnt.
Ordered ==
  /\ highest <= blockNumber /\ blockNumber <= head
  /\ sinceUpdate < Validity => blockNumber > 0
  /\ \A c \in Callers :
       /\ headAt[c] <= head /\ floor[c] <= highest
       /\ epc[c] \in {"read", "answered", "stored", "return"} =>
            /\ answer[c] > 0 /\ answer[c] <= head
            /\ answer[c] >= headAt[c] - 1 /\ answer[c] >= floor[c]
       /\ epc[c] \in {"read", "return"} => answer[c] <= blockNumber
       /\ epc[c] = "answered" => blockNumber <= answer[c]
       /\ epc[c] = "stored" => blockNumber = answer[c]

EthInv == TypeOK /\ Timely /\ Exclusive /\ AnswerSound /\ CacheSound /\ Ordered

(***************************************************************************)
(* The slots whose block had come or been missed when a bundle was         *)
(* cancelled.  The cancellation is no older than the time since the last   *)
(* of these slots began.                                                   *)
(***************************************************************************)
SettledThen(h) == headThen[h] - 1 + missedThen[h]

AgesBounded ==
  \A h \in Cancelled : age[h] # Never =>
    /\ SettledThen(h) <= slot /\ age[h] \in 0 .. Lifetime
    /\ age[h] <= (slot - SettledThen(h)) * SlotTime + phase

-----------------------------------------------------------------------------
\* Where the steps of a call are in Next.
LEMMA Steps ==
  Next <=> \/ \E c \in Callers : (BlockNumber(c) \/ Call(c)) /\ UNCHANGED <<chainVars, cancelVars>>
           \/ \E h \in Cancelled : Add(h) /\ UNCHANGED <<chainVars, ethVars>>
           \/ ChainStep \/ TimeStep
  BY DEF Next, CallStep

\* The types hold in every state.
LEMMA TypeInit == Init => TypeOK
<1> SUFFICES ASSUME Init PROVE TypeOK
  OBVIOUS
<1> USE DEF Init, ChainInit, EthInit, CancelInit
<1>1. due \in BOOLEAN
  BY Zenon
<1>2. slot \in Nat /\ phase \in 0 .. SlotTime - 1 /\ head \in Nat \ {0}
  OBVIOUS
<1>3. blockNumber \in Nat /\ sinceUpdate \in 0 .. Validity /\ highest \in Nat
  OBVIOUS
<1>4. /\ answer \in [Callers -> Nat] /\ waited \in [Callers -> 0 .. MaxLatency]
      /\ headAt \in [Callers -> Nat] /\ floor \in [Callers -> Nat]
  OBVIOUS
<1>5. holder \in Callers \cup {Nobody} /\ epc \in [Callers -> Labels]
  BY Zenon DEF Labels
<1>6. /\ age \in [Cancelled -> Nat \cup {Never}] /\ headThen \in [Cancelled -> Nat]
      /\ missedThen \in [Cancelled -> Int]
  OBVIOUS
<1> QED
  BY <1>1, <1>2, <1>3, <1>4, <1>5, <1>6, Zenon DEF TypeOK

\* Every step keeps the types.
LEMMA TypeStep == TypeOK /\ [Next]_vars => TypeOK'
<1> SUFFICES ASSUME TypeOK, [Next]_vars PROVE TypeOK'
  OBVIOUS
<1> USE DEF TypeOK
<1>1. ASSUME NEW c \in Callers, BlockNumber(c) \/ Call(c), UNCHANGED <<chainVars, cancelVars>>
      PROVE TypeOK'
  <2>0. UNCHANGED <<slot, phase, due, head, age, headThen, missedThen>>
    BY <1>1 DEF chainVars, cancelVars
  <2>1. CASE Call(c)
    BY <2>0, <2>1 DEF Call, Goto, Labels
  <2>2. CASE Check(c)
    BY <2>0, <2>2 DEF Check, Goto, Labels
  <2>3. CASE Read(c)
    BY <2>0, <2>3 DEF Read, Goto, Labels
  <2>4. CASE Lock(c)
    BY <2>0, <2>4 DEF Lock, Goto, Labels, Asking
  <2>5. CASE NodeAnswers(c)
    BY <2>0, <2>5 DEF NodeAnswers, Goto, Labels, Asking
  <2>6. CASE NodeFails(c)
    BY <2>0, <2>6 DEF NodeFails, Goto, Labels
  <2>7. CASE Store(c)
    BY <2>0, <2>7 DEF Store, Goto, Labels, Asking
  <2>8. CASE Unlock(c)
    BY <2>0, <2>8 DEF Unlock, Goto, Labels
  <2>9. CASE Return(c)
    BY <2>0, <2>9 DEF Return, Goto, Labels
  <2> QED
    BY <1>1, <2>1, <2>2, <2>3, <2>4, <2>5, <2>6, <2>7, <2>8, <2>9 DEF BlockNumber
<1>2. ASSUME NEW h \in Cancelled, Add(h), UNCHANGED <<chainVars, ethVars>>
      PROVE TypeOK'
  <2>1. Missed \in Int
    BY DEF Missed
  <2> QED
    BY <1>2, <2>1 DEF Add, chainVars, ethVars
<1>3. CASE ChainStep
  <2>1. UNCHANGED <<slot, phase>> /\ due' \in BOOLEAN /\ UNCHANGED <<ethVars, cancelVars>>
    BY <1>3, Zenon DEF ChainStep, NewBlock, MissSlot
  <2>2. head' \in Nat \ {0}
    BY <1>3 DEF ChainStep, NewBlock, MissSlot
  <2> QED
    BY <2>1, <2>2 DEF ethVars, cancelVars
<1>4. CASE TimeStep
  <2>1. UNCHANGED <<blockNumber, holder, epc, answer, headAt, highest, floor, head,
                  headThen, missedThen>>
    BY <1>4 DEF TimeStep, Tick, EthElapse, CancelElapse
  <2>2. slot' \in Nat /\ phase' \in 0 .. SlotTime - 1
    BY <1>4 DEF TimeStep, Tick
  <2>6. due' \in BOOLEAN
    BY <1>4, Zenon DEF TimeStep, Tick
  <2>3. sinceUpdate' \in 0 .. Validity
    BY <1>4 DEF TimeStep, EthElapse
  <2>4. waited' \in [Callers -> 0 .. MaxLatency]
    BY <1>4 DEF TimeStep, EthElapse
  <2>5. age' \in [Cancelled -> Nat \cup {Never}]
    <3>1. ASSUME NEW h \in Cancelled PROVE age'[h] \in Nat \cup {Never}
      BY <1>4 DEF TimeStep, CancelElapse, IsCancelled
    <3> QED
      BY <1>4, <3>1, Zenon DEF TimeStep, CancelElapse
  <2> QED
    BY <2>1, <2>2, <2>3, <2>4, <2>5, <2>6
<1>5. CASE UNCHANGED vars
  BY <1>5 DEF vars, chainVars, ethVars, cancelVars
<1> QED
  BY <1>1, <1>2, <1>3, <1>4, <1>5, Steps

\* A step of a call of BlockNumber keeps what is known of the numbers.
LEMMA CallKeeps ==
  ASSUME NEW c \in Callers, EthInv, TypeOK', BlockNumber(c) \/ Call(c), UNCHANGED chainVars
  PROVE  Exclusive' /\ AnswerSound' /\ CacheSound' /\ Ordered'
<1>0. UNCHANGED <<head, BlockAge>>
  BY Zenon DEF chainVars, BlockAge
<1> HIDE DEF BlockAge
<1>a. BlockAge \in Int
  BY DEF BlockAge, EthInv, TypeOK
<1>b. head \in Nat \ {0} /\ blockNumber \in Nat /\ sinceUpdate \in 0 .. Validity /\ highest \in Nat
  BY DEF EthInv, TypeOK
<1>c. /\ epc \in [Callers -> Labels] /\ answer \in [Callers -> Nat]
      /\ waited \in [Callers -> 0 .. MaxLatency]
      /\ headAt \in [Callers -> Nat] /\ floor \in [Callers -> Nat]
  BY DEF EthInv, TypeOK
<1> USE <1>0, <1>a, <1>b, <1>c DEF EthInv, Exclusive, AnswerSound, CacheSound, Ordered, WasLatest, Goto, Asking
<1>1. CASE Call(c)
  BY <1>1 DEF Call
<1>2. CASE Check(c)
  BY <1>2 DEF Check, Valid
<1>3. CASE Read(c)
  BY <1>3 DEF Read
<1>4. CASE Lock(c)
  BY <1>4 DEF Lock
<1>5. CASE NodeAnswers(c)
  BY <1>5 DEF NodeAnswers
<1>6. CASE NodeFails(c)
  BY <1>6 DEF NodeFails
<1>7. CASE Store(c)
  BY <1>7 DEF Store
<1>8. CASE Unlock(c)
  BY <1>8 DEF Unlock
<1>9. CASE Return(c)
  BY <1>9 DEF Return
<1> QED
  BY <1>1, <1>2, <1>3, <1>4, <1>5, <1>6, <1>7, <1>8, <1>9 DEF BlockNumber

\* A block keeps it too, since the number learnt before the last one is by now too old.
LEMMA BlockKeeps ==
  ASSUME EthInv, ChainStep
  PROVE  Timely' /\ Exclusive' /\ AnswerSound' /\ CacheSound' /\ Ordered'
<1>0. UNCHANGED <<phase, ethVars>> /\ due /\ ~due'
  BY Zenon DEF ChainStep, NewBlock, MissSlot
<1>1. BlockAge >= SlotTime - Jitter /\ BlockAge' <= 0 /\ BlockAge' \in Int /\ BlockAge \in Int
  <2>1. BlockAge = phase + SlotTime - Jitter /\ BlockAge' = phase - Jitter
    BY <1>0, Zenon DEF BlockAge
  <2>2. phase \in 0 .. SlotTime - 1 /\ phase <= Jitter
    BY <1>0, Zenon DEF EthInv, TypeOK, Timely
  <2> QED
    BY <2>1, <2>2
<1>2. head' = head \/ head' = head + 1
  BY DEF ChainStep, NewBlock, MissSlot
<1>3. Timely'
  BY <1>0, Zenon DEF Timely
<1> HIDE DEF BlockAge
<1>4. Exclusive' /\ AnswerSound' /\ CacheSound' /\ Ordered'
  BY <1>0, <1>1, <1>2
  DEF EthInv, TypeOK, Exclusive, AnswerSound, CacheSound, Ordered, WasLatest, ethVars, Asking
<1> QED
  BY <1>3, <1>4

\* Time that passes ages the numbers and the latest block alike.
LEMMA TimeKeeps ==
  ASSUME EthInv, TimeStep
  PROVE  Timely' /\ Exclusive' /\ AnswerSound' /\ CacheSound' /\ Ordered'
<1>0. EthElapse /\ UNCHANGED head
  BY DEF TimeStep, Tick
<1>1. BlockAge' = BlockAge + 1 /\ BlockAge \in Int
  BY DEF TimeStep, Tick, BlockAge, EthInv, TypeOK
<1>2. Timely'
  <2>1. (phase' = phase + 1 /\ due' = due /\ (due => phase < Jitter)) \/ phase' = 0
    BY Zenon DEF TimeStep, Tick
  <2>2. phase \in Nat
    BY DEF EthInv, TypeOK
  <2>3. ASSUME due' PROVE phase' <= Jitter
    <3>1. (phase' = phase + 1 /\ phase < Jitter) \/ phase' = 0
      BY <2>1, <2>3, Zenon
    <3> QED
      BY <2>2, <3>1
  <2> QED
    BY <2>3, Zenon DEF Timely
<1> HIDE DEF BlockAge
<1>3. Exclusive' /\ AnswerSound' /\ CacheSound' /\ Ordered'
  BY <1>0, <1>1
  DEF EthInv, TypeOK, EthElapse, Exclusive, AnswerSound, CacheSound, Ordered, WasLatest, Asking
<1> QED
  BY <1>2, <1>3
\* The invariant is inductive.
LEMMA Invariant == Spec => []EthInv
<1>1. Init => EthInv
  <2> SUFFICES ASSUME Init PROVE EthInv
    OBVIOUS
  <2> USE DEF Init, ChainInit, EthInit, CancelInit
  <2>1. TypeOK
    BY TypeInit
  <2>2. Timely /\ Exclusive /\ AnswerSound /\ CacheSound
    BY DEF Timely, Exclusive, AnswerSound, CacheSound, Asking
  <2>3. Ordered
    BY DEF Ordered
  <2> QED
    BY <2>1, <2>2, <2>3 DEF EthInv
<1>2. EthInv /\ [Next]_vars => EthInv'
  <2> SUFFICES ASSUME EthInv, [Next]_vars PROVE EthInv'
    OBVIOUS
  <2>0. TypeOK'
    BY TypeStep DEF EthInv
  <2>1. ASSUME NEW c \in Callers, BlockNumber(c) \/ Call(c), UNCHANGED <<chainVars, cancelVars>>
        PROVE EthInv'
    <3>1. Exclusive' /\ AnswerSound' /\ CacheSound' /\ Ordered'
      BY <2>0, <2>1, CallKeeps
    <3>2. Timely'
      BY <2>1, Zenon DEF Timely, EthInv, chainVars
    <3> QED
      BY <2>0, <3>1, <3>2 DEF EthInv
  <2>2. CASE ChainStep
    BY <2>0, <2>2, BlockKeeps DEF EthInv
  <2>3. CASE TimeStep
    BY <2>0, <2>3, TimeKeeps DEF EthInv
  <2>4. ASSUME UNCHANGED <<chainVars, ethVars>> PROVE EthInv'
    BY <2>0, <2>4, Zenon
    DEF EthInv, Timely, Exclusive, AnswerSound, CacheSound, Ordered, WasLatest, BlockAge,
        chainVars, ethVars
  <2> QED
    BY <2>1, <2>2, <2>3, <2>4, Steps DEF vars
<1> QED
  BY <1>1, <1>2, PTL DEF Spec

\* The numbers that BlockNumber returns exist, and are at most one block
\* behind the chain at the call.
THEOREM FreshHolds == Spec => []AnswersAreFresh
<1>1. EthInv => AnswersAreFresh
  BY DEF EthInv, TypeOK, Ordered, AnswersAreFresh
<1> QED
  BY <1>1, Invariant, PTL

\* They never go back from one call to a later one.
THEOREM NeverDecreaseHolds == Spec => []AnswersNeverDecrease
<1>1. EthInv => AnswersNeverDecrease
  BY DEF EthInv, Ordered, AnswersNeverDecrease
<1> QED
  BY <1>1, Invariant, PTL

(***************************************************************************)
(* The cancellation cache keeps every bundle until Window - 1 slots after  *)
(* its cancellation have had their block or missed it: no entry is older   *)
(* than the slots that began since, and those are SlotTime each.           *)
(***************************************************************************)
THEOREM CancellationsHold == Spec => []CancelledForBlocks
<1>0. /\ Lifetime \in Nat
      /\ \A n \in Int : (n + 1) * SlotTime = n * SlotTime + SlotTime
      /\ \A n \in Int : n < Window => n * SlotTime + SlotTime <= Lifetime
  BY DEF Lifetime
<1>a. \A n \in Nat : n * SlotTime >= 0 /\ n * SlotTime \in Int
  OBVIOUS
<1>1. Init => TypeOK /\ AgesBounded
  BY TypeInit DEF Init, CancelInit, AgesBounded
<1>2. TypeOK /\ AgesBounded /\ [Next]_vars => TypeOK' /\ AgesBounded'
  <2> SUFFICES ASSUME TypeOK, AgesBounded, [Next]_vars PROVE AgesBounded'
    BY TypeStep
  <2>0. TypeOK'
    BY TypeStep
  <2> USE DEF TypeOK, AgesBounded
  <2>1. ASSUME UNCHANGED <<slot, phase, cancelVars>> PROVE AgesBounded'
    BY <2>1 DEF cancelVars, Lifetime, SettledThen
  <2>2. ASSUME NEW h \in Cancelled, Add(h), UNCHANGED chainVars PROVE AgesBounded'
    <3>1. ASSUME NEW g \in Cancelled, g # h
          PROVE  age'[g] = age[g] /\ SettledThen(g)' = SettledThen(g)
      BY <2>2, <3>1 DEF Add, SettledThen
    <3>2. age'[h] = 0 /\ SettledThen(h)' = IF due THEN slot - 1 ELSE slot
      BY <2>2 DEF Add, SettledThen, Missed
    <3>3. slot - SettledThen(h)' \in Nat /\ SettledThen(h)' <= slot
      BY <3>2
    <3>4. slot' = slot /\ phase' = phase /\ phase \in Nat
      BY <2>2 DEF chainVars
    <3>5. (slot - SettledThen(h)') * SlotTime >= 0 /\ (slot - SettledThen(h)') * SlotTime \in Int
      BY <1>a, <3>3
    <3>6. age'[h] <= (slot' - SettledThen(h)') * SlotTime + phase' /\ age'[h] \in 0 .. Lifetime'
      BY <1>0, <3>2, <3>4, <3>5 DEF Lifetime
    <3> QED
      BY <1>0, <3>1, <3>3, <3>4, <3>6 DEF Lifetime
  <2>3. CASE TimeStep
    <3> SUFFICES ASSUME NEW h \in Cancelled, age'[h] # Never
                 PROVE  /\ SettledThen(h)' <= slot' /\ age'[h] \in 0 .. Lifetime
                        /\ age'[h] <= (slot' - SettledThen(h)') * SlotTime + phase'
      BY DEF Lifetime
    <3>1. age[h] # Never /\ age'[h] \in {age[h], age[h] + 1} \cap 0 .. Lifetime
      BY <1>0, <2>3 DEF TimeStep, CancelElapse, IsCancelled
    <3>5. SettledThen(h)' = SettledThen(h) /\ SettledThen(h) \in Int
      BY <2>3 DEF TimeStep, CancelElapse, SettledThen
    <3> DEFINE n == slot - SettledThen(h)
    <3>2. \/ slot' = slot /\ phase' = phase + 1
          \/ slot' = slot + 1 /\ phase' = 0 /\ phase + 1 = SlotTime
      BY <2>3 DEF TimeStep, Tick
    <3>3. n \in Int /\ n * SlotTime \in Int /\ (n + 1) * SlotTime = n * SlotTime + SlotTime
      BY <1>0, <3>5
    <3>4. (slot' = slot /\ slot' - SettledThen(h)' = n) \/ (slot' = slot + 1 /\ slot' - SettledThen(h)' = n + 1)
      BY <3>2, <3>5
    <3> QED
      BY <3>1, <3>2, <3>3, <3>4, <3>5
  <2> QED
    BY <2>1, <2>2, <2>3, Steps DEF vars, chainVars, ChainStep, NewBlock, MissSlot
<1>3. TypeOK /\ AgesBounded => CancelledForBlocks
  <2> SUFFICES ASSUME TypeOK, AgesBounded, NEW h \in Cancelled, age[h] # Never,
                      (head - headThen[h]) + (Missed - missedThen[h]) < Window - 1
               PROVE  IsCancelled(h)
    BY DEF CancelledForBlocks
  <2> DEFINE n == slot - SettledThen(h)
  <2>0. n \in Int /\ n < Window
    BY DEF TypeOK, SettledThen, Missed
  <2>2. age[h] <= n * SlotTime + phase /\ phase < SlotTime /\ phase \in Nat /\ age[h] \in Nat
    BY DEF TypeOK, AgesBounded
  <2> HIDE DEF n
  <2>1. n * SlotTime \in Int /\ n * SlotTime + SlotTime <= Lifetime
    BY <1>0, <2>0
  <2>3. age[h] < Lifetime /\ age[h] # Never
    BY <1>0, <2>1, <2>2
  <2> QED
    BY <2>3 DEF IsCancelled
<1> QED
  BY <1>1, <1>2, <1>3, PTL DEF Spec
=============================================================================
