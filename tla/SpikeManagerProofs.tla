------------------------- MODULE SpikeManagerProofs -------------------------
(***************************************************************************)
(* Type correctness and single flight of the spike manager, that no task   *)
(* is lost or answered twice, and that reads are monotone, for any calls,  *)
(* keys and length of the channel.                                         *)
(***************************************************************************)
EXTENDS SpikeManager, SequenceTheorems, WellFoundedInduction, TLAPS

\* A goroutine that is fetching has its key in currentlyExecuted.
ActiveIsExecuting == \A c \in Calls : fetcher[c] \in Active => key[c] \in executing

FlightInv == ActiveIsExecuting /\ SingleFlight

\* What a goroutine is about to store is a version.
StoresVersions == \A c \in Calls : fetcher[c] = "fetched" => fetched[c] \in Versions

(***************************************************************************)
(* The lists of waiting channels keep their type when a call joins one,    *)
(* and when the list of a key is replaced.                                 *)
(***************************************************************************)
LEMMA JoinType ==
  ASSUME NEW W \in [Keys -> [Calls -> Nat]], NEW k \in Keys, NEW c \in Calls
  PROVE  [W EXCEPT ![k][c] = @ + 1] \in [Keys -> [Calls -> Nat]]
<1>1. [W[k] EXCEPT ![c] = @ + 1] \in [Calls -> Nat]
  BY SMT, SMTT(30)
<1> QED
  BY <1>1

\* A list that changes keeps the type of the lists.
LEMMA ListType ==
  ASSUME NEW W \in [Keys -> [Calls -> Nat]], NEW k \in Keys, NEW L \in [Calls -> Nat]
  PROVE  [W EXCEPT ![k] = L] \in [Keys -> [Calls -> Nat]]
OBVIOUS

\* A send on a result channel keeps the types of the channels.
LEMMA SendType ==
  ASSUME TypeOK, NEW c \in Calls, NEW v \in Results, Send(c, v)
  PROVE  sent' \in [Calls -> Nat] /\ answer' \in [Calls -> Results]
BY DEF TypeOK, Send

(***************************************************************************)
(* The variables keep their types through every step of the calls, of the  *)
(* loop and of the goroutines.                                             *)
(***************************************************************************)
THEOREM TypeCorrect == Spec => []TypeOK
<1> DEFINE Inv == TypeOK /\ StoresVersions
<1>1. Init => Inv
  BY SpikeAssumption, SMT, SMTT(30)
     DEF Init, TypeOK, StoresVersions, Results, Versions, None, Error, SpikeAssumption
<1>2. Inv /\ [Next]_vars => Inv'
  <2> SUFFICES ASSUME Inv, [Next]_vars PROVE Inv'
    OBVIOUS
  <2> USE SpikeAssumption DEF TypeOK, StoresVersions, SpikeAssumption
  <2>1. ASSUME NEW c \in Calls, GetCached(c) PROVE Inv'
    BY <2>1, Zenon DEF GetCached, Return, Results, execVars, cacheVars, chanVars
  <2>2. ASSUME NEW c \in Calls, Enqueue(c) PROVE Inv'
    <3>1. taskQueue' \in Seq(Calls) /\ Len(taskQueue') <= taskQueueLen
      BY <2>2, SMT, SMTT(30) DEF Enqueue
    <3> QED
      BY <2>2, <3>1 DEF Enqueue, execVars, cacheVars, chanVars
  <2>3. ASSUME NEW c \in Calls, Receive(c) \/ GiveUp(c) PROVE Inv'
    BY <2>3, Zenon DEF Receive, GiveUp, Return, Results, execVars, cacheVars, chanVars
  <2>4. ASSUME LoopReceive PROVE Inv'
    <3>1. Head(taskQueue) \in Calls /\ Tail(taskQueue) \in Seq(Calls)
             /\ Len(Tail(taskQueue)) = Len(taskQueue) - 1
      BY <2>4, SMT, SMTT(30) DEF LoopReceive
    <3>2. loop' \in Seq(Calls) /\ Len(loop') = 1
      BY <2>4, <3>1, SMT, SMTT(30) DEF LoopReceive
    <3>3. taskQueue' \in Seq(Calls) /\ Len(taskQueue') <= taskQueueLen
      BY <2>4, <3>1, SMT, SMTT(30) DEF LoopReceive
    <3>4. UNCHANGED <<callVars, execVars, cacheVars, chanVars>>
      BY <2>4 DEF LoopReceive
    <3> QED
      BY <3>2, <3>3, <3>4, SMT, SMTT(30) DEF callVars, execVars, cacheVars, chanVars
  <2>5. ASSUME LoopHandle PROVE Inv'
    <3> DEFINE c == loop[1]
    <3>1. c \in Calls /\ key[c] \in Keys /\ cache[key[c]] \in Results
      BY <2>5, SMT, SMTT(30) DEF LoopHandle, Results
    <3>2. waiters' \in [Keys -> [Calls -> Nat]]
      <4>1. [waiters EXCEPT ![key[c]][c] = @ + 1] \in [Keys -> [Calls -> Nat]]
        BY <3>1, JoinType
      <4> QED
        BY <2>5, <4>1, Zenon DEF LoopHandle, Join
    <3>3. sent' \in [Calls -> Nat] /\ answer' \in [Calls -> Results]
      BY <2>5, <3>1, SendType DEF LoopHandle, chanVars
    <3>4. /\ fetcher' \in [Calls -> Active \cup {"none", "start", "done"}]
          /\ \A d \in Calls : fetcher'[d] = "fetched" => fetcher[d] = "fetched"
      BY <2>5, <3>1, Zenon DEF LoopHandle
    <3>5. loop' \in Seq(Calls) /\ Len(loop') <= 1
      BY <2>5, SMT, SMTT(30) DEF LoopHandle
    <3>6. UNCHANGED <<key, pc, result, taskQueue, fetched, executing, cache, upstream>>
      BY <2>5 DEF LoopHandle, callVars, cacheVars
    <3> QED
      BY <3>2, <3>3, <3>4, <3>5, <3>6
  <2>6. ASSUME NEW c \in Calls, StartFetch(c) PROVE Inv'
    <3> DEFINE L == [d \in Calls |-> IF d = c THEN 1 ELSE 0]
    <3>1. key[c] \in Keys /\ cache[key[c]] \in Results /\ L \in [Calls -> Nat]
      BY DEF Results
    <3>2. waiters' \in [Keys -> [Calls -> Nat]]
      <4>1. [waiters EXCEPT ![key[c]][c] = @ + 1] \in [Keys -> [Calls -> Nat]]
        BY <3>1, JoinType
      <4>2. [waiters EXCEPT ![key[c]] = L] \in [Keys -> [Calls -> Nat]]
        BY <3>1, ListType
      <4> QED
        BY <2>6, <4>1, <4>2, Zenon DEF StartFetch, Join
    <3>3. sent' \in [Calls -> Nat] /\ answer' \in [Calls -> Results]
      BY <2>6, <3>1, SendType, Zenon DEF StartFetch, chanVars
    <3>4. /\ fetcher' \in [Calls -> Active \cup {"none", "start", "done"}]
          /\ \A d \in Calls : fetcher'[d] = "fetched" => fetcher[d] = "fetched"
      BY <2>6, Zenon DEF StartFetch, Active
    <3>5. executing' \subseteq Keys
      BY <2>6, <3>1, SMT, SMTT(30) DEF StartFetch
    <3>6. UNCHANGED <<key, pc, result, taskQueue, loop, fetched, cache, upstream>>
      BY <2>6 DEF StartFetch, callVars, cacheVars
    <3> QED
      BY <3>2, <3>3, <3>4, <3>5, <3>6
  <2>7. ASSUME NEW c \in Calls, Fetch(c) PROVE Inv'
    <3>1. upstream[key[c]] \in Versions
      OBVIOUS
    <3>2. /\ fetcher' \in [Calls -> Active \cup {"none", "start", "done"}]
          /\ fetched' \in [Calls -> Results]
          /\ \A d \in Calls : fetcher'[d] = "fetched" => fetched'[d] \in Versions
      BY <2>7, <3>1, Zenon DEF Fetch, Active, Results
    <3> QED
      BY <2>7, <3>2 DEF Fetch, callVars, cacheVars, chanVars
  <2>8. ASSUME NEW c \in Calls, Deliver(c) PROVE Inv'
    <3> DEFINE L == [d \in Calls |-> 0]
    <3>1. key[c] \in Keys /\ L \in [Calls -> Nat] /\ waiters[key[c]] \in [Calls -> Nat]
      OBVIOUS
    <3>2. waiters' \in [Keys -> [Calls -> Nat]]
      BY <2>8, <3>1, ListType DEF Deliver
    <3>3. sent' \in [Calls -> Nat] /\ answer' \in [Calls -> Results]
      BY <2>8, <3>1, SMT, SMTT(30) DEF Deliver
    <3>4. /\ fetcher' \in [Calls -> Active \cup {"none", "start", "done"}]
          /\ \A d \in Calls : fetcher'[d] = "fetched" => fetcher[d] = "fetched"
      BY <2>8 DEF Deliver
    <3>5. executing' \subseteq Keys
      BY <2>8 DEF Deliver
    <3>6. UNCHANGED <<key, pc, result, taskQueue, loop, fetched, cache, upstream>>
      BY <2>8 DEF Deliver, callVars, cacheVars
    <3> QED
      BY <3>2, <3>3, <3>4, <3>5, <3>6
  <2>9. ASSUME NEW c \in Calls, Set(c) PROVE Inv'
    <3>1. cache' \in [Keys -> Versions \cup {None}]
      BY <2>9 DEF Set
    <3>2. /\ fetcher' \in [Calls -> Active \cup {"none", "start", "done"}]
          /\ \A d \in Calls : fetcher'[d] = "fetched" => fetcher[d] = "fetched"
      BY <2>9 DEF Set, Active
    <3> QED
      BY <2>9, <3>1, <3>2 DEF Set, callVars, chanVars
  <2>10. ASSUME NEW k \in Keys, Expire(k) PROVE Inv'
    BY <2>10 DEF Expire, callVars, execVars, chanVars
  <2>11. ASSUME NEW k \in Keys, Change(k) PROVE Inv'
    <3>1. upstream' \in [Keys -> Versions]
      BY <2>11, SMT, SMTT(30) DEF Change, Versions
    <3> QED
      BY <2>11, <3>1 DEF Change, callVars, execVars, chanVars
  <2>12. CASE UNCHANGED vars
    BY <2>12 DEF vars, callVars, execVars, cacheVars, chanVars
  <2> QED
    BY <2>1, <2>2, <2>3, <2>4, <2>5, <2>6, <2>7, <2>8, <2>9, <2>10, <2>11, <2>12, Zenon
    DEF Next, FetchStep
<1> QED
  BY <1>1, <1>2, PTL DEF Spec

(***************************************************************************)
(* Steps other than those of a fetch keep the set of fetching goroutines   *)
(* and currentlyExecuted as they are.                                      *)
(***************************************************************************)
LEMMA FlightStep ==
  ASSUME TypeOK, FlightInv, [Next]_vars
  PROVE  FlightInv'
<1> USE DEF TypeOK, FlightInv, ActiveIsExecuting, SingleFlight
<1>1. CASE \E c \in Calls : GetCached(c) \/ Enqueue(c) \/ Receive(c) \/ GiveUp(c)
  BY <1>1, Zenon DEF GetCached, Enqueue, Receive, GiveUp, execVars
<1>2. CASE LoopReceive
  BY <1>2 DEF LoopReceive, callVars, execVars
<1>3. CASE LoopHandle
  <2>1. loop[1] \in Calls
    BY <1>3, SMT, SMTT(30) DEF LoopHandle
  <2>2. /\ key' = key /\ executing' = executing
        /\ \A c \in Calls : fetcher'[c] \in Active => fetcher[c] \in Active
    BY <1>3, <2>1 DEF LoopHandle, callVars, Active
  <2> QED
    BY <2>2
<1>4. ASSUME NEW c \in Calls, StartFetch(c) PROVE FlightInv'
  <2>1. key' = key
    BY <1>4 DEF StartFetch, callVars
  <2>2. CASE fetcher' = [fetcher EXCEPT ![c] = "done"] /\ executing' = executing
    BY <2>1, <2>2, Zenon DEF Active
  <2>3. CASE /\ key[c] \notin executing
             /\ fetcher' = [fetcher EXCEPT ![c] = "fetching"]
             /\ executing' = executing \cup {key[c]}
    <3>1. \A d \in Calls \ {c} : fetcher'[d] = fetcher[d]
                                 /\ (fetcher[d] \in Active => key[d] # key[c])
      BY <2>3
    <3> QED
      BY <2>1, <2>3, <3>1
  <2> QED
    BY <1>4, <2>2, <2>3 DEF StartFetch
<1>5. ASSUME NEW c \in Calls, Fetch(c) \/ Set(c) PROVE FlightInv'
  <2>1. /\ key' = key /\ executing' = executing
        /\ \A d \in Calls : fetcher'[d] \in Active => fetcher[d] \in Active
    BY <1>5 DEF Fetch, Set, callVars, Active
  <2> QED
    BY <2>1
<1>6. ASSUME NEW c \in Calls, Deliver(c) PROVE FlightInv'
  <2>1. /\ key' = key /\ executing' = executing \ {key[c]}
        /\ fetcher[c] \in Active /\ fetcher'[c] \notin Active
        /\ \A d \in Calls \ {c} : fetcher'[d] = fetcher[d]
    BY <1>6 DEF Deliver, callVars, Active
  <2>2. \A d \in Calls : fetcher'[d] \in Active => d # c /\ fetcher[d] \in Active /\ key[d] # key[c]
    BY <2>1
  <2> QED
    BY <2>1, <2>2, Zenon
<1>7. CASE \E k \in Keys : Expire(k) \/ Change(k)
  BY <1>7 DEF Expire, Change, callVars, execVars
<1>8. CASE UNCHANGED vars
  BY <1>8 DEF vars, callVars, execVars
<1> QED
  BY <1>1, <1>2, <1>3, <1>4, <1>5, <1>6, <1>7, <1>8, Zenon DEF Next, FetchStep

(***************************************************************************)
(* At most one Fetch for a key is under way: the goroutine that the loop   *)
(* starts looks into the cache and currentlyExecuted again with m.mu       *)
(* locked before it registers its key.                                     *)
(***************************************************************************)
THEOREM OneFetchPerKey == Spec => []SingleFlight
<1>1. Init => FlightInv
  BY DEF Init, FlightInv, ActiveIsExecuting, SingleFlight, Active
<1>2. TypeOK /\ FlightInv /\ [Next]_vars => FlightInv'
  BY FlightStep
<1>3. FlightInv => SingleFlight
  BY DEF FlightInv
<1> QED
  BY <1>1, <1>2, <1>3, TypeCorrect, PTL DEF Spec

-----------------------------------------------------------------------------
(***************************************************************************)
(* Where the task of a call is, one predicate for each field of Places.    *)
(***************************************************************************)
InQueue(c)  == \E i \in 1 .. Len(taskQueue) : taskQueue[i] = c
InLoop(c)   == loop = <<c>>
Starting(c) == fetcher[c] = "start"
Joined(c)   == waiters[key[c]][c] > 0
Answered(c) == sent[c] > 0

Nowhere(c) == ~InQueue(c) /\ ~InLoop(c) /\ ~Starting(c) /\ ~Joined(c) /\ ~Answered(c)

AtMostOnePlace(c) ==
  /\ InQueue(c) => ~InLoop(c) /\ ~Starting(c) /\ ~Joined(c) /\ ~Answered(c)
  /\ InLoop(c) => ~Starting(c) /\ ~Joined(c) /\ ~Answered(c)
  /\ Starting(c) => ~Joined(c) /\ ~Answered(c)
  /\ Joined(c) => ~Answered(c)

\* A task is in the channel once, and a call that has not sent it has none.
TasksDistinct ==
  /\ \A i, j \in 1 .. Len(taskQueue) : taskQueue[i] = taskQueue[j] => i = j
  /\ \A c \in Calls : pc[c] \in {"new", "enqueue"} => Nowhere(c)
  /\ \A c \in Calls : pc[c] = "wait" => ~Nowhere(c)
  /\ \A c \in Calls : AtMostOnePlace(c)

\* A list of channels exists for the keys of currentlyExecuted only, and has
\* the channel of a call for the key at most once.
ListsSound ==
  /\ \A k \in Keys, c \in Calls : waiters[k][c] > 0 => k = key[c] /\ k \in executing
  /\ \A c \in Calls : waiters[key[c]][c] <= 1

TaskInv == TasksDistinct /\ ListsSound /\ FlightInv

\* The send of a task adds it, and no other, to the channel.
LEMMA EnqueuePlaces ==
  ASSUME TypeOK, NEW c \in Calls, taskQueue' = Append(taskQueue, c), ~InQueue(c),
         \A i, j \in 1 .. Len(taskQueue) : taskQueue[i] = taskQueue[j] => i = j
  PROVE  /\ \A i, j \in 1 .. Len(taskQueue') : taskQueue'[i] = taskQueue'[j] => i = j
         /\ \A d \in Calls : InQueue(d)' <=> InQueue(d) \/ d = c
<1>1. /\ Len(taskQueue') = Len(taskQueue) + 1
      /\ \A i \in 1 .. Len(taskQueue) : taskQueue'[i] = taskQueue[i]
      /\ taskQueue'[Len(taskQueue) + 1] = c
  BY SMT, SMTT(30) DEF TypeOK
<1>2. /\ Len(taskQueue) \in Nat
      /\ \A i \in 1 .. Len(taskQueue) : taskQueue[i] # c
  <2>1. Len(taskQueue) \in Nat
    BY SMT, SMTT(30) DEF TypeOK
  <2> QED
    BY <2>1, Zenon DEF InQueue
<1>3. \A i, j \in 1 .. Len(taskQueue') : taskQueue'[i] = taskQueue'[j] => i = j
  BY <1>1, <1>2, SMT, SMTT(30)
<1>4. \A d \in Calls : InQueue(d)' <=> InQueue(d) \/ d = c
  <2> SUFFICES ASSUME NEW d \in Calls PROVE InQueue(d)' <=> InQueue(d) \/ d = c
    OBVIOUS
  <2>1. InQueue(d) => InQueue(d)'
    BY <1>1, <1>2, SMT, SMTT(30) DEF InQueue
  <2>2. d = c => InQueue(d)'
    BY <1>1, <1>2, SMT, SMTT(30) DEF InQueue
  <2>3. InQueue(d)' => InQueue(d) \/ d = c
    BY <1>1, <1>2, SMT, SMTT(30) DEF InQueue
  <2> QED
    BY <2>1, <2>2, <2>3
<1> QED
  BY <1>3, <1>4

\* The receive by the loop takes the oldest task, and no other, from the channel.
LEMMA DequeuePlaces ==
  ASSUME TypeOK, taskQueue # << >>, taskQueue' = Tail(taskQueue),
         \A i, j \in 1 .. Len(taskQueue) : taskQueue[i] = taskQueue[j] => i = j
  PROVE  /\ Head(taskQueue) \in Calls /\ InQueue(Head(taskQueue))
         /\ \A i, j \in 1 .. Len(taskQueue') : taskQueue'[i] = taskQueue'[j] => i = j
         /\ \A d \in Calls : InQueue(d)' <=> InQueue(d) /\ d # Head(taskQueue)
<1>1. /\ taskQueue \in Seq(Calls) /\ Len(taskQueue) \in Nat \ {0}
      /\ Head(taskQueue) = taskQueue[1] /\ taskQueue[1] \in Calls
      /\ Len(taskQueue') = Len(taskQueue) - 1
      /\ \A i \in 1 .. Len(taskQueue') : taskQueue'[i] = taskQueue[i + 1]
  BY SMT, SMTT(30) DEF TypeOK
<1>2. InQueue(Head(taskQueue))
  BY <1>1, SMT, SMTT(30) DEF InQueue
<1>3. \A i, j \in 1 .. Len(taskQueue') : taskQueue'[i] = taskQueue'[j] => i = j
  BY <1>1, SMT, SMTT(30)
<1>4. \A d \in Calls : InQueue(d)' <=> InQueue(d) /\ d # Head(taskQueue)
  <2> SUFFICES ASSUME NEW d \in Calls PROVE InQueue(d)' <=> InQueue(d) /\ d # Head(taskQueue)
    OBVIOUS
  <2>1. InQueue(d)' => InQueue(d) /\ d # Head(taskQueue)
    BY <1>1, SMT, SMTT(30) DEF InQueue
  <2>2. ASSUME InQueue(d), d # Head(taskQueue) PROVE InQueue(d)'
    <3>1. PICK i \in 1 .. Len(taskQueue) : taskQueue[i] = d
      BY <2>2 DEF InQueue
    <3>2. i - 1 \in 1 .. Len(taskQueue') /\ taskQueue'[i - 1] = d
      BY <1>1, <2>2, <3>1, SMT, SMTT(30)
    <3> QED
      BY <3>2 DEF InQueue
  <2> QED
    BY <2>1, <2>2
<1> QED
  BY <1>1, <1>2, <1>3, <1>4

\* A sequence of at most one element that is not empty has just one.
LEMMA SingletonSeq ==
  ASSUME NEW S, NEW s \in Seq(S), Len(s) <= 1, s # << >>
  PROVE  \E x \in S : s = <<x>>
<1>1. Len(s) = 1 /\ s[1] \in S
  BY SMT, SMTT(30)
<1>2. PICK x \in S : x = s[1]
  BY <1>1
<1>3. <<x>> \in Seq(S) /\ Len(<<x>>) = 1 /\ <<x>>[1] = x
  BY SMT, SMTT(30)
<1>4. s = <<x>>
  BY <1>1, <1>2, <1>3, SeqEqual, SMT, SMTT(30)
<1> QED
  BY <1>4

(***************************************************************************)
(* A step moves the task of a call from one place to the next, and never   *)
(* to a second one.                                                        *)
(***************************************************************************)
LEMMA TaskStep ==
  ASSUME TypeOK, TaskInv, [Next]_vars
  PROVE  TasksDistinct' /\ ListsSound'
<1> DEFINE Distinct == \A i, j \in 1 .. Len(taskQueue) : taskQueue[i] = taskQueue[j] => i = j
<1> USE DEF TypeOK, TaskInv
<1>1. ASSUME NEW c \in Calls, GetCached(c) PROVE TasksDistinct' /\ ListsSound'
  <2>1. UNCHANGED <<key, taskQueue, loop, fetcher, waiters, executing, sent>>
    BY <1>1 DEF GetCached, execVars, chanVars
  <2>2. /\ pc[c] = "new" /\ pc'[c] \in {"enqueue", "returned"}
        /\ \A d \in Calls \ {c} : pc'[d] = pc[d]
    BY <1>1 DEF GetCached, Return
  <2>3. Distinct' = Distinct
    BY <2>1
  <2>4. \A d \in Calls : (Nowhere(d)' <=> Nowhere(d)) /\ (AtMostOnePlace(d)' <=> AtMostOnePlace(d))
    BY <2>1 DEF Nowhere, AtMostOnePlace, InQueue, InLoop, Starting, Joined, Answered
  <2>5. ListsSound'
    BY <2>1 DEF ListsSound
  <2> QED
    BY <2>2, <2>3, <2>4, <2>5 DEF TasksDistinct
<1>2. ASSUME NEW c \in Calls, Enqueue(c) PROVE TasksDistinct' /\ ListsSound'
  <2>1. UNCHANGED <<key, loop, fetcher, waiters, executing, sent>>
    BY <1>2 DEF Enqueue, execVars, chanVars
  <2>2. /\ pc[c] = "enqueue" /\ pc'[c] = "wait"
        /\ \A d \in Calls \ {c} : pc'[d] = pc[d]
    BY <1>2 DEF Enqueue
  <2>3. Nowhere(c)
    BY <2>2 DEF TasksDistinct
  <2>4. Distinct' /\ \A d \in Calls : InQueue(d)' <=> InQueue(d) \/ d = c
    <3>1. Distinct /\ ~InQueue(c) /\ taskQueue' = Append(taskQueue, c)
      BY <1>2, <2>3, Zenon DEF Enqueue, TasksDistinct, Nowhere
    <3> QED
      BY <3>1, EnqueuePlaces, Zenon
  <2>5. \A d \in Calls : /\ InLoop(d)' <=> InLoop(d)
                         /\ Starting(d)' <=> Starting(d)
                         /\ Joined(d)' <=> Joined(d)
                         /\ Answered(d)' <=> Answered(d)
    BY <2>1 DEF InLoop, Starting, Joined, Answered
  <2>6. ListsSound'
    BY <2>1 DEF ListsSound
  <2> QED
    BY <2>2, <2>3, <2>4, <2>5, <2>6 DEF TasksDistinct, Nowhere, AtMostOnePlace
<1>3. ASSUME NEW c \in Calls, Receive(c) \/ GiveUp(c) PROVE TasksDistinct' /\ ListsSound'
  <2>1. UNCHANGED <<key, taskQueue, loop, fetcher, waiters, executing, sent>>
    BY <1>3 DEF Receive, GiveUp, execVars, chanVars
  <2>2. pc'[c] = "returned" /\ \A d \in Calls \ {c} : pc'[d] = pc[d]
    BY <1>3 DEF Receive, GiveUp, Return
  <2>3. Distinct' = Distinct
    BY <2>1
  <2>4. \A d \in Calls : (Nowhere(d)' <=> Nowhere(d)) /\ (AtMostOnePlace(d)' <=> AtMostOnePlace(d))
    BY <2>1 DEF Nowhere, AtMostOnePlace, InQueue, InLoop, Starting, Joined, Answered
  <2>5. ListsSound'
    BY <2>1 DEF ListsSound
  <2> QED
    BY <2>2, <2>3, <2>4, <2>5 DEF TasksDistinct
<1>4. ASSUME LoopReceive PROVE TasksDistinct' /\ ListsSound'
  <2> DEFINE c == Head(taskQueue)
  <2>1. UNCHANGED <<key, pc, fetcher, waiters, executing, sent>>
    BY <1>4 DEF LoopReceive, callVars, execVars, chanVars
  <2>2. /\ c \in Calls /\ InQueue(c) /\ Distinct'
        /\ \A d \in Calls : InQueue(d)' <=> InQueue(d) /\ d # c
    BY <1>4, DequeuePlaces DEF LoopReceive, TasksDistinct
  <2>3. \A d \in Calls : ~InLoop(d) /\ (InLoop(d)' <=> d = c)
    BY <1>4 DEF LoopReceive, InLoop
  <2>4. \A d \in Calls : /\ Starting(d)' <=> Starting(d)
                         /\ Joined(d)' <=> Joined(d)
                         /\ Answered(d)' <=> Answered(d)
    BY <2>1 DEF Starting, Joined, Answered
  <2>5. ListsSound'
    BY <2>1 DEF ListsSound
  <2> HIDE DEF c
  <2> QED
    BY <2>1, <2>2, <2>3, <2>4, <2>5, SMT, SMTT(30) DEF TasksDistinct, Nowhere, AtMostOnePlace
<1>5. ASSUME LoopHandle PROVE TasksDistinct' /\ ListsSound'
  <2>1. PICK c \in Calls : loop = <<c>>
    BY <1>5, SingletonSeq, SMT, SMTT(30) DEF LoopHandle
  <2>2. loop[1] = c /\ key[c] \in Keys
    BY <2>1
  <2>3. UNCHANGED <<key, pc, taskQueue, executing>>
    BY <1>5 DEF LoopHandle, callVars
  <2>4. \A d \in Calls : (InQueue(d)' <=> InQueue(d)) /\ ~InLoop(d)' /\ (InLoop(d) <=> d = c)
    BY <1>5, <2>1, <2>3 DEF LoopHandle, InQueue, InLoop
  <2>5. Distinct' = Distinct
    BY <2>3
  <2>6. CASE Send(c, cache[key[c]]) /\ UNCHANGED <<fetcher, waiters>>
    <3>1. \A d \in Calls : /\ Starting(d)' <=> Starting(d)
                           /\ Joined(d)' <=> Joined(d)
                           /\ Answered(d)' <=> Answered(d) \/ d = c
      BY <2>3, <2>6, SMT, SMTT(30) DEF Send, Starting, Joined, Answered
    <3>2. ListsSound'
      BY <2>3, <2>6 DEF ListsSound
    <3> QED
      BY <2>3, <2>4, <2>5, <3>1, <3>2 DEF TasksDistinct, Nowhere, AtMostOnePlace
  <2>7. CASE key[c] \in executing /\ Join(c) /\ UNCHANGED <<fetcher, sent>>
    <3>1. /\ waiters'[key[c]][c] = waiters[key[c]][c] + 1
          /\ \A k \in Keys, d \in Calls : k # key[c] \/ d # c => waiters'[k][d] = waiters[k][d]
      BY <2>2, <2>7 DEF Join
    <3>2. \A d \in Calls : /\ Starting(d)' <=> Starting(d)
                           /\ Joined(d)' <=> Joined(d) \/ d = c
                           /\ Answered(d)' <=> Answered(d)
      BY <2>2, <2>3, <2>7, <3>1, SMT, SMTT(30) DEF Starting, Joined, Answered
    <3>3. waiters[key[c]][c] = 0
      <4>1. ~Joined(c)
        BY <2>4 DEF TasksDistinct, AtMostOnePlace
      <4> QED
        BY <4>1, <2>2, SMT, SMTT(30) DEF Joined
    <3>4. ListsSound'
      <4>1. ASSUME NEW k \in Keys, NEW d \in Calls, waiters'[k][d] > 0
            PROVE  k = key'[d] /\ k \in executing'
        <5>1. k # key[c] \/ d # c => waiters[k][d] > 0
          BY <3>1, <4>1
        <5> QED
          BY <2>2, <2>3, <2>7, <5>1, Zenon DEF ListsSound
      <4>2. ASSUME NEW d \in Calls PROVE waiters'[key'[d]][d] <= 1
        BY <2>2, <2>3, <2>7, <3>1, <3>3, SMT, SMTT(30) DEF ListsSound
      <4> QED
        BY <4>1, <4>2 DEF ListsSound
    <3> QED
      BY <2>3, <2>4, <2>5, <3>2, <3>4 DEF TasksDistinct, Nowhere, AtMostOnePlace
  <2>8. CASE fetcher' = [fetcher EXCEPT ![c] = "start"] /\ UNCHANGED <<waiters, sent>>
    <3>1. \A d \in Calls : /\ Starting(d)' <=> Starting(d) \/ d = c
                           /\ Joined(d)' <=> Joined(d)
                           /\ Answered(d)' <=> Answered(d)
      BY <2>3, <2>8 DEF Starting, Joined, Answered
    <3>2. ListsSound'
      BY <2>3, <2>8 DEF ListsSound
    <3> QED
      BY <2>3, <2>4, <2>5, <3>1, <3>2 DEF TasksDistinct, Nowhere, AtMostOnePlace
  <2> QED
    BY <1>5, <2>2, <2>6, <2>7, <2>8 DEF LoopHandle, chanVars
<1>6. ASSUME NEW c \in Calls, StartFetch(c) PROVE TasksDistinct' /\ ListsSound'
  <2>1. UNCHANGED <<key, pc, taskQueue, loop>> /\ Starting(c) /\ key[c] \in Keys
    BY <1>6 DEF StartFetch, callVars, Starting
  <2>2. \A d \in Calls : /\ InQueue(d)' <=> InQueue(d)
                         /\ InLoop(d)' <=> InLoop(d)
                         /\ Starting(d)' <=> Starting(d) /\ d # c
    <3>1. \A d \in Calls : Starting(d)' <=> Starting(d) /\ d # c
      BY <1>6 DEF StartFetch, Starting
    <3> QED
      BY <2>1, <3>1, Zenon DEF InQueue, InLoop
  <2>3. Distinct' = Distinct
    BY <2>1
  <2>4. CASE Send(c, cache[key[c]]) /\ UNCHANGED <<executing, waiters>>
    <3>1. \A d \in Calls : /\ Joined(d)' <=> Joined(d)
                           /\ Answered(d)' <=> Answered(d) \/ d = c
      BY <2>1, <2>4, SMT, SMTT(30) DEF Send, Joined, Answered
    <3>2. ListsSound'
      BY <2>1, <2>4 DEF ListsSound
    <3> QED
      BY <2>1, <2>2, <2>3, <3>1, <3>2, SMT, SMTT(30) DEF TasksDistinct, Nowhere, AtMostOnePlace
  <2>5. CASE key[c] \in executing /\ Join(c) /\ UNCHANGED <<executing, sent>>
    <3>1. /\ waiters'[key[c]][c] = waiters[key[c]][c] + 1
          /\ \A k \in Keys, d \in Calls : k # key[c] \/ d # c => waiters'[k][d] = waiters[k][d]
      BY <2>1, <2>5 DEF Join
    <3>2. \A d \in Calls : /\ Joined(d)' <=> Joined(d) \/ d = c
                           /\ Answered(d)' <=> Answered(d)
      BY <2>1, <2>5, <3>1, SMT, SMTT(30) DEF Joined, Answered
    <3>3. waiters[key[c]][c] = 0
      <4>1. ~Joined(c)
        BY <2>1 DEF TasksDistinct, AtMostOnePlace
      <4> QED
        BY <4>1, <2>1, SMT, SMTT(30) DEF Joined
    <3>4. ListsSound'
      <4>1. ASSUME NEW k \in Keys, NEW d \in Calls, waiters'[k][d] > 0
            PROVE  k = key'[d] /\ k \in executing'
        <5>1. k # key[c] \/ d # c => waiters[k][d] > 0
          BY <3>1, <4>1
        <5> QED
          BY <2>1, <2>5, <5>1, Zenon DEF ListsSound
      <4>2. ASSUME NEW d \in Calls PROVE waiters'[key'[d]][d] <= 1
        <5>1. CASE d = c
          BY <2>1, <3>1, <3>3, <5>1, SMT, SMTT(30)
        <5>2. CASE d # c
          BY <2>1, <3>1, <5>2 DEF ListsSound
        <5> QED
          BY <5>1, <5>2
      <4> QED
        BY <4>1, <4>2 DEF ListsSound
    <3> QED
      BY <2>1, <2>2, <2>3, <3>2, <3>4, SMT, SMTT(30) DEF TasksDistinct, Nowhere, AtMostOnePlace
  <2>6. CASE /\ key[c] \notin executing /\ executing' = executing \cup {key[c]}
             /\ waiters' = [waiters EXCEPT ![key[c]] = [d \in Calls |-> IF d = c THEN 1 ELSE 0]]
             /\ UNCHANGED sent
    <3>1. /\ \A d \in Calls : waiters[key[c]][d] = 0
          /\ \A d \in Calls : waiters'[key[c]][d] = IF d = c THEN 1 ELSE 0
          /\ \A k \in Keys \ {key[c]} : waiters'[k] = waiters[k]
      BY <2>1, <2>6, SMT, SMTT(30) DEF ListsSound
    <3>2. \A d \in Calls : /\ Joined(d)' <=> Joined(d) \/ d = c
                           /\ Answered(d)' <=> Answered(d)
      BY <2>1, <2>6, <3>1, SMT, SMTT(30) DEF Joined, Answered
    <3>3. ListsSound'
      BY <2>1, <2>6, <3>1, SMT, SMTT(30) DEF ListsSound
    <3> QED
      BY <2>1, <2>2, <2>3, <3>2, <3>3, SMT, SMTT(30) DEF TasksDistinct, Nowhere, AtMostOnePlace
  <2> QED
    BY <1>6, <2>4, <2>5, <2>6 DEF StartFetch, chanVars
<1>7. ASSUME NEW c \in Calls, Fetch(c) \/ Set(c) PROVE TasksDistinct' /\ ListsSound'
  <2>1. UNCHANGED <<key, pc, taskQueue, loop, waiters, executing, sent>>
    BY <1>7 DEF Fetch, Set, callVars, chanVars
  <2>2. \A d \in Calls : fetcher'[d] = "start" <=> fetcher[d] = "start"
    BY <1>7, SMT, SMTT(30) DEF Fetch, Set
  <2>3. Distinct' = Distinct
    BY <2>1
  <2>4. \A d \in Calls : (Nowhere(d)' <=> Nowhere(d)) /\ (AtMostOnePlace(d)' <=> AtMostOnePlace(d))
    BY <2>1, <2>2, Zenon DEF Nowhere, AtMostOnePlace, InQueue, InLoop, Starting, Joined, Answered
  <2>5. ListsSound'
    BY <2>1 DEF ListsSound
  <2> QED
    BY <2>1, <2>3, <2>4, <2>5 DEF TasksDistinct
<1>8. ASSUME NEW c \in Calls, Deliver(c) PROVE TasksDistinct' /\ ListsSound'
  <2>1. UNCHANGED <<key, pc, taskQueue, loop>> /\ key[c] \in Keys
    BY <1>8 DEF Deliver, callVars
  <2>2. \A d \in Calls : /\ InQueue(d)' <=> InQueue(d)
                         /\ InLoop(d)' <=> InLoop(d)
                         /\ Starting(d)' <=> Starting(d)
    BY <1>8, <2>1 DEF Deliver, InQueue, InLoop, Starting
  <2>3. /\ \A d \in Calls : waiters'[key[c]][d] = 0
        /\ \A k \in Keys \ {key[c]} : waiters'[k] = waiters[k]
        /\ \A d \in Calls : sent'[d] = sent[d] + waiters[key[c]][d]
        /\ executing' = executing \ {key[c]}
    BY <1>8, <2>1 DEF Deliver
  <2>4. \A d \in Calls : waiters[key[c]][d] > 0 <=> Joined(d) /\ key[d] = key[c]
    BY <2>1 DEF ListsSound, Joined
  <2>5. \A d \in Calls : /\ Joined(d)' <=> Joined(d) /\ key[d] # key[c]
                         /\ Answered(d)' <=> Answered(d) \/ (Joined(d) /\ key[d] = key[c])
    <3> SUFFICES ASSUME NEW d \in Calls
                 PROVE  /\ Joined(d)' <=> Joined(d) /\ key[d] # key[c]
                        /\ Answered(d)' <=> Answered(d) \/ (Joined(d) /\ key[d] = key[c])
      OBVIOUS
    <3>1. sent[d] \in Nat /\ waiters[key[c]][d] \in Nat /\ key[d] \in Keys
      BY <2>1
    <3> QED
      BY <2>1, <2>3, <2>4, <3>1, SMT, SMTT(30) DEF Joined, Answered
  <2>6. Distinct' = Distinct
    BY <2>1
  <2>7. ListsSound'
    <3>1. ASSUME NEW k \in Keys, NEW d \in Calls, waiters'[k][d] > 0
          PROVE  k = key'[d] /\ k \in executing'
      <4>1. k # key[c] /\ waiters[k][d] > 0
        BY <2>3, <3>1, SMT, SMTT(30)
      <4> QED
        BY <2>1, <2>3, <4>1, Zenon DEF ListsSound
    <3>2. ASSUME NEW d \in Calls PROVE waiters'[key'[d]][d] <= 1
      <4>1. CASE key[d] = key[c]
        BY <2>1, <2>3, <4>1, SMT, SMTT(30)
      <4>2. CASE key[d] # key[c]
        <5>1. waiters'[key[d]] = waiters[key[d]] /\ waiters[key[d]][d] <= 1
          BY <2>3, <4>2 DEF ListsSound
        <5> QED
          BY <2>1, <5>1
      <4> QED
        BY <4>1, <4>2
    <3> QED
      BY <3>1, <3>2 DEF ListsSound
  <2> QED
    BY <2>1, <2>2, <2>5, <2>6, <2>7 DEF TasksDistinct, Nowhere, AtMostOnePlace
<1>9. CASE (\E k \in Keys : Expire(k) \/ Change(k)) \/ UNCHANGED vars
  <2>1. UNCHANGED <<key, pc, taskQueue, loop, fetcher, waiters, executing, sent>>
    BY <1>9 DEF Expire, Change, vars, callVars, execVars, chanVars
  <2>2. Distinct' = Distinct
    BY <2>1
  <2>3. \A d \in Calls : (Nowhere(d)' <=> Nowhere(d)) /\ (AtMostOnePlace(d)' <=> AtMostOnePlace(d))
    BY <2>1 DEF Nowhere, AtMostOnePlace, InQueue, InLoop, Starting, Joined, Answered
  <2>4. ListsSound'
    BY <2>1 DEF ListsSound
  <2> QED
    BY <2>1, <2>2, <2>3, <2>4 DEF TasksDistinct
<1> QED
  BY <1>1, <1>2, <1>3, <1>4, <1>5, <1>6, <1>7, <1>8, <1>9, Zenon DEF Next, FetchStep

\* No task is anywhere initially.
LEMMA TaskInit == Init => TaskInv
BY SMT, SMTT(30) DEF Init, TaskInv, FlightInv, ActiveIsExecuting, SingleFlight, Active, ListsSound,
       TasksDistinct, Nowhere, AtMostOnePlace, InQueue, InLoop, Starting, Joined, Answered

(***************************************************************************)
(* The task of a call that has been sent is in exactly one place until it  *)
(* is answered: the loop and the goroutines hand every task on once, and   *)
(* the goroutine that removes a key from currentlyExecuted answers         *)
(* everybody in its list in the same critical section.                     *)
(***************************************************************************)
THEOREM NoTaskLostOrAnsweredTwice == Spec => []TaskInOnePlace
<1>1. Init => TaskInv
  BY TaskInit
<1>2. TypeOK /\ TaskInv /\ [Next]_vars => TaskInv'
  BY FlightStep, TaskStep DEF TaskInv
<1>3. TaskInv => TaskInOnePlace
  <2> SUFFICES ASSUME TaskInv, NEW c \in Calls
               PROVE  /\ pc[c] = "wait" => \E f \in DOMAIN Places(c) : Places(c)[f]
                      /\ \A f, g \in DOMAIN Places(c) : Places(c)[f] /\ Places(c)[g] => f = g
                      /\ waiters[key[c]][c] <= 1
    BY DEF TaskInOnePlace
  <2> DEFINE P == Places(c)
  <2>1. /\ DOMAIN P = {"queued", "loop", "starting", "joined", "answered"}
        /\ P["queued"] = InQueue(c) /\ P["loop"] = InLoop(c) /\ P["starting"] = Starting(c)
        /\ P["joined"] = Joined(c) /\ P["answered"] = Answered(c)
    BY DEF Places, InQueue, InLoop, Starting, Joined, Answered
  <2> HIDE DEF P
  <2>2. pc[c] = "wait" => \E f \in DOMAIN P : P[f]
    BY <2>1 DEF TaskInv, TasksDistinct, Nowhere
  <2>3. \A f, g \in DOMAIN P : P[f] /\ P[g] => f = g
    BY <2>1 DEF TaskInv, TasksDistinct, AtMostOnePlace
  <2>4. waiters[key[c]][c] <= 1
    BY DEF TaskInv, ListsSound
  <2> QED
    BY <2>2, <2>3, <2>4 DEF P
<1> QED
  BY <1>1, <1>2, <1>3, TypeCorrect, PTL DEF Spec

-----------------------------------------------------------------------------
\* No call for k has returned, was sent, or was preceded by, a newer value than v.
Bounds(k, v) ==
  \A d \in Calls : key[d] = k =>
    /\ floor[d] <= v
    /\ sent[d] > 0 => answer[d] <= v
    /\ pc[d] = "returned" => result[d] <= v

\* What is on its way to a call is at least as new as what calls have seen:
\* the resource itself, what a goroutine has fetched, and the cache.
NewestOnTheWay ==
  /\ \A k \in Keys : Bounds(k, upstream[k])
  /\ \A c \in Calls : fetcher[c] \in {"fetched", "stored"} =>
       fetched[c] \in Versions /\ fetched[c] <= upstream[key[c]] /\ Bounds(key[c], fetched[c])
  /\ \A k \in Keys : cache[k] # None => cache[k] <= upstream[k] /\ Bounds(k, cache[k])

\* While the goroutine of a key is fetching, nobody else fills its entry.
FetcherOwnsEntry ==
  \A c \in Calls :
    /\ fetcher[c] \in {"fetching", "fetched"} => cache[key[c]] = None
    /\ fetcher[c] = "stored" => cache[key[c]] \in {None, fetched[c]}
    /\ fetcher[c] = "failed" => fetched[c] = Error

AnswersNotOlder == \A c \in Calls : sent[c] > 0 /\ answer[c] # Error => answer[c] >= floor[c]

ReadsInv ==
  /\ floor \in [Calls -> Results]
  /\ NewestOnTheWay /\ FetcherOwnsEntry /\ AnswersNotOlder /\ MonotoneReads

\* A set of integers with an upper bound has a greatest element.
LEMMA BoundedMax ==
  ASSUME NEW S \in SUBSET Int, NEW b \in Int, S # {}, \A v \in S : v <= b
  PROVE  \E v \in S : \A u \in S : u <= v
<1> DEFINE T == {b - v : v \in S}
           R == OpToRel(<, Nat)
<1>1. T \subseteq Nat /\ T # {}
  <2>1. \A v \in S : b - v \in Nat
    BY SMT, SMTT(30)
  <2> QED
    BY <2>1, Zenon
<1>2. IsWellFoundedOn(R, Nat)
  BY NatLessThanWellFounded, Zenon
<1>3. \A x, y \in Nat : x < y => <<x, y>> \in R
  BY DEF OpToRel
<1> HIDE DEF R, T
<1>4. PICK x \in T : \A y \in T : ~(<<y, x>> \in R)
  BY <1>1, <1>2, WFMin, Zenon
<1>5. \A y \in T : x <= y
  <2>1. \A y \in T : y \in Nat /\ x \in Nat /\ ~(y < x)
    BY <1>1, <1>3, <1>4, Zenon
  <2> QED
    BY <2>1, SMT, SMTT(30)
<1>6. PICK v \in S : x = b - v
  BY DEF T
<1>7. \A u \in S : u <= v
  BY <1>5, <1>6, SMT, SMTT(30) DEF T
<1> QED
  BY <1>7

\* The newest version that calls have returned is bounded by what bounds each.
LEMMA NewestBounded ==
  ASSUME TypeOK, NEW k \in Keys
  PROVE  /\ Newest(k) \in Results
         /\ \A v \in Versions :
              (\A d \in Calls : key[d] = k /\ pc[d] = "returned" => result[d] <= v) => Newest(k) <= v
<1> DEFINE seen == {None} \cup {result[c] : c \in {d \in Calls : key[d] = k /\ pc[d] = "returned"}}
<1>1. seen \in SUBSET Results /\ seen # {}
  <2>1. result \in [Calls -> Results] /\ None \in Results
    BY Zenon DEF TypeOK, Results
  <2> QED
    BY <2>1
<1>2. Results \subseteq Int /\ \A r \in Results : r <= MaxVersion
  BY SpikeAssumption, SMT, SMTT(30) DEF Results, Versions, None, Error, SpikeAssumption
<1>3. \A v \in Versions :
        (\A d \in Calls : key[d] = k /\ pc[d] = "returned" => result[d] <= v) => \A u \in seen : u <= v
  <2>1. \A v \in Versions : None <= v
    BY SpikeAssumption, SMT, SMTT(30) DEF Versions, None, SpikeAssumption
  <2> QED
    BY <2>1, Zenon
<1>4. Newest(k) = CHOOSE v \in seen : \A u \in seen : u <= v
  BY Zenon DEF Newest
<1> HIDE DEF seen
<1>5. seen \in SUBSET Int /\ \A r \in seen : r <= MaxVersion
  BY <1>1, <1>2
<1>6. \E v \in seen : \A u \in seen : u <= v
  <2>1. MaxVersion \in Int
    BY SpikeAssumption, SMT, SMTT(30) DEF SpikeAssumption
  <2> QED
    BY <1>1, <1>5, <2>1, BoundedMax, Zenon
<1>7. Newest(k) \in seen
  BY <1>4, <1>6, Zenon
<1> QED
  BY <1>1, <1>3, <1>7, Zenon

(***************************************************************************)
(* A step that sends or returns nothing newer than the entry of its key    *)
(* leaves what is on the way at least as new as what calls have seen.      *)
(***************************************************************************)
LEMMA KeepsNewest ==
  ASSUME TypeOK, NewestOnTheWay, FetcherOwnsEntry, UNCHANGED <<key, fetched, cache, upstream>>,
         \A c \in Calls : fetcher'[c] \in {"fetched", "stored"} => fetcher'[c] = fetcher[c],
         \A k \in Keys, v \in Versions :
           Bounds(k, v) /\ (cache[k] # None => cache[k] <= v) => Bounds(k, v)'
  PROVE  NewestOnTheWay'
<1>1. ASSUME NEW k \in Keys PROVE Bounds(k, upstream[k])'
  <2>1. upstream[k] \in Versions /\ Bounds(k, upstream[k])
    BY DEF TypeOK, NewestOnTheWay
  <2>2. cache[k] # None => cache[k] <= upstream[k]
    BY DEF NewestOnTheWay
  <2> DEFINE v == upstream[k]
  <2>3. PICK w \in Versions : w = v
    BY <2>1
  <2>4. Bounds(k, w)'
    BY <2>1, <2>2, <2>3
  <2> QED
    BY <2>3, <2>4 DEF Bounds
<1>2. ASSUME NEW c \in Calls, fetcher'[c] \in {"fetched", "stored"}
      PROVE  /\ fetched'[c] \in Versions /\ fetched'[c] <= upstream'[key'[c]]
             /\ Bounds(key[c], fetched[c])'
  <2>1. key[c] \in Keys /\ fetcher[c] = fetcher'[c]
    BY <1>2 DEF TypeOK
  <2>2. /\ fetched[c] \in Versions /\ fetched[c] <= upstream[key[c]]
        /\ Bounds(key[c], fetched[c])
    BY <1>2, <2>1, Zenon DEF NewestOnTheWay
  <2>3. cache[key[c]] # None => cache[key[c]] = fetched[c]
    BY <1>2, <2>1, Zenon DEF FetcherOwnsEntry
  <2>4. fetched[c] <= fetched[c]
    BY <2>2, SMT, SMTT(30) DEF Versions
  <2>5. PICK w \in Versions : w = fetched[c]
    BY <2>2
  <2>6. Bounds(key[c], w)'
    BY <2>1, <2>2, <2>3, <2>4, <2>5
  <2> QED
    BY <2>2, <2>5, <2>6 DEF Bounds
<1>3. ASSUME NEW k \in Keys, cache'[k] # None
      PROVE  cache'[k] <= upstream'[k] /\ Bounds(k, cache[k])'
  <2>1. cache[k] \in Versions /\ cache[k] <= upstream[k] /\ Bounds(k, cache[k])
    BY <1>3, Zenon DEF TypeOK, NewestOnTheWay
  <2>2. cache[k] <= cache[k]
    BY <2>1, SMT, SMTT(30) DEF Versions
  <2>3. PICK w \in Versions : w = cache[k]
    BY <2>1
  <2>4. Bounds(k, w)'
    BY <2>1, <2>2, <2>3
  <2> QED
    BY <2>1, <2>3, <2>4 DEF Bounds
<1> QED
  BY <1>1, <1>2, <1>3 DEF NewestOnTheWay

(***************************************************************************)
(* A step keeps what is on the way to a call at least as new as what calls *)
(* have returned.                                                          *)
(***************************************************************************)
LEMMA ReadsStep ==
  ASSUME TypeOK, TaskInv, ReadsInv, [Next]_vars
  PROVE  ReadsInv'
<1>0. /\ \A v \in Versions : v \in Nat /\ v <= v /\ None <= v /\ Error <= v /\ v # None /\ v # Error
      /\ Results = Versions \cup {None, Error} /\ Results \subseteq Int
      /\ None \in Int /\ Error \in Int /\ None # Error
  BY SpikeAssumption, SMT, SMTT(30) DEF Results, Versions, None, Error, SpikeAssumption
<1>a. /\ key \in [Calls -> Keys] /\ fetched \in [Calls -> Results]
      /\ cache \in [Keys -> Versions \cup {None}] /\ upstream \in [Keys -> Versions]
      /\ sent \in [Calls -> Nat] /\ answer \in [Calls -> Results] /\ result \in [Calls -> Results]
      /\ DOMAIN pc = Calls /\ pc = [d \in Calls |-> pc[d]]
      /\ DOMAIN fetcher = Calls /\ fetcher = [d \in Calls |-> fetcher[d]]
  BY DEF TypeOK
<1> USE <1>a
<1>1. ASSUME NEW c \in Calls, GetCached(c) PROVE ReadsInv'
  <2> DEFINE k == key[c]
  <2>1. /\ UNCHANGED <<key, fetcher, fetched, cache, upstream, sent, answer>>
        /\ k \in Keys /\ pc[c] = "new" /\ sent[c] = 0
        /\ floor' = [floor EXCEPT ![c] = Newest(k)]
    BY <1>1, SMT, SMTT(30) DEF GetCached, execVars, cacheVars, chanVars, TaskInv, TasksDistinct, Nowhere, Answered
  <2>2. Newest(k) \in Results
    BY <2>1, NewestBounded
  <2>3. \A v \in Versions : Bounds(k, v) => Newest(k) <= v
    BY <2>1, NewestBounded, Zenon DEF Bounds
  <2>4. /\ \A d \in Calls \ {c} : pc'[d] = pc[d] /\ result'[d] = result[d] /\ floor'[d] = floor[d]
        /\ pc'[c] = "returned" => cache[k] # None /\ result'[c] = cache[k]
        /\ floor'[c] = Newest(k)
    BY <1>1, <2>1, SMT, SMTT(30) DEF GetCached, Return, ReadsInv
  <2> HIDE DEF k
  <2>5. ASSUME NEW j \in Keys, NEW v \in Versions, Bounds(j, v), cache[j] # None => cache[j] <= v
        PROVE  Bounds(j, v)'
    <3> SUFFICES ASSUME NEW d \in Calls, key[d] = j
                 PROVE  /\ floor'[d] <= v
                        /\ sent'[d] > 0 => answer'[d] <= v
                        /\ pc'[d] = "returned" => result'[d] <= v
      BY <2>1 DEF Bounds
    <3>1. CASE d = c
      BY <2>1, <2>3, <2>4, <2>5, <3>1, SMT, SMTT(30) DEF k, Bounds
    <3>2. CASE d # c
      BY <2>1, <2>4, <2>5, <3>2 DEF Bounds
    <3> QED
      BY <3>1, <3>2
  <2>6. NewestOnTheWay'
    BY <2>1, <2>5, KeepsNewest DEF ReadsInv
  <2>7. FetcherOwnsEntry'
    BY <2>1 DEF ReadsInv, FetcherOwnsEntry
  <2>8. AnswersNotOlder'
    BY <2>1, <2>4, SMT, SMTT(30) DEF ReadsInv, AnswersNotOlder
  <2>9. MonotoneReads'
    <3>1. cache[k] # None => cache[k] >= Newest(k)
      BY <1>0, <2>1, <2>2, <2>3 DEF ReadsInv, NewestOnTheWay
    <3> QED
      BY <2>4, <3>1, SMT, SMTT(30) DEF ReadsInv, MonotoneReads
  <2>10. floor' \in [Calls -> Results]
    BY <2>1, <2>2 DEF ReadsInv
  <2> QED
    BY <2>6, <2>7, <2>8, <2>9, <2>10 DEF ReadsInv
<1>2. ASSUME NEW c \in Calls, Enqueue(c) \/ Receive(c) \/ GiveUp(c) PROVE ReadsInv'
  <2>1. UNCHANGED <<key, fetcher, fetched, cache, upstream, sent, answer, floor>>
    BY <1>2 DEF Enqueue, Receive, GiveUp, execVars, cacheVars, chanVars
  <2>2. \A d \in Calls : pc'[d] = "returned" =>
          \/ pc[d] = "returned" /\ result'[d] = result[d]
          \/ result'[d] = Error
          \/ sent[d] > 0 /\ result'[d] = answer[d]
    <3>1. CASE Enqueue(c)
      BY <3>1 DEF Enqueue
    <3>2. CASE Receive(c)
      BY <3>2 DEF Receive, Return
    <3>3. CASE GiveUp(c)
      BY <3>3 DEF GiveUp, Return
    <3> QED
      BY <1>2, <3>1, <3>2, <3>3
  <2>3. ASSUME NEW k \in Keys, NEW v \in Versions, Bounds(k, v) PROVE Bounds(k, v)'
    BY <1>0, <2>1, <2>2, <2>3 DEF Bounds
  <2>4. NewestOnTheWay'
    BY <2>1, <2>3, KeepsNewest DEF ReadsInv
  <2>5. FetcherOwnsEntry' /\ AnswersNotOlder'
    BY <2>1 DEF ReadsInv, FetcherOwnsEntry, AnswersNotOlder
  <2>6. MonotoneReads'
    <3> SUFFICES ASSUME NEW d \in Calls, pc'[d] = "returned", result'[d] # Error
                 PROVE  result'[d] >= floor[d]
      BY <2>1 DEF MonotoneReads
    <3> QED
      BY <2>2 DEF ReadsInv, MonotoneReads, AnswersNotOlder
  <2> QED
    BY <2>1, <2>4, <2>5, <2>6 DEF ReadsInv
<1>3. ASSUME NEW c \in Calls, Send(c, cache[key[c]]), cache[key[c]] # None,
             UNCHANGED <<callVars, fetched, cache, upstream>>,
             \A d \in Calls : fetcher'[d] \in {"start", "done"} \/ fetcher'[d] = fetcher[d]
      PROVE  ReadsInv'
  <2>1. UNCHANGED <<key, pc, result, floor, fetched, cache, upstream>> /\ key[c] \in Keys
    BY <1>3 DEF callVars
  <2>2. /\ answer'[c] = cache[key[c]]
        /\ \A d \in Calls \ {c} : sent'[d] = sent[d] /\ answer'[d] = answer[d]
    BY <1>3 DEF Send
  <2>3. ASSUME NEW k \in Keys, NEW v \in Versions, Bounds(k, v), cache[k] # None => cache[k] <= v
        PROVE  Bounds(k, v)'
    BY <1>3, <2>1, <2>2, <2>3 DEF Bounds
  <2>4. NewestOnTheWay'
    BY <1>3, <2>1, <2>3, KeepsNewest DEF ReadsInv
  <2>5. FetcherOwnsEntry'
    BY <1>3, <2>1 DEF ReadsInv, FetcherOwnsEntry
  <2>6. AnswersNotOlder'
    <3>1. floor[c] <= cache[key[c]] /\ floor[c] \in Int /\ cache[key[c]] \in Int
      BY <1>0, <1>3, <2>1, SMT, SMTT(30) DEF ReadsInv, NewestOnTheWay, Bounds
    <3> QED
      BY <2>1, <2>2, <3>1 DEF ReadsInv, AnswersNotOlder
  <2>7. MonotoneReads'
    BY <2>1, SMT, SMTT(30) DEF ReadsInv, MonotoneReads
  <2> QED
    BY <2>1, <2>4, <2>5, <2>6, <2>7 DEF ReadsInv
<1>4. ASSUME UNCHANGED <<callVars, fetched, cacheVars, chanVars>>,
             \A d \in Calls : \/ fetcher'[d] \in {"start", "done"}
                              \/ fetcher'[d] = fetcher[d]
                              \/ fetcher'[d] = "fetching" /\ cache[key[d]] = None
      PROVE  ReadsInv'
  <2>1. UNCHANGED <<key, pc, result, floor, fetched, cache, upstream, sent, answer>>
    BY <1>4 DEF callVars, cacheVars, chanVars
  <2>2. ASSUME NEW k \in Keys, NEW v \in Versions, Bounds(k, v) PROVE Bounds(k, v)'
    BY <2>1, <2>2 DEF Bounds
  <2>3. NewestOnTheWay'
    BY <1>4, <2>1, <2>2, KeepsNewest DEF ReadsInv
  <2>4. FetcherOwnsEntry'
    BY <1>4, <2>1 DEF ReadsInv, FetcherOwnsEntry
  <2>5. AnswersNotOlder' /\ MonotoneReads'
    BY <2>1 DEF ReadsInv, AnswersNotOlder, MonotoneReads
  <2> QED
    BY <2>1, <2>3, <2>4, <2>5 DEF ReadsInv
<1>5. CASE LoopReceive
  BY <1>4, <1>5 DEF LoopReceive, execVars
<1>6. CASE LoopHandle
  <2>1. loop[1] \in Calls
    BY <1>6, SMT, SMTT(30) DEF LoopHandle, TypeOK
  <2>2. CASE cache[key[loop[1]]] # None
    <3>1. /\ Send(loop[1], cache[key[loop[1]]])
          /\ UNCHANGED <<callVars, fetcher, fetched, cache, upstream>>
      BY <1>6, <2>2, Zenon DEF LoopHandle, cacheVars
    <3> QED
      BY <1>3, <2>1, <2>2, <3>1, Zenon
  <2>3. CASE cache[key[loop[1]]] = None
    BY <1>4, <1>6, <2>1, <2>3 DEF LoopHandle
  <2> QED
    BY <2>2, <2>3
<1>7. ASSUME NEW c \in Calls, StartFetch(c) PROVE ReadsInv'
  <2>1. CASE cache[key[c]] # None
    BY <1>3, <1>7, <2>1 DEF StartFetch, cacheVars
  <2>2. CASE cache[key[c]] = None
    BY <1>4, <1>7, <2>2 DEF StartFetch
  <2> QED
    BY <2>1, <2>2
<1>8. ASSUME NEW c \in Calls, Fetch(c) PROVE ReadsInv'
  <2>1. /\ UNCHANGED <<key, pc, result, floor, cache, upstream, sent, answer>>
        /\ key[c] \in Keys /\ fetcher[c] = "fetching"
    BY <1>8 DEF Fetch, callVars, cacheVars, chanVars
  <2>2. \A d \in Calls \ {c} : fetcher'[d] = fetcher[d] /\ fetched'[d] = fetched[d]
    BY <1>8 DEF Fetch
  <2>3. \/ fetcher'[c] = "fetched" /\ fetched'[c] = upstream[key[c]]
        \/ fetcher'[c] = "failed" /\ fetched'[c] = Error
    BY <1>8 DEF Fetch
  <2>4. \A k, v : Bounds(k, v)' <=> Bounds(k, v)
    BY <2>1 DEF Bounds
  <2>5. NewestOnTheWay'
    <3>1. \A k \in Keys : Bounds(k, upstream[k])'
      BY <2>1 DEF ReadsInv, NewestOnTheWay, Bounds
    <3>2. \A k \in Keys : cache'[k] # None => cache'[k] <= upstream'[k] /\ Bounds(k, cache[k])'
      BY <2>1 DEF ReadsInv, NewestOnTheWay, Bounds
    <3>3. ASSUME NEW d \in Calls, fetcher'[d] \in {"fetched", "stored"}
          PROVE  /\ fetched'[d] \in Versions /\ fetched'[d] <= upstream'[key'[d]]
                 /\ Bounds(key[d], fetched[d])'
      <4>1. CASE d = c
        <5>1. upstream[key[c]] \in Versions /\ Bounds(key[c], upstream[key[c]])
          BY <2>1 DEF ReadsInv, NewestOnTheWay
        <5>2. fetched'[c] = upstream[key[c]] /\ key'[c] = key[c] /\ upstream'[key[c]] = upstream[key[c]]
          BY <2>1, <2>3, <3>3, <4>1
        <5>3. upstream[key[c]] <= upstream[key[c]]
          BY <1>0, <5>1, Zenon
        <5>4. Bounds(key[c], fetched[c])'
          BY <2>1, <5>1, <5>2, Zenon DEF Bounds
        <5> QED
          BY <4>1, <5>1, <5>2, <5>3, <5>4, Zenon
      <4>2. CASE d # c
        BY <2>1, <2>2, <3>3, <4>2 DEF ReadsInv, NewestOnTheWay, Bounds
      <4> QED
        BY <4>1, <4>2
    <3> QED
      BY <3>1, <3>2, <3>3 DEF NewestOnTheWay
  <2>6. FetcherOwnsEntry'
    BY <2>1, <2>2, <2>3 DEF ReadsInv, FetcherOwnsEntry
  <2>7. AnswersNotOlder' /\ MonotoneReads'
    BY <2>1 DEF ReadsInv, AnswersNotOlder, MonotoneReads
  <2> QED
    BY <2>1, <2>5, <2>6, <2>7 DEF ReadsInv
<1>9. ASSUME NEW c \in Calls, Set(c) PROVE ReadsInv'
  <2>1. /\ UNCHANGED <<key, pc, result, floor, fetched, upstream, sent, answer>>
        /\ key[c] \in Keys /\ fetcher[c] = "fetched" /\ fetcher'[c] = "stored"
        /\ cache'[key[c]] = fetched[c]
        /\ \A k \in Keys \ {key[c]} : cache'[k] = cache[k]
        /\ \A d \in Calls \ {c} : fetcher'[d] = fetcher[d]
    BY <1>9 DEF Set, callVars, chanVars
  <2>2. \A d \in Calls \ {c} : fetcher[d] \in Active => key[d] # key[c]
    BY <2>1 DEF TaskInv, FlightInv, SingleFlight, Active
  <2>3. NewestOnTheWay'
    BY <2>1, SMT, SMTT(30) DEF ReadsInv, NewestOnTheWay, Bounds
  <2>4. FetcherOwnsEntry'
    BY <2>1, <2>2, SMT, SMTT(30) DEF ReadsInv, FetcherOwnsEntry, Active
  <2>5. AnswersNotOlder' /\ MonotoneReads'
    BY <2>1 DEF ReadsInv, AnswersNotOlder, MonotoneReads
  <2> QED
    BY <2>1, <2>3, <2>4, <2>5 DEF ReadsInv
<1>10. ASSUME NEW c \in Calls, Deliver(c) PROVE ReadsInv'
  <2>1. /\ UNCHANGED <<key, pc, result, floor, fetched, cache, upstream>>
        /\ key[c] \in Keys /\ fetcher[c] \in {"stored", "failed"} /\ fetcher'[c] = "done"
        /\ \A d \in Calls \ {c} : fetcher'[d] = fetcher[d]
    BY <1>10 DEF Deliver, callVars, cacheVars
  <2>2. \A d \in Calls : \/ sent'[d] = sent[d] /\ answer'[d] = answer[d]
                         \/ key[d] = key[c] /\ answer'[d] = fetched[c]
    <3> SUFFICES ASSUME NEW d \in Calls
                 PROVE  \/ sent'[d] = sent[d] /\ answer'[d] = answer[d]
                        \/ key[d] = key[c] /\ answer'[d] = fetched[c]
      OBVIOUS
    <3>1. /\ sent'[d] = sent[d] + waiters[key[c]][d]
          /\ answer'[d] = IF waiters[key[c]][d] > 0 THEN fetched[c] ELSE answer[d]
          /\ waiters[key[c]][d] \in Nat /\ sent[d] \in Nat
      BY <1>10, <2>1, SMT, SMTT(30) DEF Deliver, TypeOK
    <3>2. waiters[key[c]][d] > 0 => key[d] = key[c]
      BY <2>1 DEF TaskInv, ListsSound
    <3>3. ~(waiters[key[c]][d] > 0) => sent'[d] = sent[d]
      <4>1. \A m, n \in Nat : ~(m > 0) => n + m = n
        BY SMT, SMTT(30)
      <4> QED
        BY <3>1, <4>1, Zenon
    <3> QED
      BY <3>1, <3>2, <3>3, Zenon
  <2>3. \A d \in Calls \ {c} : fetcher[d] \in Active => key[d] # key[c]
    BY <2>1 DEF TaskInv, FlightInv, SingleFlight, Active
  <2>4. ASSUME NEW k \in Keys, NEW v \in Versions, Bounds(k, v),
               k = key[c] => fetched[c] <= v
        PROVE  Bounds(k, v)'
    BY <2>1, <2>2, <2>4, SMT, SMTT(30) DEF Bounds
  <2>5. /\ fetched[c] <= upstream[key[c]]
        /\ cache[key[c]] # None => fetched[c] <= cache[key[c]]
        /\ fetched[c] # Error => Bounds(key[c], fetched[c])
    <3>1. upstream[key[c]] \in Versions /\ cache[key[c]] \in Versions \cup {None}
      BY <2>1
    <3>2. CASE fetcher[c] = "failed"
      <4>1. fetched[c] = Error
        BY <3>2 DEF ReadsInv, FetcherOwnsEntry
      <4> QED
        BY <1>0, <3>1, <4>1, Zenon
    <3>3. CASE fetcher[c] = "stored"
      <4>1. /\ fetched[c] \in Versions /\ fetched[c] <= upstream[key[c]]
            /\ Bounds(key[c], fetched[c])
        BY <3>3, Zenon DEF ReadsInv, NewestOnTheWay
      <4>2. cache[key[c]] # None => cache[key[c]] = fetched[c]
        BY <3>3 DEF ReadsInv, FetcherOwnsEntry
      <4>3. fetched[c] <= fetched[c]
        BY <1>0, <4>1, Zenon
      <4> QED
        BY <4>1, <4>2, <4>3, Zenon
    <3> QED
      BY <2>1, <3>2, <3>3
  <2>6. NewestOnTheWay'
    <3>1. \A k \in Keys : Bounds(k, upstream[k])'
      <4> SUFFICES ASSUME NEW k \in Keys PROVE Bounds(k, upstream[k])'
        OBVIOUS
      <4>1. PICK v \in Versions : v = upstream[k]
        OBVIOUS
      <4>2. Bounds(k, v)'
        BY <2>4, <2>5, <4>1 DEF ReadsInv, NewestOnTheWay
      <4> QED
        BY <2>1, <4>1, <4>2 DEF Bounds
    <3>2. ASSUME NEW k \in Keys, cache[k] # None
          PROVE  cache'[k] <= upstream'[k] /\ Bounds(k, cache[k])'
      <4>1. PICK v \in Versions : v = cache[k]
        BY <3>2
      <4>2. Bounds(k, v)'
        BY <2>4, <2>5, <3>2, <4>1 DEF ReadsInv, NewestOnTheWay
      <4> QED
        BY <2>1, <3>2, <4>1, <4>2 DEF Bounds, ReadsInv, NewestOnTheWay
    <3>3. ASSUME NEW d \in Calls, fetcher'[d] \in {"fetched", "stored"}
          PROVE  /\ fetched'[d] \in Versions /\ fetched'[d] <= upstream'[key'[d]]
                 /\ Bounds(key[d], fetched[d])'
      <4>1. d # c /\ fetcher[d] = fetcher'[d] /\ key[d] # key[c] /\ key[d] \in Keys
        BY <2>1, <2>3, <3>3 DEF Active
      <4>2. /\ fetched[d] \in Versions /\ fetched[d] <= upstream[key[d]]
            /\ Bounds(key[d], fetched[d])
        BY <3>3, <4>1, Zenon DEF ReadsInv, NewestOnTheWay
      <4>3. PICK k \in Keys, v \in Versions : k = key[d] /\ v = fetched[d]
        BY <4>1, <4>2, Zenon
      <4>4. Bounds(k, v)'
        BY <2>4, <4>1, <4>2, <4>3, Zenon
      <4> QED
        BY <2>1, <4>2, <4>3, <4>4 DEF Bounds
    <3> QED
      BY <2>1, <3>1, <3>2, <3>3 DEF NewestOnTheWay
  <2>7. FetcherOwnsEntry'
    BY <2>1 DEF ReadsInv, FetcherOwnsEntry
  <2>8. AnswersNotOlder'
    <3>1. fetched[c] # Error => \A d \in Calls : key[d] = key[c] => fetched[c] >= floor[d]
      BY <1>0, <2>5 DEF ReadsInv, Bounds
    <3> QED
      BY <2>1, <2>2, <3>1 DEF ReadsInv, AnswersNotOlder
  <2>9. MonotoneReads'
    BY <2>1 DEF ReadsInv, MonotoneReads
  <2> QED
    BY <2>1, <2>6, <2>7, <2>8, <2>9 DEF ReadsInv
<1>11. ASSUME NEW k \in Keys, Expire(k) PROVE ReadsInv'
  <2>1. /\ UNCHANGED <<key, pc, result, floor, fetcher, fetched, upstream, sent, answer>>
        /\ cache'[k] = None /\ \A j \in Keys \ {k} : cache'[j] = cache[j]
    BY <1>11 DEF Expire, callVars, execVars, chanVars
  <2> QED
    BY <2>1 DEF ReadsInv, NewestOnTheWay, FetcherOwnsEntry, AnswersNotOlder, MonotoneReads, Bounds
<1>12. ASSUME NEW k \in Keys, Change(k) PROVE ReadsInv'
  <2>1. /\ UNCHANGED <<key, pc, result, floor, fetcher, fetched, cache, sent, answer>>
        /\ upstream' = [upstream EXCEPT ![k] = @ + 1]
    BY <1>12 DEF Change, callVars, execVars, chanVars
  <2>2. \A j \in Keys : upstream[j] \in Int /\ upstream'[j] \in Int /\ upstream[j] <= upstream'[j]
    <3>1. \A j \in Keys : upstream[j] \in Int
      BY <1>0
    <3> QED
      BY <2>1, <3>1, SMT, SMTT(30)
  <2>3. \A j \in Keys : Bounds(j, upstream[j])'
    <3>1. \A j \in Keys, d \in Calls :
            floor[d] \in Int /\ answer[d] \in Int /\ result[d] \in Int
      BY <1>0 DEF ReadsInv
    <3> QED
      BY <2>1, <2>2, <3>1, SMT, SMTT(30) DEF ReadsInv, NewestOnTheWay, Bounds
  <2>4. ASSUME NEW j \in Keys, cache[j] # None
        PROVE  cache'[j] <= upstream'[j] /\ Bounds(j, cache[j])'
    <3>1. cache[j] \in Int /\ cache[j] <= upstream[j] /\ Bounds(j, cache[j])
      BY <1>0, <2>4 DEF ReadsInv, NewestOnTheWay
    <3> QED
      BY <2>1, <2>2, <3>1, SMT, SMTT(30) DEF Bounds
  <2>5. ASSUME NEW d \in Calls, fetcher[d] \in {"fetched", "stored"}
        PROVE  /\ fetched'[d] \in Versions /\ fetched'[d] <= upstream'[key'[d]]
               /\ Bounds(key[d], fetched[d])'
    <3>1. /\ key[d] \in Keys /\ fetched[d] \in Versions /\ fetched[d] <= upstream[key[d]]
          /\ Bounds(key[d], fetched[d])
      BY <2>5, Zenon DEF ReadsInv, NewestOnTheWay
    <3>2. fetched[d] <= upstream'[key[d]]
      <4>1. fetched[d] \in Int
        BY <1>0, <3>1
      <4> QED
        BY <2>2, <3>1, <4>1, SMT, SMTT(30)
    <3> QED
      BY <2>1, <3>1, <3>2 DEF Bounds
  <2>6. NewestOnTheWay'
    BY <2>1, <2>3, <2>4, <2>5 DEF NewestOnTheWay
  <2> QED
    BY <2>1, <2>6 DEF ReadsInv, FetcherOwnsEntry, AnswersNotOlder, MonotoneReads
<1>13. CASE UNCHANGED vars
  BY <1>4, <1>13 DEF vars, execVars
<1> QED
  BY <1>1, <1>2, <1>5, <1>6, <1>7, <1>8, <1>9, <1>10, <1>11, <1>12, <1>13, Zenon DEF Next, FetchStep

(***************************************************************************)
(* A call never returns an older value than one that had been returned for *)
(* its key before: nothing in the cache, with a goroutine or in a result   *)
(* channel is older than what calls have seen when it gets there, and a    *)
(* goroutine that fetches is the only one that fills the entry of its key. *)
(***************************************************************************)
THEOREM ReadsAreMonotone == Spec => []MonotoneReads
<1>1. Init => TaskInv /\ ReadsInv
  <2>1. Init => ReadsInv
    BY SpikeAssumption, SMT, SMTT(30)
       DEF Init, ReadsInv, NewestOnTheWay, FetcherOwnsEntry, AnswersNotOlder, MonotoneReads, Bounds,
           Results, None, Error, SpikeAssumption
  <2> QED
    BY <2>1, TaskInit
<1>2. TypeOK /\ TaskInv /\ ReadsInv /\ [Next]_vars => TaskInv' /\ ReadsInv'
  BY FlightStep, TaskStep, ReadsStep DEF TaskInv
<1>3. ReadsInv => MonotoneReads
  BY SMT, SMTT(30) DEF ReadsInv
<1> QED
  BY <1>1, <1>2, <1>3, TypeCorrect, PTL DEF Spec
=============================================================================
