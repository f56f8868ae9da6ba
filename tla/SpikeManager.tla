---------------------------- MODULE SpikeManager ----------------------------
(***************************************************************************)
(* The spike manager of spike/manager.go: concurrent GetResult calls for   *)
(* the same key share one Fetch.  The calls put tasks into a bounded       *)
(* channel, one loop serves them from the cache or hands them to a         *)
(* goroutine, and the goroutine that fetches answers everybody who waits   *)
(* for its key.                                                            *)
(*                                                                         *)
(* A critical section of m.mu is one step: what it reads is protected by   *)
(* m.mu, except for the cache, which it reads once.                        *)
(***************************************************************************)
EXTENDS Integers, Sequences

CONSTANTS
  Calls,          \* calls of GetResult, each with a result channel of its own
  Keys,
  taskQueueLen,
  MaxVersion      \* bound: changes of what Fetch reads

ASSUME SpikeAssumption == taskQueueLen \in Nat \ {0} /\ MaxVersion \in Nat

VARIABLES
  key,                \* the key of each call
  pc,                 \* where each call is: calling, sending its task, waiting
  taskQueue,
  loop,               \* the task the loop has received, as a sequence of at most one
  fetcher,            \* the goroutine started for each call's task
  fetched,            \* what that goroutine has fetched
  executing,          \* the keys of currentlyExecuted
  waiters,            \* how often each channel is in the list of each key
  cache,              \* the handler's cache: a version, or None
  sent,               \* sends on each result channel
  answer,             \* what was sent on it
  upstream,           \* what a Fetch reads now; versions count up
  result,             \* what GetResult returned
  floor               \* history: newest version returned for the key before the call

callVars  == <<key, pc, result, floor>>
cacheVars == <<cache, upstream>>
execVars  == <<fetcher, fetched, executing, waiters>>
chanVars  == <<sent, answer>>
vars == <<callVars, taskQueue, loop, execVars, cacheVars, chanVars>>

None     == -1            \* no value
Error    == -2            \* an error of Fetch, or of the caller's context
Versions == 0 .. MaxVersion

\* A goroutine from the registration of its key to the delivery.
Active == {"fetching", "fetched", "stored", "failed"}

Init ==
  /\ key \in [Calls -> Keys]
  /\ pc = [c \in Calls |-> "new"]
  /\ taskQueue = << >>
  /\ loop = << >>
  /\ fetcher = [c \in Calls |-> "none"]
  /\ fetched = [c \in Calls |-> None]
  /\ executing = {}
  /\ waiters = [k \in Keys |-> [c \in Calls |-> 0]]
  /\ cache = [k \in Keys |-> None]
  /\ sent = [c \in Calls |-> 0]
  /\ answer = [c \in Calls |-> None]
  /\ upstream = [k \in Keys |-> 0]
  /\ result = [c \in Calls |-> None]
  /\ floor = [c \in Calls |-> None]

-----------------------------------------------------------------------------
\* The newest version that calls for k have returned.
Newest(k) ==
  LET seen == {None} \cup {result[c] : c \in {d \in Calls : key[d] = k /\ pc[d] = "returned"}}
  IN  CHOOSE v \in seen : \A u \in seen : u <= v

Return(c, v) ==
  /\ pc' = [pc EXCEPT ![c] = "returned"]
  /\ result' = [result EXCEPT ![c] = v]

\* GetResult looks into the cache.
GetCached(c) ==
  /\ pc[c] = "new"
  /\ floor' = [floor EXCEPT ![c] = Newest(key[c])]
  /\ \/ /\ cache[key[c]] # None
        /\ Return(c, cache[key[c]])
     \/ /\ cache[key[c]] = None
        /\ pc' = [pc EXCEPT ![c] = "enqueue"]
        /\ UNCHANGED result
  /\ UNCHANGED <<key, taskQueue, loop, execVars, cacheVars, chanVars>>

\* The send on taskQueue blocks while the channel is full, whatever the context.
Enqueue(c) ==
  /\ pc[c] = "enqueue"
  /\ Len(taskQueue) < taskQueueLen
  /\ taskQueue' = Append(taskQueue, c)
  /\ pc' = [pc EXCEPT ![c] = "wait"]
  /\ UNCHANGED <<key, result, floor, loop, execVars, cacheVars, chanVars>>

Receive(c) ==
  /\ pc[c] = "wait" /\ sent[c] > 0
  /\ Return(c, answer[c])
  /\ UNCHANGED <<key, floor, taskQueue, loop, execVars, cacheVars, chanVars>>

\* The context of the call is done; its task stays where it is.
GiveUp(c) ==
  /\ pc[c] = "wait"
  /\ Return(c, Error)
  /\ UNCHANGED <<key, floor, taskQueue, loop, execVars, cacheVars, chanVars>>

-----------------------------------------------------------------------------
\* A send on a result channel has room for one result only: the sender of a
\* second one would wait with m.mu locked.
Send(c, v) ==
  /\ sent[c] = 0
  /\ sent' = [sent EXCEPT ![c] = 1]
  /\ answer' = [answer EXCEPT ![c] = v]

Join(c) == waiters' = [waiters EXCEPT ![key[c]][c] = @ + 1]

LoopReceive ==
  /\ loop = << >> /\ taskQueue # << >>
  /\ loop' = <<Head(taskQueue)>>
  /\ taskQueue' = Tail(taskQueue)
  /\ UNCHANGED <<callVars, execVars, cacheVars, chanVars>>

\* The loop answers from the cache, joins a running fetch or starts a goroutine.
LoopHandle_NoContinue ==
  /\ loop # << >>
  /\ loop' = << >>
  /\ LET c == loop[1]
     IN  /\ IF cache[key[c]] # None THEN Send(c, cache[key[c]]) ELSE UNCHANGED chanVars
         /\ IF key[c] \in executing
              THEN Join(c) /\ UNCHANGED fetcher
              ELSE fetcher' = [fetcher EXCEPT ![c] = "start"] /\ UNCHANGED waiters
  /\ UNCHANGED <<callVars, taskQueue, fetched, executing, cacheVars>>

LoopHandle ==
  /\ loop # << >>
  /\ loop' = << >>
  /\ LET c == loop[1]
     IN  \/ /\ cache[key[c]] # None
            /\ Send(c, cache[key[c]])
            /\ UNCHANGED <<fetcher, waiters>>
         \/ /\ cache[key[c]] = None /\ key[c] \in executing
            /\ Join(c)
            /\ UNCHANGED <<fetcher, chanVars>>
         \/ /\ cache[key[c]] = None /\ key[c] \notin executing
            /\ fetcher' = [fetcher EXCEPT ![c] = "start"]
            /\ UNCHANGED <<waiters, chanVars>>
  /\ UNCHANGED <<callVars, taskQueue, fetched, executing, cacheVars>>

\* The goroutine looks again, since the loop has unlocked m.mu in between.
StartFetch_NoRecheck(c) ==
  /\ fetcher[c] = "start"
  /\ fetcher' = [fetcher EXCEPT ![c] = "fetching"]
  /\ executing' = executing \cup {key[c]}
  /\ waiters' = [waiters EXCEPT ![key[c]] = [d \in Calls |-> IF d = c THEN 1 ELSE 0]]
  /\ UNCHANGED <<callVars, taskQueue, loop, fetched, cacheVars, chanVars>>

StartFetch(c) ==
  /\ fetcher[c] = "start"
  /\ \/ /\ cache[key[c]] # None
        /\ Send(c, cache[key[c]])
        /\ fetcher' = [fetcher EXCEPT ![c] = "done"]
        /\ UNCHANGED <<executing, waiters>>
     \/ /\ cache[key[c]] = None /\ key[c] \in executing
        /\ Join(c)
        /\ fetcher' = [fetcher EXCEPT ![c] = "done"]
        /\ UNCHANGED <<executing, chanVars>>
     \/ /\ cache[key[c]] = None /\ key[c] \notin executing
        /\ fetcher' = [fetcher EXCEPT ![c] = "fetching"]
        /\ executing' = executing \cup {key[c]}
        /\ waiters' = [waiters EXCEPT ![key[c]] = [d \in Calls |-> IF d = c THEN 1 ELSE 0]]
        /\ UNCHANGED chanVars
  /\ UNCHANGED <<callVars, taskQueue, loop, fetched, cacheVars>>

\* Fetch reads the external resource, or fails.
Fetch(c) ==
  /\ fetcher[c] = "fetching"
  /\ \/ /\ fetcher' = [fetcher EXCEPT ![c] = "fetched"]
        /\ fetched' = [fetched EXCEPT ![c] = upstream[key[c]]]
     \/ /\ fetcher' = [fetcher EXCEPT ![c] = "failed"]
        /\ fetched' = [fetched EXCEPT ![c] = Error]
  /\ UNCHANGED <<callVars, taskQueue, loop, executing, waiters, cacheVars, chanVars>>

\* handler.Set, without m.mu.
Set(c) ==
  /\ fetcher[c] = "fetched"
  /\ fetcher' = [fetcher EXCEPT ![c] = "stored"]
  /\ cache' = [cache EXCEPT ![key[c]] = fetched[c]]
  /\ UNCHANGED <<callVars, taskQueue, loop, fetched, executing, waiters, upstream, chanVars>>

\* The result or the error goes to every channel in the list of the key.
Deliver_KeepsKey(c) ==
  /\ fetcher[c] \in {"stored", "failed"}
  /\ \A d \in Calls : waiters[key[c]][d] + sent[d] <= 1
  /\ sent' = [d \in Calls |-> sent[d] + waiters[key[c]][d]]
  /\ answer' = [d \in Calls |-> IF waiters[key[c]][d] > 0 THEN fetched[c] ELSE answer[d]]
  /\ fetcher' = [fetcher EXCEPT ![c] = "done"]
  /\ waiters' = [waiters EXCEPT ![key[c]] = [d \in Calls |-> 0]]
  /\ UNCHANGED <<callVars, taskQueue, loop, fetched, executing, cacheVars>>

Deliver(c) ==
  /\ fetcher[c] \in {"stored", "failed"}
  /\ \A d \in Calls : waiters[key[c]][d] + sent[d] <= 1
  /\ sent' = [d \in Calls |-> sent[d] + waiters[key[c]][d]]
  /\ answer' = [d \in Calls |-> IF waiters[key[c]][d] > 0 THEN fetched[c] ELSE answer[d]]
  /\ executing' = executing \ {key[c]}
  /\ waiters' = [waiters EXCEPT ![key[c]] = [d \in Calls |-> 0]]
  /\ fetcher' = [fetcher EXCEPT ![c] = "done"]
  /\ UNCHANGED <<callVars, taskQueue, loop, fetched, cacheVars>>

-----------------------------------------------------------------------------
\* The environment: an entry expires, the external resource changes.
Expire(k) ==
  /\ cache[k] # None
  /\ cache' = [cache EXCEPT ![k] = None]
  /\ UNCHANGED <<callVars, taskQueue, loop, execVars, upstream, chanVars>>

Change(k) ==
  /\ upstream[k] < MaxVersion
  /\ upstream' = [upstream EXCEPT ![k] = @ + 1]
  /\ UNCHANGED <<callVars, taskQueue, loop, execVars, cache, chanVars>>

FetchStep(c) == StartFetch(c) \/ Fetch(c) \/ Set(c) \/ Deliver(c)

Next ==
  \/ \E c \in Calls : GetCached(c) \/ Enqueue(c) \/ Receive(c) \/ GiveUp(c) \/ FetchStep(c)
  \/ LoopReceive \/ LoopHandle
  \/ \E k \in Keys : Expire(k) \/ Change(k)

Spec == Init /\ [][Next]_vars

(***************************************************************************)
(* The loop and the goroutines run whenever they can, and Fetch returns.   *)
(* A call need not be made, and its context need not end.                  *)
(***************************************************************************)
FairSpec ==
  /\ Spec
  /\ WF_vars(LoopReceive) /\ WF_vars(LoopHandle)
  /\ \A c \in Calls : /\ WF_vars(FetchStep(c))
                      /\ SF_vars(Enqueue(c))
                      /\ WF_vars(Receive(c))

-----------------------------------------------------------------------------
Results == Versions \cup {None, Error}

\* The types of the variables.
TypeOK ==
  /\ key \in [Calls -> Keys]
  /\ pc \in [Calls -> {"new", "enqueue", "wait", "returned"}]
  /\ taskQueue \in Seq(Calls) /\ Len(taskQueue) <= taskQueueLen
  /\ loop \in Seq(Calls) /\ Len(loop) <= 1
  /\ fetcher \in [Calls -> Active \cup {"none", "start", "done"}]
  /\ fetched \in [Calls -> Results]
  /\ executing \subseteq Keys
  /\ waiters \in [Keys -> [Calls -> Nat]]
  /\ cache \in [Keys -> Versions \cup {None}]
  /\ upstream \in [Keys -> Versions]
  /\ sent \in [Calls -> Nat]
  /\ answer \in [Calls -> Results]
  /\ result \in [Calls -> Results]

(***************************************************************************)
(* At most one Fetch for a key is under way, however many calls miss the   *)
(* cache at once and whenever the entry expires.                           *)
(***************************************************************************)
SingleFlight ==
  \A c, d \in Calls :
    fetcher[c] \in Active /\ fetcher[d] \in Active /\ key[c] = key[d] => c = d

\* How many senders have or will have a result for the channel of c.
Places(c) ==
  [queued   |-> \E i \in 1 .. Len(taskQueue) : taskQueue[i] = c,
   loop     |-> loop = <<c>>,
   starting |-> fetcher[c] = "start",
   joined   |-> waiters[key[c]][c] > 0,
   answered |-> sent[c] > 0]

(***************************************************************************)
(* The task of a call that has been sent is in exactly one place: in the   *)
(* channel, with the loop, with its goroutine, in the list of its key, or  *)
(* answered.  So no waiting call is forgotten, and no sender ever finds    *)
(* the one slot of a result channel taken, which would leave m.mu locked.  *)
(***************************************************************************)
TaskInOnePlace ==
  \A c \in Calls :
    /\ pc[c] = "wait" => \E f \in DOMAIN Places(c) : Places(c)[f]
    /\ \A f, g \in DOMAIN Places(c) : Places(c)[f] /\ Places(c)[g] => f = g
    /\ waiters[key[c]][c] <= 1

(***************************************************************************)
(* A call never returns an older value of the resource than a call for the *)
(* same key that had returned before it was made.                          *)
(***************************************************************************)
MonotoneReads ==
  \A c \in Calls : pc[c] = "returned" /\ result[c] # Error => result[c] >= floor[c]

(***************************************************************************)
(* Every call that has missed the cache returns, also when the channel of  *)
(* the tasks was full and when no context ends.                            *)
(***************************************************************************)
CallsReturn == \A c \in Calls : pc[c] \in {"enqueue", "wait"} ~> pc[c] = "returned"
=============================================================================
