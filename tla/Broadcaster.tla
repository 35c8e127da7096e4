----------------------------- MODULE Broadcaster -----------------------------
(***************************************************************************)
(* The publisher: PublishQueue (publisher/queue.py), a bounded in-memory   *)
(* asyncio.Queue, and Broadcaster (publisher/broadcaster.py), the pool of  *)
(* workers that take items from it and post them to the Telegram channel.  *)
(*                                                                         *)
(* One event loop runs every coroutine, so a step here is what a coroutine *)
(* does between two awaits that suspend it.  queue.put suspends only when  *)
(* the queue is full: stop() therefore puts its sentinel and cancels the   *)
(* pool in one step.                                                       *)
(***************************************************************************)
EXTENDS Integers, Sequences, FiniteSets

CONSTANTS Items,       \* what can be published: saved rows
          Workers,     \* PUBLISH_CONCURRENCY workers (constants.py:66)
          Capacity,    \* maxsize of the queue (queue.py:35)
          MaxRetries,  \* PUBLISH_MAX_RETRIES (constants.py:65)
          None,        \* Python's None: the stop sentinel, and "no item"
          Faults       \* subset of {"raise"}: may a worker meet an exception
                       \* that send_message does not catch?

ASSUME BroadcasterAssumption ==
    /\ None \notin Items
    /\ IsFiniteSet(Workers)
    /\ Capacity \in Nat \ {0}
    /\ MaxRetries \in Nat
    /\ Faults \subseteq {"raise"}

VARIABLES queue,       \* PublishQueue.queue, oldest first
          unfinished,  \* the queue's count of items without task_done()
          worker,      \* where each worker stands
          holding,     \* the item a worker took and has not finished
          retries,     \* argument `retries` of its send_message call
          pool,        \* Broadcaster._task: "none", "running" or "done"
          stopper,     \* where Broadcaster.stop() stands
          accepted,    \* history: the items ever put in the queue
          posts        \* the channel: messages that appeared for each item

vars == <<queue, unfinished, worker, holding, retries, pool, stopper,
          accepted, posts>>

\* "idle": awaiting get_item; "send": a POST is in flight; "backoff": asleep
\* before another attempt; "pause": asleep after task_done.
Live    == {"idle", "send", "backoff", "pause"}
Ended   == {"off", "stopped", "dead", "cancelled"}
LiveWorkers == {w \in Workers : worker[w] \in Live}

TypeOK ==
    /\ queue \in Seq(Items \cup {None})
    /\ Len(queue) <= Capacity
    /\ unfinished \in Nat
    /\ worker \in [Workers -> Live \cup Ended]
    /\ holding \in [Workers -> Items \cup {None}]
    /\ retries \in [Workers -> 0 .. MaxRetries]
    /\ pool \in {"none", "running", "done"}
    /\ stopper \in {"off", "joining", "stopped"}
    /\ accepted \in SUBSET Items
    /\ posts \in [Items -> Nat]

\* The state of a process that has not started its publisher.
Init ==
    /\ queue = << >>
    /\ unfinished = 0
    /\ worker = [w \in Workers |-> "off"]
    /\ holding = [w \in Workers |-> None]
    /\ retries = [w \in Workers |-> 0]
    /\ pool = "none"
    /\ stopper = "off"
    /\ accepted = {}
    /\ posts = [i \in Items |-> 0]

-----------------------------------------------------------------------------
(* Broadcaster.start and _start_workers: the pool is created.              *)
Start ==
    /\ pool = "none"
    /\ pool' = "running"
    /\ worker' = [w \in Workers |-> "idle"]
    /\ UNCHANGED <<queue, unfinished, holding, retries, stopper, accepted, posts>>

(* PublishQueue.put: the caller waits while the queue is full.             *)
Put(i) ==
    /\ Len(queue) < Capacity
    /\ queue' = Append(queue, i)
    /\ unfinished' = unfinished + 1
    /\ accepted' = accepted \cup {i}
    /\ UNCHANGED <<worker, holding, retries, pool, stopper, posts>>

(* worker: get_item returned an item, format_message and the first POST.   *)
Get(w) ==
    /\ worker[w] = "idle"
    /\ queue # << >>
    /\ Head(queue) # None
    /\ queue' = Tail(queue)
    /\ worker' = [worker EXCEPT ![w] = "send"]
    /\ holding' = [holding EXCEPT ![w] = Head(queue)]
    /\ retries' = [retries EXCEPT ![w] = 0]
    /\ UNCHANGED <<unfinished, pool, stopper, accepted, posts>>

(* worker: get_item returned None; task_done and leave the loop.           *)
GetStop(w) ==
    /\ worker[w] = "idle"
    /\ queue # << >>
    /\ Head(queue) = None
    /\ queue' = Tail(queue)
    /\ unfinished' = unfinished - 1
    /\ worker' = [worker EXCEPT ![w] = "stopped"]
    /\ UNCHANGED <<holding, retries, pool, stopper, accepted, posts>>

\* Mutant: no task_done when the last attempt is over.
FinishLeaky(w) ==
    /\ unfinished' = IF retries[w] = MaxRetries THEN unfinished ELSE unfinished - 1
    /\ worker' = [worker EXCEPT ![w] = "pause"]
    /\ holding' = [holding EXCEPT ![w] = None]
    /\ UNCHANGED <<queue, retries, pool, stopper, accepted>>

(* send_message returned, with True or False: task_done, then the pause.   *)
Finish(w) ==
    /\ unfinished' = unfinished - 1
    /\ worker' = [worker EXCEPT ![w] = "pause"]
    /\ holding' = [holding EXCEPT ![w] = None]
    /\ UNCHANGED <<queue, retries, pool, stopper, accepted>>

\* Mutant: a retry that is not counted.
RetryUncounted(w) ==
    /\ retries[w] < MaxRetries
    /\ worker' = [worker EXCEPT ![w] = "backoff"]
    /\ UNCHANGED <<queue, unfinished, holding, retries, pool, stopper, accepted>>

(* Another attempt is due after a sleep: retry_after seconds, or two.      *)
Retry(w) ==
    /\ retries[w] < MaxRetries
    /\ worker' = [worker EXCEPT ![w] = "backoff"]
    /\ retries' = [retries EXCEPT ![w] = @ + 1]
    /\ UNCHANGED <<queue, unfinished, holding, pool, stopper, accepted>>

Appears(w) == posts' = [posts EXCEPT ![holding[w]] = @ + 1]

(* Status 200.                                                             *)
PostOk(w) ==
    /\ worker[w] = "send"
    /\ Appears(w)
    /\ Finish(w)

(* Status 429 with attempts left.                                          *)
PostThrottled(w) ==
    /\ worker[w] = "send"
    /\ Retry(w)
    /\ UNCHANGED posts

(* Any other status, and 429 on the last attempt: the item is dropped.     *)
PostRefused(w) ==
    /\ worker[w] = "send"
    /\ Finish(w)
    /\ UNCHANGED posts

(* Timeout or ClientError: the message may have reached the channel.       *)
PostFailed(w) ==
    /\ worker[w] = "send"
    /\ \/ Appears(w)
       \/ UNCHANGED posts
    /\ \/ Retry(w)
       \/ retries[w] = MaxRetries /\ Finish(w)

(* An exception send_message does not catch (a 429 whose body is not the   *)
(* expected object), or one of format_message (a country code that is      *)
(* None): the worker ends without task_done, and gather, which has no      *)
(* return_exceptions, ends _task.  The other workers run on.               *)
Raise(w) ==
    /\ "raise" \in Faults
    /\ worker[w] = "send"
    /\ worker' = [worker EXCEPT ![w] = "dead"]
    /\ pool' = "done"
    /\ UNCHANGED <<queue, unfinished, holding, retries, stopper, accepted, posts>>

Attempt(w) == PostOk(w) \/ PostThrottled(w) \/ PostRefused(w) \/ PostFailed(w)
                \/ Raise(w)

\* Mutant: the pause after an item does not end.
WakeNever(w) ==
    /\ worker[w] = "backoff"
    /\ worker' = [worker EXCEPT ![w] = "send"]
    /\ UNCHANGED <<queue, unfinished, holding, retries, pool, stopper,
                   accepted, posts>>

(* The sleep before a repeated attempt, or the pause after an item, ends.  *)
Wake(w) ==
    /\ worker[w] \in {"backoff", "pause"}
    /\ worker' = [worker EXCEPT ![w] = IF @ = "backoff" THEN "send" ELSE "idle"]
    /\ UNCHANGED <<queue, unfinished, holding, retries, pool, stopper,
                   accepted, posts>>

(* Any of the POSTs in flight may still appear when its worker is cut off. *)
InFlight == {w \in Workers : worker[w] = "send"}
LastPosts(ws) ==
    posts' = [i \in Items |->
                 IF \E w \in ws : holding[w] = i THEN posts[i] + 1 ELSE posts[i]]

\* Mutant: stop() relies on the sentinel alone and cancels nothing.
StopBySentinel ==
    /\ stopper = "off"
    /\ Len(queue) < Capacity
    /\ queue' = Append(queue, None)
    /\ unfinished' = unfinished + 1
    /\ stopper' = "stopped"
    /\ UNCHANGED <<worker, holding, retries, pool, accepted, posts>>

(* Broadcaster.stop: put None, waiting while the queue is full; then, if   *)
(* _task is not done, cancel it, which cancels every worker where it       *)
(* stands, the one put(None) woke up included.                             *)
Stop ==
    /\ stopper = "off"
    /\ Len(queue) < Capacity
    /\ queue' = Append(queue, None)
    /\ unfinished' = unfinished + 1
    /\ IF pool = "running"
       THEN /\ stopper' = "joining"
            /\ pool' = "done"
            /\ worker' = [w \in Workers |-> IF worker[w] \in Live
                                            THEN "cancelled" ELSE worker[w]]
            /\ \E ws \in SUBSET InFlight : LastPosts(ws)
       ELSE /\ stopper' = "stopped"
            /\ UNCHANGED <<pool, worker, posts>>
    /\ UNCHANGED <<holding, retries, accepted>>

(* stop() saw _task end.                                                   *)
StopJoined ==
    /\ stopper = "joining"
    /\ stopper' = "stopped"
    /\ UNCHANGED <<queue, unfinished, worker, holding, retries, pool,
                   accepted, posts>>

\* The process ends; the queue and the workers go with it.
Vanish ==
    /\ queue' = << >>
    /\ unfinished' = 0
    /\ worker' = [w \in Workers |-> "off"]
    /\ holding' = [w \in Workers |-> None]
    /\ retries' = [w \in Workers |-> 0]
    /\ pool' = "none"
    /\ stopper' = "off"
    /\ UNCHANGED accepted
    /\ \E ws \in SUBSET InFlight : LastPosts(ws)

WorkerStep(w) == Get(w) \/ GetStop(w) \/ Attempt(w) \/ Wake(w)

Next ==
    \/ Start
    \/ \E i \in Items \ accepted : pool # "none" /\ Put(i)
    \/ \E w \in Workers : WorkerStep(w)
    \/ pool # "none" /\ Stop
    \/ StopJoined

Spec == Init /\ [][Next]_vars

(* Every worker coroutine is scheduled, every POST ends within its 15      *)
(* seconds (ClientTimeout), every sleep ends, and stop() resumes once      *)
(* _task is done.  Nobody has to put items or to call stop().              *)
Fairness ==
    /\ \A w \in Workers : WF_vars(WorkerStep(w))
    /\ WF_vars(StopJoined)

FairSpec == Spec /\ Fairness

-----------------------------------------------------------------------------
InQueue(i) == \E k \in 1 .. Len(queue) : queue[k] = i

(* An accepted item is in at most one place: one position of the queue or  *)
(* one worker's hands.  Two workers that post at the same time (the pool   *)
(* of _start_workers) never post the same row.                             *)
ItemInOnePlace ==
    /\ \A k, l \in 1 .. Len(queue) :
           queue[k] = queue[l] /\ queue[k] # None => k = l
    /\ \A v, w \in Workers :
           holding[v] = holding[w] /\ holding[v] # None => v = w
    /\ \A w \in Workers : holding[w] # None => ~InQueue(holding[w])

(* send_message counts its own recursive calls: whatever mix of 429s,      *)
(* timeouts and errors it meets, an item appears in the channel at most    *)
(* PUBLISH_MAX_RETRIES + 1 times.                                          *)
PostBound == \A i \in Items : posts[i] <= MaxRetries + 1

(* task_done() is called once for every get(): the count that              *)
(* PublishQueue.join would wait on is the queue plus the items in hand,    *)
(* those of cancelled and dead workers included, which no one will finish. *)
JoinAccounting ==
    unfinished = Len(queue) + Cardinality({w \in Workers : holding[w] # None})

Died == \E w \in Workers : worker[w] = "dead"

(* Before start() there are no workers; the pool's task ends by stop(),    *)
(* which leaves no worker, or because a worker died.                       *)
PoolInv ==
    /\ pool = "none" => \A w \in Workers : worker[w] = "off"
    /\ pool = "done" => stopper # "off" \/ Died
    /\ stopper # "off" => pool = "done" /\ (LiveWorkers = {} \/ Died)

(* The inductive invariant behind the three: an item waits unposted in the *)
(* queue; in a worker's hands the posts of an item are counted by the      *)
(* attempts the worker has made.                                           *)
WorkerShape(w) ==
    /\ worker[w] \in {"send", "backoff", "dead"} =>
           holding[w] # None /\ posts[holding[w]] <= retries[w]
    /\ worker[w] \in {"off", "idle", "pause", "stopped"} => holding[w] = None
    /\ holding[w] # None => posts[holding[w]] <= retries[w] + 1
ItemShape(i) ==
    /\ InQueue(i) => i \in accepted /\ posts[i] = 0
    /\ i \notin accepted => posts[i] = 0
    /\ posts[i] <= MaxRetries + 1
ItemsInv ==
    /\ TypeOK
    /\ ItemInOnePlace
    /\ JoinAccounting
    /\ \A w \in Workers : WorkerShape(w)
    /\ \A w \in Workers : holding[w] # None => holding[w] \in accepted
    /\ \A i \in Items : ItemShape(i)

BroadcasterInv == ItemsInv /\ PoolInv

(* Once stop() has returned no worker is left that could take or post an   *)
(* item (main.py:203-206: the publisher is stopped before the database is  *)
(* closed), if none had died before: gather then has ended _task already,  *)
(* and the single sentinel reaches one of the survivors.                   *)
StopEndsPool == stopper = "stopped" /\ ~Died => LiveWorkers = {}

(* While a worker is left, an accepted item is eventually out of the queue *)
(* and out of the workers' hands: neither an item that keeps failing nor a *)
(* worker that died blocks the items behind it.                            *)
Served(i) ==
    i \in accepted /\ ~InQueue(i) /\ \A w \in LiveWorkers : holding[w] # i
EventuallyServed ==
    \A i \in Items : i \in accepted ~> Served(i) \/ LiveWorkers = {}
=============================================================================
