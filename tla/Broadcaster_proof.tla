-------------------------- MODULE Broadcaster_proof --------------------------
(***************************************************************************)
(* Proofs about Broadcaster: type correctness, that an item is in one      *)
(* place, the bound on the messages an item causes, the accounting of      *)
(* task_done, and that stop() ends a pool whose workers do not die.        *)
(***************************************************************************)
EXTENDS Broadcaster, FiniteSetTheorems, TLAPS

USE BroadcasterAssumption

Busy == {w \in Workers : holding[w] # None}

LEMMA BusyFinite ==
    /\ IsFiniteSet(Busy)
    /\ Cardinality(Busy) \in Nat
BY FS_Subset, FS_CardinalityType DEF Busy, BroadcasterAssumption

LEMMA InitInv == Init => ItemsInv
<1> SUFFICES ASSUME Init
             PROVE  ItemsInv
  OBVIOUS
<1>1. Busy = {}
  BY DEF Init, Busy
<1>2. JoinAccounting
  <2>1. Cardinality(Busy) = 0
    BY <1>1, FS_EmptySet
  <2>2. QED
    BY <2>1 DEF Init, JoinAccounting, Busy
<1>3. TypeOK
  BY DEF Init, TypeOK, Live, Ended, BroadcasterAssumption
<1>4. ItemInOnePlace /\ \A i \in Items : ItemShape(i)
  BY DEF Init, ItemInOnePlace, InQueue, ItemShape, BroadcasterAssumption
<1>5. \A w \in Workers : WorkerShape(w)
  BY DEF Init, WorkerShape, BroadcasterAssumption
<1>6. QED
  BY <1>2, <1>3, <1>4, <1>5 DEF Init, ItemsInv

(* A step that touches neither the queue nor what the workers hold.        *)
LEMMA PlacesKept ==
    ASSUME ItemsInv, UNCHANGED <<queue, holding, unfinished, accepted>>
    PROVE  /\ ItemInOnePlace' /\ JoinAccounting'
           /\ \A w \in Workers : holding'[w] # None => holding'[w] \in accepted'
           /\ \A i : InQueue(i)' <=> InQueue(i)
BY DEF ItemsInv, ItemInOnePlace, InQueue, JoinAccounting

LEMMA StartStep ==
    ASSUME ItemsInv, Start, \A w \in Workers : holding[w] = None
    PROVE  ItemsInv'
<1>1. TypeOK'
  BY DEF Start, ItemsInv, TypeOK, Live
<1>2. \A w \in Workers : WorkerShape(w)'
  BY DEF Start, ItemsInv, TypeOK, WorkerShape
<1>3. \A i \in Items : ItemShape(i)'
  BY PlacesKept DEF Start, ItemsInv, ItemShape
<1>4. QED
  BY <1>1, <1>2, <1>3, PlacesKept DEF Start, ItemsInv

LEMMA PutStep ==
    ASSUME ItemsInv, NEW i \in Items \ accepted, Put(i)
    PROVE  ItemsInv'
<1>1. /\ queue \in Seq(Items \cup {None}) /\ Len(queue) \in Nat
      /\ queue' = Append(queue, i)
      /\ Len(queue') = Len(queue) + 1
      /\ queue'[Len(queue) + 1] = i
      /\ \A k \in 1 .. Len(queue) : queue'[k] = queue[k]
  BY DEF Put, ItemsInv, TypeOK
<1>2. TypeOK'
  BY <1>1 DEF Put, ItemsInv, TypeOK
<1>3. \A x : InQueue(x)' <=> InQueue(x) \/ x = i
  BY <1>1 DEF InQueue
<1>4. ~InQueue(i) /\ posts[i] = 0 /\ i # None /\ \A w \in Workers : holding[w] # i
  BY DEF ItemsInv, ItemShape, BroadcasterAssumption
<1>5. ItemInOnePlace'
  <2>1. ASSUME NEW k \in 1 .. Len(queue'), NEW l \in 1 .. Len(queue'),
               queue'[k] = queue'[l], queue'[k] # None
        PROVE  k = l
    <3>1. CASE k <= Len(queue) /\ l <= Len(queue)
      BY <1>1, <2>1, <3>1 DEF ItemsInv, ItemInOnePlace
    <3>2. CASE k = Len(queue) + 1 \/ l = Len(queue) + 1
      BY <1>1, <1>4, <2>1, <3>2 DEF InQueue
    <3>3. QED
      BY <1>1, <3>1, <3>2
  <2>2. \A w \in Workers : holding'[w] # None => ~InQueue(holding[w])'
    BY <1>3, <1>4 DEF Put, ItemsInv, ItemInOnePlace
  <2>3. QED
    BY <2>1, <2>2 DEF Put, ItemsInv, ItemInOnePlace, InQueue
<1>6. JoinAccounting'
  BY <1>1, BusyFinite DEF Put, ItemsInv, JoinAccounting, TypeOK, Busy
<1>7. \A w \in Workers : WorkerShape(w)'
  BY DEF Put, ItemsInv, WorkerShape
<1>8. \A x \in Items : ItemShape(x)'
  BY <1>3, <1>4 DEF Put, ItemsInv, ItemShape
<1>9. QED
  BY <1>2, <1>5, <1>6, <1>7, <1>8 DEF Put, ItemsInv

(* Taking the head of the queue leaves the others, one place further.      *)
LEMMA TailFacts ==
    ASSUME queue \in Seq(Items \cup {None}), queue # << >>, queue' = Tail(queue)
    PROVE  /\ queue' \in Seq(Items \cup {None})
           /\ Len(queue) \in Nat \ {0}
           /\ Len(queue') = Len(queue) - 1
           /\ Head(queue) = queue[1]
           /\ \A k \in 1 .. Len(queue') : queue'[k] = queue[k + 1]
OBVIOUS

LEMMA GetStep ==
    ASSUME ItemsInv, NEW w \in Workers, Get(w)
    PROVE  ItemsInv'
<1> DEFINE i == Head(queue)
<1>1. /\ queue \in Seq(Items \cup {None})
      /\ queue' \in Seq(Items \cup {None})
      /\ Len(queue) \in Nat \ {0}
      /\ Len(queue') = Len(queue) - 1
      /\ i = queue[1]
      /\ \A k \in 1 .. Len(queue') : queue'[k] = queue[k + 1]
  BY TailFacts DEF Get, ItemsInv, TypeOK
<1>2. i \in Items /\ i # None /\ InQueue(i)
  BY <1>1 DEF Get, InQueue
<1>3. i \in accepted /\ posts[i] = 0
  BY <1>2 DEF ItemsInv, ItemShape
<1>4. \A x \in Items : InQueue(x)' <=> InQueue(x) /\ x # i
  <2>1. ASSUME NEW x \in Items, InQueue(x)'
        PROVE  InQueue(x) /\ x # i
    <3>1. PICK k \in 1 .. Len(queue') : queue[k + 1] = x
      BY <1>1, <2>1 DEF InQueue
    <3>2. x # None
      BY <2>1 DEF BroadcasterAssumption
    <3>3. x # i
      BY <1>1, <3>1, <3>2 DEF ItemsInv, ItemInOnePlace
    <3>4. QED
      BY <1>1, <3>1, <3>3 DEF InQueue
  <2>2. ASSUME NEW x \in Items, InQueue(x), x # i
        PROVE  InQueue(x)'
    <3>1. PICK k \in 1 .. Len(queue) : queue[k] = x
      BY <2>2 DEF InQueue
    <3>2. k - 1 \in 1 .. Len(queue') /\ queue'[k - 1] = x
      BY <1>1, <2>2, <3>1
    <3>3. QED
      BY <3>2 DEF InQueue
  <2>3. QED
    BY <2>1, <2>2
<1>5. holding[w] = None /\ \A v \in Workers : holding[v] # i
  BY <1>2 DEF Get, ItemsInv, WorkerShape, ItemInOnePlace
<1>6. TypeOK'
  BY <1>1, <1>2 DEF Get, ItemsInv, TypeOK, Live, BroadcasterAssumption
<1>7. ItemInOnePlace'
  <2>1. ASSUME NEW k \in 1 .. Len(queue'), NEW l \in 1 .. Len(queue'),
               queue'[k] = queue'[l], queue'[k] # None
        PROVE  k = l
    <3>1. /\ k + 1 \in 1 .. Len(queue) /\ l + 1 \in 1 .. Len(queue)
          /\ queue[k + 1] = queue[l + 1] /\ queue[k + 1] # None
      BY <1>1, <2>1
    <3>2. k + 1 = l + 1
      BY <3>1 DEF ItemsInv, ItemInOnePlace
    <3>3. QED
      BY <1>1, <3>2
  <2>2. /\ holding'[w] = i
        /\ \A v \in Workers : v # w => holding'[v] = holding[v]
        /\ \A v \in Workers : holding'[v] # None => holding'[v] \in Items
    <3>1. holding \in [Workers -> Items \cup {None}] /\ holding' = [holding EXCEPT ![w] = i]
      BY DEF Get, ItemsInv, TypeOK
    <3>2. QED
      BY <1>2, <3>1
  <2>3. \A u, v \in Workers : holding'[u] = holding'[v] /\ holding'[u] # None => u = v
    BY <1>5, <2>2 DEF ItemsInv, ItemInOnePlace
  <2>4. ASSUME NEW v \in Workers, holding'[v] # None
        PROVE  ~ \E k \in 1 .. Len(queue') : queue'[k] = holding'[v]
    <3>1. holding'[v] = i \/ ~InQueue(holding'[v])
      BY <2>2, <2>4 DEF ItemsInv, ItemInOnePlace
    <3>2. QED
      BY <1>4, <2>2, <2>4, <3>1 DEF InQueue
  <2>5. QED
    BY <2>1, <2>3, <2>4 DEF ItemInOnePlace, InQueue
<1>8. JoinAccounting'
  <2>1. Busy' = Busy \cup {w} /\ w \notin Busy
    BY <1>2, <1>5 DEF Get, ItemsInv, TypeOK, Busy
  <2>2. Cardinality(Busy') = Cardinality(Busy) + 1
    BY <2>1, BusyFinite, FS_AddElement
  <2>3. QED
    BY <1>1, <2>2, BusyFinite DEF Get, ItemsInv, JoinAccounting, Busy
<1>9. \A v \in Workers : WorkerShape(v)'
  BY <1>2, <1>3 DEF Get, ItemsInv, TypeOK, WorkerShape
<1>10. \A x \in Items : ItemShape(x)'
  BY <1>4 DEF Get, ItemsInv, ItemShape
<1>11. QED
  BY <1>3, <1>6, <1>7, <1>8, <1>9, <1>10 DEF Get, ItemsInv, TypeOK

(* A worker that neither takes nor finishes an item: it goes on to another *)
(* attempt, wakes up or dies.                                              *)
LEMMA WorkerMoves ==
    ASSUME ItemsInv, NEW w \in Workers,
           \/ Wake(w)
           \/ Raise(w)
           \/ PostThrottled(w)
           \/ worker[w] = "send" /\ Appears(w) /\ Retry(w)
    PROVE  ItemsInv'
<1>1. UNCHANGED <<queue, holding, unfinished, accepted>>
  BY DEF Wake, Raise, PostThrottled, Retry
<1>2. TypeOK'
  <2>1. CASE Wake(w) \/ Raise(w)
    BY <2>1 DEF Wake, Raise, ItemsInv, TypeOK, Live, Ended
  <2>2. CASE worker[w] = "send" /\ Retry(w) /\ (Appears(w) \/ UNCHANGED posts)
    <3>1. retries' \in [Workers -> 0 .. MaxRetries] /\ worker' \in [Workers -> Live \cup Ended]
      BY <2>2 DEF Retry, ItemsInv, TypeOK, Live, BroadcasterAssumption
    <3>2. posts' \in [Items -> Nat]
      BY <2>2 DEF Appears, ItemsInv, TypeOK, WorkerShape
    <3>3. QED
      BY <2>2, <3>1, <3>2 DEF Retry, ItemsInv, TypeOK
  <2>3. QED
    BY <2>1, <2>2 DEF PostThrottled
<1>3. \A v \in Workers : WorkerShape(v)'
  <2>1. CASE Wake(w)
    BY <2>1 DEF Wake, ItemsInv, TypeOK, WorkerShape
  <2>2. CASE Raise(w)
    BY <2>2 DEF Raise, ItemsInv, TypeOK, WorkerShape
  <2>3. CASE PostThrottled(w)
    BY <2>3 DEF PostThrottled, Retry, ItemsInv, TypeOK, WorkerShape
  <2>4. CASE worker[w] = "send" /\ Appears(w) /\ Retry(w)
    <3>1. holding[w] \in Items /\ posts[holding[w]] <= retries[w]
      BY <2>4 DEF ItemsInv, TypeOK, WorkerShape
    <3>2. /\ posts'[holding[w]] <= retries'[w] /\ retries'[w] \in Nat
          /\ worker'[w] = "backoff"
          /\ posts'[holding[w]] \in Nat
      BY <2>4, <3>1 DEF Appears, Retry, ItemsInv, TypeOK
    <3>3. \A v \in Workers : v # w /\ holding[v] # None =>
              /\ posts'[holding[v]] = posts[holding[v]]
              /\ retries'[v] = retries[v] /\ worker'[v] = worker[v]
      BY <2>4, <3>1 DEF Appears, Retry, ItemsInv, TypeOK, ItemInOnePlace
    <3>4. ASSUME NEW v \in Workers, v # w
          PROVE  WorkerShape(v)'
      BY <1>1, <2>4, <3>3, <3>4 DEF Retry, ItemsInv, TypeOK, WorkerShape
    <3>5. WorkerShape(w)'
      BY <1>1, <3>1, <3>2 DEF WorkerShape
    <3>6. QED
      BY <3>4, <3>5
  <2>5. QED
    BY <2>1, <2>2, <2>3, <2>4
<1>4. \A x \in Items : ItemShape(x)'
  <2>1. CASE UNCHANGED posts
    BY <1>1, <2>1, PlacesKept DEF ItemsInv, ItemShape
  <2>2. CASE worker[w] = "send" /\ Appears(w) /\ Retry(w)
    <3>1. /\ holding[w] \in Items /\ holding[w] \in accepted /\ ~InQueue(holding[w])
          /\ posts[holding[w]] <= retries[w] /\ retries[w] < MaxRetries
      BY <2>2 DEF Retry, ItemsInv, TypeOK, WorkerShape, ItemInOnePlace
    <3>2. posts'[holding[w]] <= MaxRetries + 1
      BY <2>2, <3>1 DEF Appears, ItemsInv, TypeOK, BroadcasterAssumption
    <3>3. \A x \in Items : x # holding[w] => posts'[x] = posts[x]
      BY <2>2 DEF Appears, ItemsInv, TypeOK
    <3>4. QED
      BY <1>1, <3>1, <3>2, <3>3, PlacesKept DEF ItemsInv, ItemShape
  <2>3. QED
    BY <2>1, <2>2 DEF Wake, Raise, PostThrottled
<1>5. QED
  BY <1>1, <1>2, <1>3, <1>4, PlacesKept DEF ItemsInv

(* A worker finishes its item, whose last attempt may have shown it.       *)
LEMMA FinishStep ==
    ASSUME ItemsInv, NEW w \in Workers, worker[w] = "send", Finish(w),
           Appears(w) \/ UNCHANGED posts
    PROVE  ItemsInv'
<1> DEFINE i == holding[w]
<1>1. /\ i \in Items /\ i \in accepted /\ i # None /\ ~InQueue(i)
      /\ posts[i] \in Nat /\ posts[i] <= retries[w] /\ retries[w] \in 0 .. MaxRetries
  BY DEF ItemsInv, TypeOK, WorkerShape, ItemInOnePlace
<1>2. /\ posts' \in [Items -> Nat]
      /\ posts'[i] <= MaxRetries + 1
      /\ \A x \in Items : x # i => posts'[x] = posts[x]
  <2>1. CASE Appears(w)
    BY <1>1, <2>1 DEF Appears, ItemsInv, TypeOK, BroadcasterAssumption
  <2>2. CASE UNCHANGED posts
    BY <1>1, <2>2 DEF ItemsInv, TypeOK, BroadcasterAssumption
  <2>3. QED
    BY <2>1, <2>2
<1>3. /\ holding'[w] = None /\ worker'[w] = "pause"
      /\ \A v \in Workers : v # w =>
             holding'[v] = holding[v] /\ holding[v] # i /\ worker'[v] = worker[v]
  BY <1>1 DEF Finish, ItemsInv, TypeOK, ItemInOnePlace
<1>4. JoinAccounting' /\ unfinished' \in Nat
  <2>1. Busy' = Busy \ {w} /\ w \in Busy
    BY <1>1, <1>3 DEF Busy
  <2>2. Cardinality(Busy') = Cardinality(Busy) - 1 /\ Cardinality(Busy') \in Nat
    BY <2>1, BusyFinite, FS_RemoveElement, FS_CardinalityType
  <2>3. Len(queue) \in Nat /\ queue' = queue
    BY DEF Finish, ItemsInv, TypeOK
  <2>4. unfinished' = Len(queue') + Cardinality(Busy')
    BY <2>2, <2>3, BusyFinite DEF Finish, ItemsInv, JoinAccounting, Busy
  <2>5. QED
    BY <2>2, <2>3, <2>4 DEF JoinAccounting, Busy
<1>5. TypeOK'
  BY <1>2, <1>4 DEF Finish, ItemsInv, TypeOK, Live
<1>6. ItemInOnePlace'
  BY <1>3 DEF Finish, ItemsInv, ItemInOnePlace, InQueue
<1>7. \A v \in Workers : WorkerShape(v)'
  BY <1>2, <1>3 DEF Finish, ItemsInv, TypeOK, WorkerShape
<1>8. \A x \in Items : ItemShape(x)'
  BY <1>1, <1>2 DEF Finish, ItemsInv, ItemShape, InQueue
<1>9. \A v \in Workers : holding'[v] # None => holding'[v] \in accepted'
  BY <1>3 DEF Finish, ItemsInv
<1>10. QED
  BY <1>4, <1>5, <1>6, <1>7, <1>8, <1>9 DEF ItemsInv

(* Cutting the workers off shows some of the items in flight once more.    *)
LEMMA LastPostsFacts ==
    ASSUME ItemsInv, NEW ws \in SUBSET InFlight, LastPosts(ws)
    PROVE  /\ posts' \in [Items -> Nat]
           /\ \A x \in Items : posts'[x] <= MaxRetries + 1
           /\ \A x \in Items : InQueue(x) \/ x \notin accepted => posts'[x] = posts[x]
           /\ \A w \in Workers : holding[w] # None => posts'[holding[w]] <= retries[w] + 1
           /\ \A w \in Workers : holding[w] # None /\ worker[w] # "send"
                                => posts'[holding[w]] = posts[holding[w]]
<1>1. posts' \in [Items -> Nat]
  BY DEF LastPosts, ItemsInv, TypeOK
<1>2. ASSUME NEW x \in Items, NEW w \in ws, holding[w] = x
      PROVE  /\ posts'[x] = posts[x] + 1
             /\ posts[x] <= retries[w] /\ retries[w] \in 0 .. MaxRetries
             /\ x # None /\ x \in accepted /\ ~InQueue(x)
             /\ w \in Workers /\ worker[w] = "send"
  BY <1>2 DEF LastPosts, InFlight, ItemsInv, TypeOK, WorkerShape,
              ItemInOnePlace, BroadcasterAssumption
<1>3. ASSUME NEW x \in Items, \A w \in ws : holding[w] # x
      PROVE  posts'[x] = posts[x]
  BY <1>3 DEF LastPosts
<1>4. ASSUME NEW x \in Items
      PROVE  /\ posts'[x] <= MaxRetries + 1
             /\ InQueue(x) \/ x \notin accepted => posts'[x] = posts[x]
  <2>1. CASE \E w \in ws : holding[w] = x
    BY <1>1, <1>2, <2>1 DEF ItemsInv, TypeOK, BroadcasterAssumption
  <2>2. CASE \A w \in ws : holding[w] # x
    BY <1>3, <2>2 DEF ItemsInv, ItemShape
  <2>3. QED
    BY <2>1, <2>2
<1>5. ASSUME NEW w \in Workers, holding[w] # None
      PROVE  /\ posts'[holding[w]] <= retries[w] + 1
             /\ worker[w] # "send" => posts'[holding[w]] = posts[holding[w]]
  <2>1. holding[w] \in Items /\ posts[holding[w]] <= retries[w] + 1
    BY <1>5 DEF ItemsInv, TypeOK, WorkerShape
  <2>2. CASE w \in ws
    BY <1>2, <2>1, <2>2 DEF ItemsInv, TypeOK
  <2>3. CASE w \notin ws
    <3>1. \A v \in ws : holding[v] # holding[w]
      BY <1>5, <2>3 DEF InFlight, ItemsInv, ItemInOnePlace
    <3>2. QED
      BY <1>3, <2>1, <3>1
  <2>4. QED
    BY <2>2, <2>3
<1>6. QED
  BY <1>1, <1>4, <1>5

LEMMA StopStep ==
    ASSUME ItemsInv, Stop
    PROVE  ItemsInv'
<1>1. /\ queue \in Seq(Items \cup {None}) /\ Len(queue) \in Nat
      /\ queue' = Append(queue, None)
      /\ queue' \in Seq(Items \cup {None})
      /\ Len(queue') = Len(queue) + 1
      /\ queue'[Len(queue) + 1] = None
      /\ \A k \in 1 .. Len(queue) : queue'[k] = queue[k]
  BY DEF Stop, ItemsInv, TypeOK
<1>2. /\ posts' \in [Items -> Nat]
      /\ \A x \in Items : posts'[x] <= MaxRetries + 1
      /\ \A x \in Items : InQueue(x) \/ x \notin accepted => posts'[x] = posts[x]
      /\ \A w \in Workers : holding[w] # None => posts'[holding[w]] <= retries[w] + 1
      /\ \A w \in Workers : holding[w] # None /\ worker[w] # "send"
                           => posts'[holding[w]] = posts[holding[w]]
  <2>1. CASE pool = "running"
    BY <2>1, LastPostsFacts DEF Stop
  <2>2. CASE pool # "running"
    BY <2>2 DEF Stop, ItemsInv, TypeOK, ItemShape, WorkerShape
  <2>3. QED
    BY <2>1, <2>2
<1>3. worker' \in [Workers -> Live \cup Ended]
  BY DEF Stop, ItemsInv, TypeOK, Live, Ended
<1>4. TypeOK'
  BY <1>1, <1>2, <1>3 DEF Stop, ItemsInv, TypeOK
<1>5. \A x \in Items : InQueue(x)' <=> InQueue(x)
  BY <1>1 DEF InQueue, BroadcasterAssumption
<1>6. ItemInOnePlace'
  <2>1. ASSUME NEW k \in 1 .. Len(queue'), NEW l \in 1 .. Len(queue'),
               queue'[k] = queue'[l], queue'[k] # None
        PROVE  k = l
    <3>1. k \in 1 .. Len(queue) /\ l \in 1 .. Len(queue)
      BY <1>1, <2>1
    <3>2. QED
      BY <1>1, <2>1, <3>1 DEF ItemsInv, ItemInOnePlace
  <2>2. \A w \in Workers : holding'[w] # None => ~InQueue(holding[w])'
    BY <1>5 DEF Stop, ItemsInv, TypeOK, ItemInOnePlace
  <2>3. QED
    BY <2>1, <2>2 DEF Stop, ItemsInv, ItemInOnePlace, InQueue
<1>7. JoinAccounting'
  BY <1>1, BusyFinite DEF Stop, ItemsInv, JoinAccounting, TypeOK, Busy
<1>8. \A w \in Workers : WorkerShape(w)'
  <2>1. ASSUME NEW w \in Workers
        PROVE  WorkerShape(w)'
    <3>1. CASE worker'[w] = worker[w] /\ worker[w] \notin {"send", "backoff"}
      BY <1>2, <3>1 DEF Stop, ItemsInv, WorkerShape
    <3>2. CASE worker'[w] = "cancelled"
      BY <1>2, <3>2 DEF Stop, WorkerShape
    <3>3. CASE pool # "running"
      BY <3>3 DEF Stop, ItemsInv, WorkerShape
    <3>4. QED
      BY <3>1, <3>2, <3>3 DEF Stop, Live, ItemsInv, TypeOK
  <2>2. QED
    BY <2>1
<1>9. \A x \in Items : ItemShape(x)'
  BY <1>2, <1>5 DEF Stop, ItemsInv, ItemShape
<1>10. QED
  BY <1>4, <1>6, <1>7, <1>8, <1>9 DEF Stop, ItemsInv

LEMMA StopJoinedStep ==
    ASSUME ItemsInv, StopJoined
    PROVE  ItemsInv'
<1>1. \A x \in Items : ItemShape(x)'
  BY PlacesKept DEF StopJoined, ItemsInv, ItemShape
<1>2. QED
  BY <1>1, PlacesKept DEF StopJoined, ItemsInv, TypeOK, WorkerShape

LEMMA GetStopStep ==
    ASSUME ItemsInv, NEW w \in Workers, GetStop(w)
    PROVE  ItemsInv'
<1>1. /\ queue \in Seq(Items \cup {None})
      /\ queue' \in Seq(Items \cup {None})
      /\ Len(queue) \in Nat \ {0}
      /\ Len(queue') = Len(queue) - 1
      /\ queue[1] = None
      /\ \A k \in 1 .. Len(queue') : queue'[k] = queue[k + 1]
  BY TailFacts DEF GetStop, ItemsInv, TypeOK
<1>2. \A x : InQueue(x)' => InQueue(x)
  BY <1>1 DEF InQueue
<1>3. JoinAccounting' /\ unfinished' \in Nat
  BY <1>1, BusyFinite DEF GetStop, ItemsInv, JoinAccounting, Busy
<1>4. TypeOK'
  BY <1>1, <1>3 DEF GetStop, ItemsInv, TypeOK, Ended
<1>5. ItemInOnePlace'
  <2>1. ASSUME NEW k \in 1 .. Len(queue'), NEW l \in 1 .. Len(queue'),
               queue'[k] = queue'[l], queue'[k] # None
        PROVE  k = l
    <3>1. /\ k + 1 \in 1 .. Len(queue) /\ l + 1 \in 1 .. Len(queue)
          /\ queue[k + 1] = queue[l + 1] /\ queue[k + 1] # None
      BY <1>1, <2>1
    <3>2. k + 1 = l + 1
      BY <3>1 DEF ItemsInv, ItemInOnePlace
    <3>3. QED
      BY <1>1, <3>2
  <2>2. \A v \in Workers : holding'[v] # None => ~InQueue(holding[v])'
    BY <1>2 DEF GetStop, ItemsInv, ItemInOnePlace
  <2>3. QED
    BY <2>1, <2>2 DEF GetStop, ItemsInv, ItemInOnePlace, InQueue
<1>6. \A v \in Workers : WorkerShape(v)'
  BY DEF GetStop, ItemsInv, TypeOK, WorkerShape
<1>7. \A x \in Items : ItemShape(x)'
  BY <1>2 DEF GetStop, ItemsInv, ItemShape
<1>8. QED
  BY <1>3, <1>4, <1>5, <1>6, <1>7 DEF GetStop, ItemsInv

LEMMA VanishStep ==
    ASSUME ItemsInv, Vanish
    PROVE  ItemsInv'
<1>1. PICK ws \in SUBSET InFlight : LastPosts(ws)
  BY DEF Vanish
<1>2. /\ posts' \in [Items -> Nat]
      /\ \A x \in Items : posts'[x] <= MaxRetries + 1
      /\ \A x \in Items : x \notin accepted => posts'[x] = posts[x]
  BY <1>1, LastPostsFacts
<1>3. /\ queue' = << >> /\ Len(queue') = 0 /\ \A x : ~InQueue(x)'
      /\ \A w \in Workers : holding'[w] = None /\ worker'[w] = "off"
  BY DEF Vanish, InQueue
<1>4. TypeOK'
  BY <1>2 DEF Vanish, ItemsInv, TypeOK, Ended, BroadcasterAssumption
<1>5. JoinAccounting'
  <2>1. Busy' = {}
    BY <1>3 DEF Busy
  <2>2. Cardinality(Busy') = 0
    BY <2>1, FS_EmptySet
  <2>3. QED
    BY <1>3, <2>2 DEF Vanish, JoinAccounting, Busy
<1>6. ItemInOnePlace' /\ \A w \in Workers : WorkerShape(w)'
  BY <1>3 DEF ItemInOnePlace, WorkerShape
<1>7. \A x \in Items : ItemShape(x)'
  BY <1>2, <1>3 DEF Vanish, ItemsInv, ItemShape
<1>8. QED
  BY <1>3, <1>4, <1>5, <1>6, <1>7 DEF ItemsInv

(* What a worker does, whichever outcome its POST has.                     *)
LEMMA WorkerInv ==
    ASSUME ItemsInv, NEW w \in Workers, WorkerStep(w)
    PROVE  ItemsInv'
<1>1. CASE Get(w)
  BY <1>1, GetStep
<1>2. CASE GetStop(w)
  BY <1>2, GetStopStep
<1>3. CASE Wake(w) \/ Raise(w) \/ PostThrottled(w)
  BY <1>3, WorkerMoves
<1>4. CASE PostOk(w) \/ PostRefused(w)
  BY <1>4, FinishStep DEF PostOk, PostRefused
<1>5. CASE PostFailed(w)
  <2>1. CASE Finish(w)
    BY <1>5, <2>1, FinishStep DEF PostFailed
  <2>2. CASE Retry(w) /\ Appears(w)
    BY <1>5, <2>2, WorkerMoves DEF PostFailed
  <2>3. CASE Retry(w) /\ UNCHANGED posts
    BY <1>5, <2>3, WorkerMoves DEF PostFailed, PostThrottled
  <2>4. QED
    BY <1>5, <2>1, <2>2, <2>3 DEF PostFailed
<1>6. QED
  BY <1>1, <1>2, <1>3, <1>4, <1>5 DEF WorkerStep, Attempt

LEMMA PoolStep ==
    ASSUME TypeOK, PoolInv, [Next]_vars
    PROVE  PoolInv'
<1>1. CASE Start
  BY <1>1 DEF Start, TypeOK, PoolInv, LiveWorkers
<1>2. ASSUME NEW i \in Items, Put(i)
      PROVE  PoolInv'
  BY <1>2 DEF Put, PoolInv, LiveWorkers, Died
<1>3. ASSUME NEW w \in Workers, WorkerStep(w)
      PROVE  PoolInv'
  <2>1. worker[w] \in Live
    BY <1>3 DEF WorkerStep, Get, GetStop, Attempt, PostOk, PostThrottled,
                PostRefused, PostFailed, Raise, Wake, Live
  <2>2. pool # "none" /\ w \in LiveWorkers
    BY <2>1 DEF PoolInv, LiveWorkers, Live
  <2>3. /\ stopper' = stopper
        /\ pool' = pool \/ (pool' = "done" /\ worker'[w] = "dead")
        /\ \A v \in Workers : v # w => worker'[v] = worker[v]
    BY <1>3 DEF WorkerStep, Get, GetStop, Attempt, PostOk, PostThrottled,
                PostRefused, PostFailed, Retry, Finish, Raise, Wake, TypeOK
  <2>4. Died => Died'
    BY <2>1, <2>3 DEF Died, Live
  <2>5. worker'[w] = "dead" => Died'
    BY DEF Died
  <2>6. QED
    BY <2>2, <2>3, <2>4, <2>5 DEF PoolInv
<1>4. CASE pool # "none" /\ Stop
  <2>1. CASE pool = "running"
    BY <1>4, <2>1 DEF Stop, TypeOK, PoolInv, LiveWorkers, Live, Ended
  <2>2. CASE pool = "done"
    BY <1>4, <2>2 DEF Stop, PoolInv, Died
  <2>3. QED
    BY <1>4, <2>1, <2>2 DEF TypeOK
<1>5. CASE StopJoined
  BY <1>5 DEF StopJoined, PoolInv, LiveWorkers, Died
<1>6. CASE UNCHANGED vars
  BY <1>6 DEF vars, PoolInv, LiveWorkers, Died
<1>7. QED
  BY <1>1, <1>2, <1>3, <1>4, <1>5, <1>6 DEF Next

LEMMA NextInv == BroadcasterInv /\ [Next]_vars => BroadcasterInv'
<1> SUFFICES ASSUME ItemsInv, PoolInv, [Next]_vars
             PROVE  ItemsInv'
  BY PoolStep DEF BroadcasterInv, ItemsInv
<1>1. CASE Start
  <2>1. \A w \in Workers : holding[w] = None
    BY <1>1 DEF Start, PoolInv, ItemsInv, WorkerShape
  <2>2. QED
    BY <1>1, <2>1, StartStep
<1>2. ASSUME NEW i \in Items \ accepted, Put(i)
      PROVE  ItemsInv'
  BY <1>2, PutStep
<1>3. ASSUME NEW w \in Workers, WorkerStep(w)
      PROVE  ItemsInv'
  BY <1>3, WorkerInv
<1>4. CASE Stop \/ StopJoined
  BY <1>4, StopStep, StopJoinedStep
<1>5. CASE UNCHANGED vars
  BY <1>5, SMTT(30) DEF vars, ItemsInv, TypeOK, ItemInOnePlace, JoinAccounting,
              WorkerShape, ItemShape, InQueue
<1>6. QED
  BY <1>1, <1>2, <1>3, <1>4, <1>5 DEF Next

-----------------------------------------------------------------------------
(* What a step does to the channel and to what waits for it: cited by the  *)
(* proofs about the whole pipeline.                                        *)
Waits(i) == InQueue(i) \/ \E w \in LiveWorkers : holding[w] = i

PostedFromHand(i) ==
    \/ posts'[i] = posts[i]
    \/ /\ posts'[i] = posts[i] + 1
       /\ posts[i] <= MaxRetries
       /\ \E w \in LiveWorkers : holding[w] = i

LEMMA LastPostsFromHand ==
    ASSUME ItemsInv, NEW ws \in SUBSET InFlight, LastPosts(ws), NEW i \in Items
    PROVE  PostedFromHand(i)
<1>1. CASE \E w \in ws : holding[w] = i
  <2>1. PICK w \in ws : holding[w] = i
    BY <1>1
  <2>2. w \in LiveWorkers /\ w \in Workers /\ worker[w] = "send"
    BY DEF InFlight, LiveWorkers, Live
  <2>3. /\ posts[i] <= retries[w] /\ retries[w] \in 0 .. MaxRetries
        /\ posts[i] \in Nat /\ posts'[i] = posts[i] + 1
    BY <2>1, <2>2 DEF ItemsInv, WorkerShape, TypeOK, LastPosts
  <2>4. QED
    BY <2>1, <2>2, <2>3 DEF PostedFromHand
<1>2. CASE ~ \E w \in ws : holding[w] = i
  BY <1>2 DEF LastPosts, PostedFromHand
<1>3. QED
  BY <1>1, <1>2

LEMMA AttemptFromHand ==
    ASSUME ItemsInv, NEW w \in Workers, WorkerStep(w), NEW i \in Items
    PROVE  PostedFromHand(i)
<1>1. CASE UNCHANGED posts
  BY <1>1 DEF PostedFromHand
<1>2. CASE worker[w] = "send" /\ Appears(w)
  <2>1. w \in LiveWorkers
    BY <1>2 DEF LiveWorkers, Live
  <2>2. CASE holding[w] = i
    <3>1. /\ posts[i] <= retries[w] /\ retries[w] \in 0 .. MaxRetries
          /\ posts[i] \in Nat /\ posts'[i] = posts[i] + 1
      BY <1>2, <2>2 DEF ItemsInv, WorkerShape, TypeOK, Appears
    <3>2. QED
      BY <2>1, <2>2, <3>1 DEF PostedFromHand
  <2>3. CASE holding[w] # i
    BY <1>2, <2>3 DEF ItemsInv, TypeOK, Appears, PostedFromHand
  <2>4. QED
    BY <2>2, <2>3
<1>3. QED
  BY <1>1, <1>2 DEF WorkerStep, Get, GetStop, Attempt, PostOk, PostThrottled,
                    PostRefused, PostFailed, Raise, Wake

(* A worker waits for nothing that did not wait before it.                 *)
LEMMA WaitsKept ==
    ASSUME ItemsInv, NEW w \in Workers, WorkerStep(w), NEW i \in Items, Waits(i)'
    PROVE  Waits(i)
<1>1. CASE Get(w)
  <2>1. /\ Len(queue) \in Nat \ {0} /\ Len(queue') = Len(queue) - 1
        /\ Head(queue) = queue[1]
        /\ \A k \in 1 .. Len(queue') : queue'[k] = queue[k + 1]
    BY <1>1, TailFacts DEF Get, ItemsInv, TypeOK
  <2>2. InQueue(i)' => InQueue(i)
    BY <2>1 DEF InQueue
  <2>3. InQueue(Head(queue))
    BY <2>1 DEF InQueue
  <2>4. ASSUME NEW v \in LiveWorkers', holding'[v] = i
        PROVE  InQueue(i) \/ (v \in LiveWorkers /\ holding[v] = i)
    BY <1>1, <2>3, <2>4 DEF Get, ItemsInv, TypeOK, LiveWorkers
  <2>5. QED
    BY <2>2, <2>4 DEF Waits
<1>2. CASE GetStop(w)
  <2>1. /\ Len(queue) \in Nat \ {0} /\ Len(queue') = Len(queue) - 1
        /\ \A k \in 1 .. Len(queue') : queue'[k] = queue[k + 1]
    BY <1>2, TailFacts DEF GetStop, ItemsInv, TypeOK
  <2>2. InQueue(i)' => InQueue(i)
    BY <2>1 DEF InQueue
  <2>3. LiveWorkers' \subseteq LiveWorkers /\ holding' = holding
    BY <1>2 DEF GetStop, ItemsInv, TypeOK, LiveWorkers, Live
  <2>4. QED
    BY <2>2, <2>3 DEF Waits
<1>3. CASE Attempt(w) \/ Wake(w)
  <2>1. /\ worker[w] \in Live
        /\ \A v \in Workers : v # w => worker'[v] = worker[v]
        /\ UNCHANGED queue
        /\ \/ holding' = holding
           \/ holding' = [holding EXCEPT ![w] = None]
    BY <1>3 DEF Attempt, PostOk, PostThrottled, PostRefused, PostFailed, Raise,
                Wake, Retry, Finish, ItemsInv, TypeOK, Live
  <2>2. LiveWorkers' \subseteq LiveWorkers
    BY <2>1 DEF LiveWorkers
  <2>3. \A v \in Workers : holding'[v] \in {holding[v], None}
    BY <2>1 DEF ItemsInv, TypeOK
  <2>4. QED
    BY <2>1, <2>2, <2>3 DEF Waits, InQueue, LiveWorkers, BroadcasterAssumption
<1>4. QED
  BY <1>1, <1>2, <1>3 DEF WorkerStep

(* Nothing but what waits is posted, and only a put makes an item wait.    *)
LEMMA PoolFrame ==
    ASSUME BroadcasterInv, [Next]_vars \/ Vanish, NEW i \in Items
    PROVE  /\ PostedFromHand(i)
           /\ Waits(i)' => Waits(i) \/ i \in accepted' \ accepted
<1>1. ItemsInv /\ PoolInv
  BY DEF BroadcasterInv
<1>2. CASE Start
  <2>1. \A w \in Workers : holding'[w] = None
    BY <1>1, <1>2 DEF Start, PoolInv, ItemsInv, WorkerShape
  <2>2. QED
    BY <1>2, <2>1 DEF Start, PostedFromHand, Waits, InQueue, LiveWorkers,
                      BroadcasterAssumption
<1>3. ASSUME NEW x \in Items \ accepted, Put(x)
      PROVE  /\ PostedFromHand(i)
             /\ Waits(i)' => Waits(i) \/ i \in accepted' \ accepted
  <2>1. /\ Len(queue') = Len(queue) + 1 /\ Len(queue) \in Nat
        /\ queue'[Len(queue) + 1] = x
        /\ \A k \in 1 .. Len(queue) : queue'[k] = queue[k]
    BY <1>1, <1>3 DEF Put, ItemsInv, TypeOK
  <2>2. InQueue(i)' => InQueue(i) \/ i = x
    BY <2>1 DEF InQueue
  <2>3. QED
    BY <1>3, <2>2 DEF Put, PostedFromHand, Waits, LiveWorkers
<1>4. ASSUME NEW w \in Workers, WorkerStep(w)
      PROVE  /\ PostedFromHand(i)
             /\ Waits(i)' => Waits(i) \/ i \in accepted' \ accepted
  BY <1>1, <1>4, AttemptFromHand, WaitsKept
<1>5. CASE Stop
  <2>1. PostedFromHand(i)
    BY <1>1, <1>5, LastPostsFromHand DEF Stop, PostedFromHand
  <2>2. /\ Len(queue') = Len(queue) + 1 /\ Len(queue) \in Nat
        /\ queue'[Len(queue) + 1] = None
        /\ \A k \in 1 .. Len(queue) : queue'[k] = queue[k]
    BY <1>1, <1>5 DEF Stop, ItemsInv, TypeOK
  <2>3. InQueue(i)' => InQueue(i)
    BY <2>2 DEF InQueue, BroadcasterAssumption
  <2>4. LiveWorkers' \subseteq LiveWorkers /\ holding' = holding
    BY <1>5 DEF Stop, LiveWorkers, Live
  <2>5. QED
    BY <2>1, <2>3, <2>4 DEF Waits
<1>6. CASE StopJoined \/ UNCHANGED vars
  BY <1>6 DEF StopJoined, vars, PostedFromHand, Waits, InQueue, LiveWorkers
<1>7. CASE Vanish
  <2>1. PostedFromHand(i)
    BY <1>1, <1>7, LastPostsFromHand DEF Vanish
  <2>2. ~Waits(i)'
    BY <1>7 DEF Vanish, Waits, InQueue, LiveWorkers, Live
  <2>3. QED
    BY <2>1, <2>2
<1>8. QED
  BY <1>2, <1>3, <1>4, <1>5, <1>6, <1>7 DEF Next

LEMMA VanishPool == Vanish => PoolInv'
BY DEF Vanish, PoolInv

LEMMA InitPool == Init => BroadcasterInv
BY InitInv DEF Init, PoolInv, BroadcasterInv

-----------------------------------------------------------------------------
(* For any pool, queue and retry limit: the inductive invariant of items   *)
(* and pool.                                                               *)
THEOREM BroadcasterInvariant == Spec => []BroadcasterInv
<1>1. QED
  BY InitPool, NextInv, PTL DEF Spec

(* For any pool, queue and retry limit: types, one place per item, at most *)
(* MaxRetries + 1 messages per item, and one task_done per item finished.  *)
THEOREM BroadcasterSafety ==
    Spec => [](TypeOK /\ ItemInOnePlace /\ PostBound /\ JoinAccounting)
<1>1. BroadcasterInv => TypeOK /\ ItemInOnePlace /\ PostBound /\ JoinAccounting
  BY DEF BroadcasterInv, ItemsInv, ItemShape, PostBound
<1>2. QED
  BY <1>1, BroadcasterInvariant, PTL

(* No worker outlives stop(), unless another one had died before it.       *)
THEOREM StopIsFinal == Spec => []StopEndsPool
<1>1. BroadcasterInv => StopEndsPool
  BY DEF BroadcasterInv, PoolInv, StopEndsPool
<1>2. QED
  BY <1>1, BroadcasterInvariant, PTL
=============================================================================
