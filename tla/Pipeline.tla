------------------------------- MODULE Pipeline -------------------------------
(***************************************************************************)
(* The bot process: post_init starts the publisher, a first scraper job    *)
(* and the scheduler of later ones; the jobs feed the publisher through    *)
(* the queue; post_shutdown takes them down in order; the process may also *)
(* be killed at any point.  The database survives, all else is lost.       *)
(*                                                                         *)
(* ScraperJob and Broadcaster share `accepted`, the rows put in the queue. *)
(*                                                                         *)
(* The loop's ready queue is first in, first out.  scheduler.shutdown runs *)
(* from a callback it puts there (AsyncIOScheduler, APScheduler 3.11):     *)
(* behind the turn of a scheduled job that was ready before, ahead of all  *)
(* that becomes ready later.                                               *)
(***************************************************************************)
EXTENDS Integers, Sequences, FiniteSets

CONSTANTS Configs, MaxSources, PublishLimit, MaxRows,    \* see ScraperJob
          Workers, Capacity, MaxRetries, None, Faults,   \* see Broadcaster
          Initial,     \* the job of main.py:194
          Scheduled    \* the job of the scheduler: at most one instance

Jobs == {Initial, Scheduled}
RowIds == 1 .. MaxRows

ASSUME PipelineAssumption ==
    /\ Initial # Scheduled
    /\ IsFiniteSet(Configs) /\ IsFiniteSet(Workers)
    /\ MaxSources \in Nat /\ MaxRows \in Nat /\ MaxRetries \in Nat
    /\ PublishLimit \in Nat \ {0} /\ Capacity \in Nat \ {0}
    /\ None \notin RowIds
    /\ Faults \subseteq {"raise"}

VARIABLES
    rows,                                            \* on disk
    pc, todo, seen, batch, outbox,                   \* of the jobs
    queue, unfinished, worker, holding, retries, pool, stopper,
    accepted, posts,                                 \* histories
    phase,      \* of the process: see Phases
    scheduler,  \* AsyncIOScheduler: see SchedulerStates
    cancelled   \* jobs with a CancelledError on its way

J == INSTANCE ScraperJob WITH handed <- accepted
B == INSTANCE Broadcaster WITH Items <- RowIds

jobVars  == <<pc, todo, seen, batch, outbox>>
poolVars == <<queue, unfinished, worker, holding, retries, pool, stopper>>
vars == <<rows, jobVars, poolVars, accepted, posts, phase, scheduler, cancelled>>

\* "down": no process; "up": polling; then the steps of post_shutdown.
Phases == {"down", "up", "cancelJob", "stopPublisher", "joinPublisher", "closeDb"}

\* "closing": the callback is queued, and a turn of the scheduled job may be
\* ahead of it; "due": no more; "off": the callback has run.
SchedulerStates == {"off", "on", "closing", "due"}

TypeOK ==
    /\ J!TypeOK
    /\ B!TypeOK
    /\ phase \in Phases
    /\ scheduler \in SchedulerStates
    /\ cancelled \in SUBSET Jobs

Init == J!Init /\ B!Init /\ phase = "down" /\ scheduler = "off" /\ cancelled = {}

-----------------------------------------------------------------------------
(* post_init: Broadcaster().start(), scheduler.start() and the first job.  *)
PostInit ==
    /\ phase = "down"
    /\ phase' = "up"
    /\ scheduler' = "on"
    /\ B!Start
    /\ J!Begin(Initial)
    /\ UNCHANGED cancelled

(* The interval trigger; max_instances=1 and coalesce drop a firing while  *)
(* the previous run is not over.  The task of a firing that was ahead of   *)
(* the shutdown's callback has its first turn behind it.                   *)
Fire ==
    /\ scheduler \in {"on", "closing"}
    /\ scheduler' = IF scheduler = "on" THEN "on" ELSE "due"
    /\ J!Begin(Scheduled)
    /\ UNCHANGED <<poolVars, accepted, posts, phase, cancelled>>

\* May the job j take a turn?
MayRun(j) ==
    /\ phase # "down" /\ j \notin cancelled
    /\ j = Scheduled => scheduler # "due"

\* Between the shutdown and its callback the scheduled job has one turn at
\* most: it goes on past a commit to its puts, and stops at the next await.
TurnOver(j) ==
    scheduler' = IF j = Scheduled /\ scheduler = "closing" /\ pc'[j] # "enqueue"
                 THEN "due" ELSE scheduler

(* A job runs; its put is the one point where it meets the publisher.      *)
JobWork(j) ==
    /\ MayRun(j)
    /\ J!Work(j)
    /\ TurnOver(j)
    /\ UNCHANGED <<poolVars, posts, phase, cancelled>>
JobPut(j) ==
    /\ MayRun(j)
    /\ J!Enqueue(j)
    /\ B!Put(outbox[j].next)
    /\ TurnOver(j)
    /\ UNCHANGED <<phase, cancelled>>

WorkerStep(w) ==
    /\ phase # "down"
    /\ B!WorkerStep(w)
    /\ UNCHANGED <<rows, jobVars, phase, scheduler, cancelled>>

(* post_shutdown, step 3: Broadcaster.stop() puts its sentinel and cancels *)
(* the pool at once, unless it has to wait for a place in the queue.       *)
StopOrWait ==
    \/ B!Stop /\ phase' = "joinPublisher"
    \/ /\ Len(queue) = Capacity
       /\ phase' = "stopPublisher"
       /\ UNCHANGED <<poolVars, accepted, posts>>

(* post_shutdown: scheduler.shutdown only queues its callback (step 1); the*)
(* first job, if it still runs, is cancelled and awaited (step 2), else    *)
(* the publisher is stopped in the same turn.                              *)
BeginShutdown ==
    /\ phase = "up"
    /\ scheduler' = "closing"
    /\ IF pc[Initial] = "idle"
       THEN StopOrWait /\ UNCHANGED cancelled
       ELSE /\ cancelled' = cancelled \cup {Initial}
            /\ phase' = "cancelJob"
            /\ UNCHANGED <<poolVars, accepted, posts>>
    /\ UNCHANGED <<rows, jobVars>>

\* Mutant: the scheduler stops firing and leaves a running job alone.
SchedulerClosedHalf ==
    /\ scheduler \in {"closing", "due"}
    /\ scheduler' = "off"
    /\ UNCHANGED <<rows, jobVars, poolVars, accepted, posts, phase, cancelled>>

(* The callback: no more firings; AsyncIOExecutor.shutdown cancels the     *)
(* running scheduled job without waiting for it.                           *)
SchedulerClosed ==
    /\ scheduler \in {"closing", "due"}
    /\ scheduler' = "off"
    /\ cancelled' = cancelled \cup {j \in {Scheduled} : pc[j] # "idle"}
    /\ UNCHANGED <<rows, jobVars, poolVars, accepted, posts, phase>>

JobCancelled(j) ==
    /\ j \in cancelled
    /\ J!Cancel(j)
    /\ cancelled' = cancelled \ {j}
    /\ UNCHANGED <<poolVars, posts, phase, scheduler>>

\* What post_shutdown does after an await of its own comes behind the
\* callback: wait_for sees the first job end, a place in the queue is free,
\* the publisher's task has ended.
JobJoined ==
    /\ phase = "cancelJob" /\ scheduler = "off"
    /\ pc[Initial] = "idle"
    /\ StopOrWait
    /\ UNCHANGED <<rows, jobVars, scheduler, cancelled>>

StopPublisher ==
    /\ phase = "stopPublisher" /\ scheduler = "off"
    /\ B!Stop
    /\ phase' = "joinPublisher"
    /\ UNCHANGED <<rows, jobVars, scheduler, cancelled>>

PublisherStopped ==
    /\ phase = "joinPublisher" /\ scheduler = "off"
    /\ B!StopJoined \/ (stopper = "stopped" /\ UNCHANGED <<poolVars, accepted, posts>>)
    /\ phase' = "closeDb"
    /\ UNCHANGED <<rows, jobVars, scheduler, cancelled>>

(* The process ends: the next one starts from empty memory.  What is under *)
(* way elsewhere may still happen: a commit begun by a job, POSTs in flight.*)
Vanish ==
    /\ phase' = "down"
    /\ scheduler' = "off"
    /\ cancelled' = {}
    /\ J!Vanish
    /\ B!Vanish
    /\ \E j \in Jobs : J!CommitMayLand(j)

(* post_shutdown, step 4, close_db, and the end of the process: run_polling*)
(* closes the event loop, with whatever still runs on it.                  *)
CloseDb ==
    /\ phase = "closeDb"
    /\ Vanish

Crash ==
    /\ phase # "down"
    /\ Vanish

Run ==
    \/ PostInit
    \/ Fire
    \/ \E j \in Jobs : JobWork(j) \/ JobPut(j)
    \/ \E w \in Workers : WorkerStep(w)

Shutdown ==
    \/ BeginShutdown
    \/ SchedulerClosed
    \/ \E j \in Jobs : JobCancelled(j)
    \/ JobJoined
    \/ StopPublisher
    \/ PublisherStopped
    \/ CloseDb

Next == Run \/ Shutdown \/ Crash

Spec == Init /\ [][Next]_vars

JobTask(j) == JobWork(j) \/ JobPut(j) \/ JobCancelled(j)
ShutdownTask == JobJoined \/ StopPublisher \/ PublisherStopped \/ CloseDb

(* A process that may be asked to shut down, and is not killed.  Every     *)
(* task and callback the loop has is run, and every await of a task that   *)
(* the model does not make conditional (a POST, a query, a sleep) ends.    *)
(* Nobody has to start the next process.                                   *)
FairSpec ==
    /\ Init /\ [][Run \/ Shutdown]_vars
    /\ \A j \in Jobs : WF_vars(JobTask(j))
    /\ \A w \in Workers : WF_vars(WorkerStep(w))
    /\ WF_vars(SchedulerClosed)
    /\ WF_vars(ShutdownTask)

-----------------------------------------------------------------------------
InQueue(i) == \E k \in 1 .. Len(queue) : queue[k] = i
InHand(i)  == \E w \in B!LiveWorkers : holding[w] = i
InOutbox(i) == \E j \in Jobs : i \in J!Outbox(j)

(* Rows that nothing will ever put in the channel again.                   *)
Retired == {i \in J!Stored : ~InQueue(i) /\ ~InHand(i) /\ ~InOutbox(i)}

Feed == INSTANCE ChannelFeed
            WITH retired <- Retired, shown <- posts, MaxPosts <- MaxRetries + 1

(* The pipeline implements the abstract feed through every shutdown, crash *)
(* and restart: only stored rows are shown, at most MaxRetries + 1 times,  *)
(* and a row that was given up is never shown again, because the restarted *)
(* process finds it stored and does not enqueue it.                        *)
ImplementsFeed == Feed!Spec

(* Jobs and publisher together, across failing saves, crashes and          *)
(* restarts: every row in the queue, in a worker's hands or in the channel *)
(* was put there by a job and is a stored row.                             *)
PublishedIsStored ==
    \A i \in RowIds :
        InQueue(i) \/ InHand(i) \/ posts[i] > 0 => i \in accepted \cap J!Stored

(* No saved row is handed to the queue by both jobs, or a second time by   *)
(* the next process.                                                       *)
HandedOnce == J!HandedOnce

(* What jobs that overlap can do at most, through crashes with a commit    *)
(* under way too: one row per job for a hash.                              *)
DuplicateBound == J!DuplicateBound

(* Once post_shutdown has begun the first job only ends, and the scheduled *)
(* one has at most the turn that was ahead of the scheduler's callback:    *)
(* after it no job goes on to write, and none puts a row that would        *)
(* prolong the wait of stop() for a free place (main.py:203-206).          *)
QuietShutdown ==
    [][ phase \notin {"down", "up"} =>
          \/ scheduler = "closing" /\ pc'[Initial] \in {pc[Initial], "idle"}
          \/ /\ accepted' = accepted
             /\ \A j \in Jobs : pc[j] # "idle" => pc'[j] \in {pc[j], "idle"}
      ]_vars

(* Backpressure only delays: while a worker is left, every row that a save *)
(* gave back to its job is put in the queue, and taken from it and         *)
(* finished.  (A job cut off at its commit leaves stored rows that no job  *)
(* will enqueue: they are found stored ever after.)                        *)
SavedIsServed ==
    \A i \in RowIds :
        InOutbox(i) ~> (i \in accepted /\ i \in Retired) \/ B!LiveWorkers = {}

(* A job ends: the queue it waits for drains.  (max_instances=1: a         *)
(* scheduled job that never ended would be the last one.)                  *)
JobsEnd ==
    \A j \in Jobs : pc[j] # "idle" ~> pc[j] = "idle" \/ B!LiveWorkers = {}

(* post_shutdown reaches its end, whatever the jobs are waiting for, while *)
(* a worker is left to make room for the sentinel.                         *)
ShutdownEnds == phase \notin {"down", "up"} ~> phase = "down" \/ B!Died

(* "Clean stop of the services", main.py:200, without that condition.      *)
ShutdownAlwaysEnds == phase \notin {"down", "up"} ~> phase = "down"
=============================================================================
