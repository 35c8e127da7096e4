---------------------------- MODULE Pipeline_proof ----------------------------
(***************************************************************************)
(* Proofs about the pipeline, from those about its components: through any *)
(* number of shutdowns, crashes and restarts only stored rows are shown,   *)
(* and the pipeline implements ChannelFeed.                                *)
(*                                                                         *)
(* A step of the pipeline is a step of the jobs, or the end of all of      *)
(* them, and a step of the publisher, or its end: the lemmas of            *)
(* ScraperJob_proof and Broadcaster_proof do the rest.                     *)
(***************************************************************************)
EXTENDS Pipeline, FiniteSetTheorems, TLAPS

USE PipelineAssumption

\* J and B of Pipeline, together with what is proved about them.
JP == INSTANCE ScraperJob_proof WITH handed <- accepted
BP == INSTANCE Broadcaster_proof WITH Items <- RowIds

-----------------------------------------------------------------------------
LEMMA SameInsert ==
    ASSUME NEW S
    PROVE  J!Insert(S) <=> JP!Insert(S)
<1>1. J!Orders(S) = JP!Orders(S)
  BY DEF J!Orders, JP!Orders, J!IsInjective, JP!IsInjective,
         J!Cardinality, JP!Cardinality
<1>2. QED
  BY <1>1 DEF J!Insert, JP!Insert, J!Cardinality, JP!Cardinality

LEMMA SameWork ==
    ASSUME NEW j \in Jobs
    PROVE  J!Work(j) <=> JP!Work(j)
<1>1. J!Scraped(j) <=> JP!Scraped(j)
  BY DEF J!Scraped, JP!Scraped
<1>2. J!Validate(j) <=> JP!Validate(j)
  BY DEF J!Validate, JP!Validate, J!Cardinality, JP!Cardinality
<1>3. J!Leave(j) <=> JP!Leave(j)
  BY DEF J!Leave, JP!Leave, J!Idle, JP!Idle, J!Empty, JP!Empty
<1>4. J!CheckExisting(j) <=> JP!CheckExisting(j)
  BY DEF J!CheckExisting, JP!CheckExisting, J!StoredHashes, JP!StoredHashes,
         J!Stored, JP!Stored
<1>5. J!SaveFails(j) <=> JP!SaveFails(j)
  BY SameInsert DEF J!SaveFails, JP!SaveFails, J!CommitMayLand, JP!CommitMayLand
<1>6. J!Commit(j) <=> JP!Commit(j)
  BY SameInsert, Zenon DEF J!Commit, JP!Commit
<1>7. QED
  BY <1>1, <1>2, <1>3, <1>4, <1>5, <1>6 DEF J!Work, JP!Work

LEMMA SameJobSteps ==
    /\ J!Init <=> JP!Init
    /\ J!Vanish <=> JP!Vanish
    /\ \A j \in Jobs : /\ J!Begin(j) <=> JP!Begin(j)
                       /\ J!Enqueue(j) <=> JP!Enqueue(j)
                       /\ J!Cancel(j) <=> JP!Cancel(j)
                       /\ J!CommitMayLand(j) <=> JP!CommitMayLand(j)
BY SameInsert DEF J!Init, JP!Init, J!JobsIdle, JP!JobsIdle, J!Vanish, JP!Vanish,
       J!Begin, JP!Begin, J!Enqueue, JP!Enqueue, J!Cancel, JP!Cancel,
       J!CommitMayLand, JP!CommitMayLand, J!Idle, JP!Idle, J!Empty, JP!Empty

LEMMA SamePoolSteps ==
    /\ B!Init <=> BP!Init
    /\ B!Start <=> BP!Start
    /\ \A i \in RowIds : B!Put(i) <=> BP!Put(i)
    /\ \A w \in Workers : B!WorkerStep(w) <=> BP!WorkerStep(w)
    /\ B!Stop <=> BP!Stop
    /\ B!StopJoined <=> BP!StopJoined
    /\ B!Vanish <=> BP!Vanish
<1>1. B!Init <=> BP!Init
  BY DEF B!Init, BP!Init
<1>2. \A w \in Workers : B!WorkerStep(w) <=> BP!WorkerStep(w)
  BY DEF B!Get, BP!Get, B!GetStop, BP!GetStop, B!Attempt, BP!Attempt, B!PostOk, BP!PostOk, B!PostThrottled, BP!PostThrottled, B!PostRefused, BP!PostRefused, B!PostFailed, BP!PostFailed, B!Raise, BP!Raise, B!Wake, BP!Wake, B!Retry, BP!Retry, B!Finish, BP!Finish, B!Appears, BP!Appears, B!WorkerStep, BP!WorkerStep
<1>3. (B!Stop <=> BP!Stop) /\ (B!Vanish <=> BP!Vanish)
  BY DEF B!Stop, BP!Stop, B!Vanish, BP!Vanish, B!InFlight, BP!InFlight, B!LastPosts, BP!LastPosts, B!Live, BP!Live
<1>4. QED
  BY <1>1, <1>2, <1>3 DEF B!Start, BP!Start, B!Put, BP!Put, B!StopJoined, BP!StopJoined

-----------------------------------------------------------------------------
(* The inductive invariant: those of the components, and what the phases   *)
(* of the process say about the publisher, the scheduler and the jobs: the *)
(* first job is cancelled when the shutdown begins, the scheduled one when *)
(* the scheduler's callback has run.                                       *)
ControlInv ==
    /\ phase \in Phases
    /\ scheduler \in SchedulerStates
    /\ cancelled \in SUBSET Jobs
    /\ (phase = "down") <=> (pool = "none")
    /\ (phase = "up") <=> (scheduler = "on")
    /\ phase = "down" => scheduler = "off"
    /\ phase \in {"down", "up", "cancelJob", "stopPublisher"} => stopper = "off"
    /\ phase \notin {"down", "up"} =>
           /\ pc[Initial] # "idle" => Initial \in cancelled
           /\ scheduler = "off" /\ pc[Scheduled] # "idle" => Scheduled \in cancelled

PipeInv == JP!CopiesInv /\ BP!BroadcasterInv /\ ControlInv

LEMMA Assumptions == JP!ScraperJobAssumption /\ BP!BroadcasterAssumption
<1>1. IsFiniteSet(Jobs)
  <2>1. IsFiniteSet({Initial})
    BY FS_Singleton
  <2>2. Jobs = {Initial} \cup {Scheduled}
    BY DEF Jobs
  <2>3. QED
    BY <2>1, <2>2, FS_AddElement
<1>2. \A S : IsFiniteSet(S) <=> JP!IsFiniteSet(S) /\ BP!IsFiniteSet(S)
  BY DEF IsFiniteSet, JP!IsFiniteSet, BP!IsFiniteSet
<1>3. JP!ScraperJobAssumption
  BY <1>1, <1>2 DEF PipelineAssumption, JP!ScraperJobAssumption
<1>4. BP!BroadcasterAssumption
  BY <1>2 DEF PipelineAssumption, BP!BroadcasterAssumption
<1>5. QED
  BY <1>3, <1>4

LEMMA InitInv == Init => PipeInv
<1> SUFFICES ASSUME Init
             PROVE  PipeInv
  OBVIOUS
<1>1. JP!CopiesInv
  BY SameJobSteps, Assumptions, JP!InitCopies DEF Init
<1>2. BP!BroadcasterInv
  BY SamePoolSteps, Assumptions, BP!InitPool DEF Init
<1>3. ControlInv
  BY DEF Init, ControlInv, Phases, SchedulerStates, B!Init
<1>4. QED
  BY <1>1, <1>2, <1>3 DEF PipeInv

(* What a step of the pipeline is to the jobs.                             *)
JobsStep(j) == JP!Begin(j) \/ JP!Work(j) \/ JP!Enqueue(j) \/ JP!Cancel(j)
JobsVanish(j) == JP!Vanish /\ JP!CommitMayLand(j) /\ UNCHANGED accepted

LEMMA StepOfJobs ==
    ASSUME [Next]_vars
    PROVE  \/ \E j \in Jobs : JobsStep(j) \/ JobsVanish(j)
           \/ UNCHANGED <<rows, jobVars, accepted>>
<1>1. CASE PostInit \/ Fire \/ \E j \in Jobs : JobWork(j) \/ JobPut(j) \/ JobCancelled(j)
  BY <1>1, SameWork, SameJobSteps
     DEF PostInit, Fire, JobWork, JobPut, JobCancelled, JobsStep, Jobs
<1>2. CASE CloseDb \/ Crash
  BY <1>2, SameJobSteps DEF CloseDb, Crash, Vanish, JobsVanish, B!Vanish
<1>3. CASE \E w \in Workers : WorkerStep(w)
  BY <1>3 DEF WorkerStep, B!WorkerStep, B!Get, B!GetStop, B!Attempt, B!PostOk,
              B!PostThrottled, B!PostRefused, B!PostFailed, B!Raise, B!Wake,
              B!Retry, B!Finish
<1>4. CASE BeginShutdown \/ SchedulerClosed \/ JobJoined \/ StopPublisher
           \/ PublisherStopped \/ UNCHANGED vars
  BY <1>4 DEF BeginShutdown, SchedulerClosed, JobJoined, StopPublisher, StopOrWait,
              PublisherStopped, vars, jobVars, B!Stop, B!StopJoined
<1>5. QED
  BY <1>1, <1>2, <1>3, <1>4 DEF Next, Run, Shutdown

(* What it is to the publisher: a job only puts rows while there is a pool,*)
(* stopped or not, and only rows that were never put before.               *)
LEMMA StepOfPool ==
    ASSUME PipeInv, [Next]_vars
    PROVE  [BP!Next]_BP!vars \/ BP!Vanish
<1>1. CASE PostInit
  BY <1>1, SamePoolSteps DEF PostInit, BP!Next
<1>2. ASSUME NEW j \in Jobs, JobPut(j)
      PROVE  BP!Next
  <2>1. pc[j] = "enqueue"
    BY <1>2 DEF JobPut, J!Enqueue
  <2>2. pool # "none"
    BY <1>2 DEF JobPut, MayRun, PipeInv, ControlInv
  <2>3. outbox[j].next \in RowIds \ accepted
    <3>1. /\ outbox[j] \in [next : Nat, last : Nat]
          /\ outbox[j].next <= outbox[j].last
          /\ JP!Outbox(j) \subseteq JP!Stored \ accepted
          /\ JP!Stored \subseteq RowIds
      BY <2>1 DEF PipeInv, JP!CopiesInv, JP!JobInv, JP!JobShape, JP!TypeOK,
                  JP!HandedOnce, JP!Stored, RowIds
    <3>2. QED
      BY <3>1 DEF JP!Outbox
  <2>4. QED
    BY <1>2, <2>2, <2>3, SamePoolSteps DEF JobPut, BP!Next
<1>3. ASSUME NEW w \in Workers, WorkerStep(w)
      PROVE  BP!Next
  BY <1>3, SamePoolSteps DEF WorkerStep, BP!Next
<1>4. CASE StopPublisher \/ ((BeginShutdown \/ JobJoined) /\ StopOrWait)
  <2>1. ASSUME B!Stop, pool # "none"
        PROVE  BP!Next
    BY <2>1, SamePoolSteps DEF BP!Next
  <2>2. pool # "none"
    BY <1>4 DEF StopPublisher, BeginShutdown, JobJoined, PipeInv, ControlInv
  <2>3. QED
    BY <1>4, <2>1, <2>2 DEF StopPublisher, StopOrWait, poolVars, BP!vars
<1>5. CASE PublisherStopped
  BY <1>5, SamePoolSteps DEF PublisherStopped, poolVars, BP!Next, BP!vars
<1>6. CASE CloseDb \/ Crash
  BY <1>6, SamePoolSteps DEF CloseDb, Crash, Vanish
<1>7. CASE \/ Fire \/ (BeginShutdown /\ ~StopOrWait) \/ SchedulerClosed
           \/ UNCHANGED vars
           \/ \E j \in Jobs : JobWork(j) \/ JobCancelled(j)
  <2>1. ASSUME NEW j \in Jobs, J!Work(j) \/ J!Cancel(j)
        PROVE  UNCHANGED accepted
    BY <2>1 DEF J!Work, J!Scraped, J!Leave, J!Validate, J!CheckExisting, J!Commit,
                J!SaveFails, J!Cancel
  <2>2. UNCHANGED <<poolVars, accepted, posts>>
    BY <1>7, <2>1 DEF Fire, BeginShutdown, SchedulerClosed, JobWork, JobCancelled, vars
  <2>3. QED
    BY <2>2 DEF poolVars, BP!vars
<1>8. QED
  BY <1>1, <1>2, <1>3, <1>4, <1>5, <1>6, <1>7 DEF Next, Run, Shutdown, JobJoined

LEMMA ControlStep ==
    ASSUME PipeInv, [Next]_vars
    PROVE  ControlInv'
<1>1. ControlInv /\ Initial # Scheduled /\ Jobs = {Initial, Scheduled}
  BY DEF PipeInv, Jobs, PipelineAssumption
<1> USE DEF SchedulerStates
<1>2. CASE PostInit
  BY <1>1, <1>2 DEF PostInit, B!Start, ControlInv, Phases
<1>3. CASE Fire
  <2>1. pc'[Initial] = pc[Initial]
    BY <1>1, <1>3 DEF Fire, J!Begin, PipeInv, JP!CopiesInv, JP!JobInv, JP!TypeOK
  <2>2. QED
    BY <1>1, <1>3, <2>1 DEF Fire, ControlInv, poolVars
<1>4. ASSUME NEW j \in Jobs, MayRun(j), TurnOver(j), UNCHANGED <<pool, stopper, phase, cancelled>>,
             pc[j] # "idle", \A i \in Jobs : i # j => pc'[i] = pc[i]
      PROVE  ControlInv'
  <2>1. phase \notin {"down", "up"} => j = Scheduled /\ scheduler = "closing"
    BY <1>1, <1>4 DEF ControlInv, MayRun
  <2>2. scheduler' \in {scheduler, "due"} /\ (scheduler' # scheduler => scheduler = "closing")
    BY <1>4 DEF TurnOver
  <2>3. QED
    BY <1>1, <1>4, <2>1, <2>2 DEF ControlInv, MayRun
<1>5. ASSUME NEW j \in Jobs, JobWork(j)
      PROVE  ControlInv'
  <2>1. pc[j] # "idle" /\ \A i \in Jobs : i # j => pc'[i] = pc[i]
    BY <1>5 DEF JobWork, J!Work, J!Scraped, J!Leave, J!Idle, J!Validate, J!CheckExisting,
                J!Commit, J!SaveFails, PipeInv, JP!CopiesInv, JP!JobInv, JP!TypeOK
  <2>2. QED
    BY <1>4, <1>5, <2>1 DEF JobWork, poolVars
<1>6. ASSUME NEW j \in Jobs, JobPut(j)
      PROVE  ControlInv'
  <2>1. pc[j] # "idle" /\ \A i \in Jobs : i # j => pc'[i] = pc[i]
    BY <1>6 DEF JobPut, J!Enqueue, PipeInv, JP!CopiesInv, JP!JobInv, JP!TypeOK
  <2>2. QED
    BY <1>4, <1>6, <2>1 DEF JobPut, B!Put
<1>7. ASSUME NEW w \in Workers, WorkerStep(w)
      PROVE  ControlInv'
  <2>1. pool' \in {pool, "done"} /\ stopper' = stopper /\ pool # "none"
    BY <1>1, <1>7 DEF ControlInv, WorkerStep, B!WorkerStep, B!Get, B!GetStop, B!Attempt,
                B!PostOk, B!PostThrottled, B!PostRefused, B!PostFailed, B!Raise,
                B!Wake, B!Retry, B!Finish
  <2>2. QED
    BY <1>1, <1>7, <2>1 DEF WorkerStep, ControlInv, jobVars
<1>8. ASSUME StopOrWait \/ (B!Stop /\ phase' = "joinPublisher"),
             stopper = "off", pool # "none"
      PROVE  /\ phase' \in {"stopPublisher", "joinPublisher"} /\ pool' # "none"
             /\ phase' = "stopPublisher" => stopper' = "off"
  BY <1>8 DEF StopOrWait, B!Stop, poolVars
<1>9. CASE BeginShutdown
  <2>1. phase = "up" /\ stopper = "off" /\ pool # "none" /\ scheduler' = "closing"
        /\ pc' = pc
    BY <1>1, <1>9 DEF BeginShutdown, ControlInv, jobVars
  <2>2. CASE pc[Initial] = "idle"
    BY <1>1, <1>8, <1>9, <2>1, <2>2 DEF BeginShutdown, ControlInv, Phases
  <2>3. CASE pc[Initial] # "idle"
    BY <1>1, <1>9, <2>1, <2>3 DEF BeginShutdown, ControlInv, Phases, poolVars
  <2>4. QED
    BY <2>2, <2>3
<1>10. CASE SchedulerClosed
  BY <1>1, <1>10 DEF SchedulerClosed, ControlInv, poolVars, jobVars
<1>11. ASSUME NEW j \in Jobs, JobCancelled(j)
      PROVE  ControlInv'
  <2>1. \A i \in Jobs : pc'[i] # "idle" => i # j /\ pc'[i] = pc[i]
    BY <1>11 DEF JobCancelled, J!Cancel, J!Idle, PipeInv, JP!CopiesInv, JP!JobInv,
                JP!TypeOK
  <2>2. QED
    BY <1>1, <1>11, <2>1 DEF JobCancelled, ControlInv, poolVars
<1>12. CASE JobJoined \/ StopPublisher
  <2>1. /\ phase \in {"cancelJob", "stopPublisher"} /\ scheduler = "off"
        /\ pc' = pc /\ UNCHANGED <<scheduler, cancelled>>
        /\ StopOrWait \/ (B!Stop /\ phase' = "joinPublisher")
    BY <1>12 DEF JobJoined, StopPublisher, jobVars
  <2>2. stopper = "off" /\ pool # "none"
    BY <1>1, <2>1 DEF ControlInv
  <2>3. QED
    BY <1>1, <1>8, <2>1, <2>2 DEF ControlInv, Phases
<1>13. CASE PublisherStopped
  BY <1>1, <1>13 DEF PublisherStopped, B!StopJoined, ControlInv, Phases, poolVars, jobVars
<1>14. CASE CloseDb \/ Crash
  BY <1>14 DEF CloseDb, Crash, Vanish, J!Vanish, B!Vanish, ControlInv, Phases
<1>15. CASE UNCHANGED vars
  BY <1>1, <1>15 DEF vars, poolVars, jobVars, ControlInv
<1>16. QED
  BY <1>2, <1>3, <1>5, <1>6, <1>7, <1>9, <1>10, <1>11, <1>12, <1>13, <1>14, <1>15
     DEF Next, Run, Shutdown

LEMMA NextInv == PipeInv /\ [Next]_vars => PipeInv'
<1> SUFFICES ASSUME PipeInv, [Next]_vars
             PROVE  PipeInv'
  OBVIOUS
<1>1. JP!CopiesInv'
  <2>1. ASSUME NEW j \in Jobs, JobsStep(j)
        PROVE  JP!CopiesInv'
    BY <2>1, Assumptions, JP!CopiesStep DEF JobsStep, JP!Next, PipeInv
  <2>2. ASSUME NEW j \in Jobs, JobsVanish(j)
        PROVE  JP!CopiesInv'
    BY <2>2, Assumptions, JP!VanishCopies DEF JobsVanish, PipeInv
  <2>3. ASSUME UNCHANGED <<rows, jobVars, accepted>>
        PROVE  JP!CopiesInv'
    BY <2>3, Assumptions, JP!CopiesStep DEF jobVars, JP!vars, PipeInv
  <2>4. QED
    BY <2>1, <2>2, <2>3, StepOfJobs
<1>2. BP!BroadcasterInv'
  <2>1. ASSUME BP!Vanish
        PROVE  BP!BroadcasterInv'
    BY <2>1, Assumptions, BP!VanishStep, BP!VanishPool DEF PipeInv, BP!BroadcasterInv
  <2>2. QED
    BY <2>1, StepOfPool, Assumptions, BP!NextInv DEF PipeInv
<1>3. QED
  BY <1>1, <1>2, ControlStep DEF PipeInv

LEMMA Inductive == Spec => []PipeInv
<1>1. QED
  BY InitInv, NextInv, PTL DEF Spec

-----------------------------------------------------------------------------
LEMMA SameJobInv ==
    JP!JobInv => J!TypeOK /\ J!HandedOnce
BY DEF JP!JobInv, J!TypeOK, JP!TypeOK, J!HandedOnce, JP!HandedOnce, J!Outbox,
       JP!Outbox, J!Stored, JP!Stored, J!RowIds, JP!RowIds

LEMMA SamePoolInv ==
    /\ BP!ItemsInv => B!TypeOK
    /\ B!LiveWorkers = BP!LiveWorkers
BY DEF BP!ItemsInv, B!TypeOK, BP!TypeOK, B!LiveWorkers, BP!LiveWorkers,
       B!Live, BP!Live, B!Ended, BP!Ended

(* What waits in the queue, is held by a worker or was shown was put in    *)
(* the queue, and is therefore stored.                                     *)
LEMMA WaitingAccepted ==
    ASSUME PipeInv, NEW i \in RowIds, BP!Waits(i) \/ posts[i] > 0
    PROVE  i \in accepted /\ i \in JP!Stored
<1>1. i \in accepted
  BY DEF PipeInv, BP!BroadcasterInv, BP!ItemsInv, BP!ItemShape, BP!Waits,
         BP!LiveWorkers, PipelineAssumption
<1>2. QED
  BY <1>1 DEF PipeInv, JP!CopiesInv, JP!JobInv, JP!HandedOnce

LEMMA SameWaits ==
    ASSUME NEW i
    PROVE  BP!Waits(i) <=> InQueue(i) \/ InHand(i)
BY SamePoolInv DEF BP!Waits, BP!InQueue, InQueue, InHand

(* For any numbers of configs, sources, rows and workers: types; whatever  *)
(* the channel shows or is about to show was stored and put in the queue.  *)
THEOREM PipelineSafety == Spec => [](TypeOK /\ PublishedIsStored)
<1>1. PipeInv => TypeOK
  BY SameJobInv, SamePoolInv
     DEF PipeInv, JP!CopiesInv, BP!BroadcasterInv, ControlInv, TypeOK
<1>2. PipeInv => PublishedIsStored
  BY WaitingAccepted, SameWaits DEF PublishedIsStored, JP!Stored, J!Stored
<1>3. QED
  BY <1>1, <1>2, Inductive, PTL

(* No row is put in the queue twice, not even by the process after a crash.*)
THEOREM PipelineHandsOnce == Spec => []HandedOnce
<1>1. PipeInv => HandedOnce
  BY SameJobInv DEF PipeInv, JP!CopiesInv, HandedOnce
<1>2. QED
  BY <1>1, Inductive, PTL

(* Two jobs, and as many crashes as there may be: a hash is stored at most *)
(* twice.                                                                  *)
THEOREM PipelineDuplicateBound == Spec => []DuplicateBound
<1>1. PipeInv => DuplicateBound
  <2>1. JP!CopiesInv => JP!DuplicateBound
    BY Assumptions, JP!CopiesBounded
  <2>2. JP!DuplicateBound => J!DuplicateBound
    BY DEF JP!DuplicateBound, J!DuplicateBound, JP!Copies, J!Copies,
           JP!Stored, J!Stored, JP!Cardinality, J!Cardinality
  <2>3. QED
    BY <2>1, <2>2 DEF PipeInv, DuplicateBound
<1>2. QED
  BY <1>1, Inductive, PTL

-----------------------------------------------------------------------------
(* What a step does to the table, the outboxes and the queue.              *)
LEMMA JobsFrame ==
    ASSUME PipeInv, [Next]_vars
    PROVE  JP!TableGrows /\ JP!OnlyNewToSend /\ JP!HandedFromOutbox
<1>1. JP!JobInv
  BY DEF PipeInv, JP!CopiesInv
<1>2. ASSUME NEW j \in Jobs, JobsStep(j)
      PROVE  JP!TableGrows /\ JP!OnlyNewToSend /\ JP!HandedFromOutbox
  BY <1>1, <1>2, Assumptions, JP!JobGrows DEF JobsStep
<1>3. ASSUME NEW j \in Jobs, JobsVanish(j)
      PROVE  JP!TableGrows /\ JP!OnlyNewToSend /\ JP!HandedFromOutbox
  <2>1. JP!TableGrows /\ JP!OnlyNewToSend
    BY <1>1, <1>3, Assumptions, JP!VanishGrows DEF JobsVanish
  <2>2. QED
    BY <1>3, <2>1 DEF JobsVanish, JP!HandedFromOutbox
<1>4. CASE UNCHANGED <<rows, jobVars, accepted>>
  BY <1>1, <1>4, Assumptions, JP!TableKept
     DEF jobVars, JP!OnlyNewToSend, JP!HandedFromOutbox, JP!Outbox, JP!Stored
<1>5. QED
  BY <1>2, <1>3, <1>4, StepOfJobs

LEMMA SameStored == J!Stored = JP!Stored /\ \A j \in Jobs : J!Outbox(j) = JP!Outbox(j)
BY DEF J!Stored, JP!Stored, J!Outbox, JP!Outbox

(* A row that was given up stays so.                                       *)
LEMMA RetiredStays ==
    ASSUME PipeInv, PipeInv', [Next]_vars, NEW i \in Retired
    PROVE  i \in Retired'
<1>1. /\ i \in JP!Stored /\ ~BP!Waits(i)
      /\ \A j \in Jobs : i \notin JP!Outbox(j)
  BY SameStored, SameWaits DEF Retired, InOutbox
<1>2. JP!TableGrows /\ JP!OnlyNewToSend /\ JP!HandedFromOutbox
  BY JobsFrame
<1>3. i \in JP!Stored' /\ i \in RowIds
  BY <1>1, <1>2 DEF JP!TableGrows, JP!Stored, PipeInv, JP!CopiesInv, JP!JobInv,
                    JP!TypeOK, RowIds, PipelineAssumption
<1>4. \A j \in Jobs : i \notin JP!Outbox(j)'
  BY <1>1, <1>2 DEF JP!OnlyNewToSend
<1>5. ~BP!Waits(i)'
  <2>1. i \notin accepted' \ accepted
    BY <1>1, <1>2 DEF JP!HandedFromOutbox
  <2>2. BP!Waits(i)' => BP!Waits(i) \/ i \in accepted' \ accepted
    BY <1>3, StepOfPool, Assumptions, BP!PoolFrame DEF PipeInv
  <2>3. QED
    BY <1>1, <2>1, <2>2
<1>6. QED
  BY <1>3, <1>4, <1>5
     DEF Retired, InOutbox, InQueue, InHand, J!Stored, JP!Stored, J!Outbox, JP!Outbox,
         BP!Waits, BP!InQueue, BP!LiveWorkers, BP!Live, B!LiveWorkers, B!Live

LEMMA FeedStep ==
    ASSUME PipeInv, PipeInv', [Next]_vars
    PROVE  Feed!Next
<1>1. JP!TableGrows
  BY JobsFrame
<1>2. rows' \in Seq(Configs) /\ SubSeq(rows', 1, Len(rows)) = rows
  <2>1. rows \in Seq(Configs)
    BY DEF PipeInv, JP!CopiesInv, JP!JobInv, JP!TypeOK
  <2>2. QED
    BY <1>1, <2>1 DEF JP!TableGrows
<1>3. Retired \subseteq Retired' /\ Retired' \subseteq 1 .. Len(rows')
  BY RetiredStays DEF Retired, J!Stored
<1>4. ASSUME NEW i \in RowIds
      PROVE  \/ posts'[i] = posts[i]
             \/ /\ i \in Feed!Stored \ Retired
                /\ posts[i] < MaxRetries + 1
                /\ posts'[i] = posts[i] + 1
  <2>1. BP!PostedFromHand(i)
    BY StepOfPool, Assumptions, BP!PoolFrame DEF PipeInv
  <2>2. CASE \E w \in BP!LiveWorkers : holding[w] = i
    <3>1. i \in JP!Stored /\ i \notin Retired
      BY <2>2, WaitingAccepted, SameWaits DEF BP!Waits, Retired
    <3>2. posts[i] \in Nat
      BY DEF PipeInv, BP!BroadcasterInv, BP!ItemsInv, BP!TypeOK
    <3>3. QED
      BY <2>1, <3>1, <3>2 DEF BP!PostedFromHand, Feed!Stored, JP!Stored, PipelineAssumption
  <2>3. QED
    BY <2>1, <2>2 DEF BP!PostedFromHand
<1>5. QED
  BY <1>2, <1>3, <1>4 DEF Feed!Next

(* The pipeline, with its queue, workers, retries, jobs and crashes, is an *)
(* implementation of the abstract feed.                                    *)
THEOREM Refinement == Spec => ImplementsFeed
<1>1. Init => Feed!Init
  BY DEF Init, Feed!Init, J!Init, B!Init, Retired, J!Stored
<1>2. PipeInv /\ PipeInv' /\ [Next]_vars => [Feed!Next]_Feed!vars
  BY FeedStep
<1>3. QED
  BY <1>1, <1>2, Inductive, PTL DEF Spec, ImplementsFeed, Feed!Spec

(* After post_shutdown has begun the first job only ends; the scheduled    *)
(* one may have a turn ahead of the scheduler's callback, and after that   *)
(* only ends as well: nothing more is put.                                 *)
THEOREM ShutdownIsQuiet == Spec => QuietShutdown
<1> DEFINE Quiet == phase \notin {"down", "up"} =>
        \/ scheduler = "closing" /\ pc'[Initial] \in {pc[Initial], "idle"}
        \/ /\ accepted' = accepted
           /\ \A j \in Jobs : pc[j] # "idle" => pc'[j] \in {pc[j], "idle"}
<1>1. ASSUME PipeInv, [Next]_vars, phase \notin {"down", "up"}
      PROVE  Quiet
  <2>1. /\ pc[Initial] # "idle" => Initial \in cancelled
        /\ scheduler = "off" /\ pc[Scheduled] # "idle" => Scheduled \in cancelled
        /\ scheduler \in {"off", "closing", "due"}
    BY <1>1 DEF PipeInv, ControlInv, SchedulerStates
  <2>2. pc \in [Jobs -> {"idle", "scrape", "source", "check", "commit", "enqueue"}]
    BY <1>1 DEF PipeInv, JP!CopiesInv, JP!JobInv, JP!TypeOK
  <2>3. ASSUME NEW j \in Jobs, JobWork(j) \/ JobPut(j)
        PROVE  Quiet
    <3>1. pc[j] # "idle"
      BY <2>3 DEF JobWork, JobPut, J!Work, J!Scraped, J!Leave, J!Validate,
                  J!CheckExisting, J!Commit, J!SaveFails, J!Enqueue
    <3>2. j = Scheduled /\ scheduler = "closing"
      BY <2>1, <2>3, <3>1 DEF JobWork, JobPut, MayRun, Jobs
    <3>3. pc'[Initial] = pc[Initial]
      <4>1. Initial \in Jobs /\ Initial # j
        BY <3>2 DEF Jobs, PipelineAssumption
      <4>2. QED
        BY <2>2, <2>3, <4>1 DEF JobWork, JobPut, J!Work, J!Scraped, J!Leave, J!Idle,
             J!Validate, J!CheckExisting, J!Commit, J!SaveFails, J!Enqueue
    <3>4. QED
      BY <3>2, <3>3
  <2>4. ASSUME NEW j \in Jobs, JobCancelled(j)
        PROVE  Quiet
    BY <2>2, <2>4 DEF JobCancelled, J!Cancel, J!Idle
  <2>5. CASE CloseDb \/ Crash
    BY <2>5 DEF CloseDb, Crash, Vanish, J!Vanish, B!Vanish
  <2>6. ASSUME NEW w \in Workers, WorkerStep(w)
        PROVE  Quiet
    BY <2>6 DEF WorkerStep, jobVars, B!WorkerStep, B!Get, B!GetStop, B!Attempt, B!PostOk,
                B!PostThrottled, B!PostRefused, B!PostFailed, B!Raise, B!Wake,
                B!Retry, B!Finish
  <2>7. CASE SchedulerClosed \/ JobJoined \/ StopPublisher \/ PublisherStopped
             \/ UNCHANGED vars
    BY <2>7 DEF SchedulerClosed, JobJoined, StopOrWait, StopPublisher, PublisherStopped,
                B!Stop, B!StopJoined, vars, jobVars
  <2>8. CASE Fire
    BY <2>2, <2>8 DEF Fire, J!Begin
  <2>9. QED
    BY <1>1, <2>3, <2>4, <2>5, <2>6, <2>7, <2>8
       DEF Next, Run, Shutdown, PostInit, BeginShutdown
<1>2. PipeInv /\ [Next]_vars => [Quiet]_vars
  BY <1>1
<1>3. QED
  BY <1>2, Inductive, PTL DEF Spec, QuietShutdown
=============================================================================
