------------------------------ MODULE Validator ------------------------------
(***************************************************************************)
(* ConfigValidator (processor/validator.py) as scraper_job uses it: one    *)
(* validator for a job, one batch after the other, the validations of a    *)
(* batch at the same time, as far as its semaphore lets them in.  They ask *)
(* for countries through the one rate limiter of the process, beside the   *)
(* validations of the other job, of which only their calls are modelled.   *)
(*                                                                         *)
(* A config stands for its hash: a batch has each hash once, because the   *)
(* scrapers leave it there once (base.py:217, subscription.py:184), and of *)
(* known protocols only (constants.py:44).  Hosts are not tried, because   *)
(* the one caller passes check_ping=False (main.py:133).                   *)
(***************************************************************************)
EXTENDS GeoRateLimiter

CONSTANTS Configs,
          Others,         \* validations of the other job
          Hosts,
          HostOf,         \* the host a config names, if it names one
          MaxConcurrent   \* max_concurrent: 10

ASSUME ValidatorAssumption ==
    /\ Callers = Configs \cup Others
    /\ Configs \cap Others = {}
    /\ IsFiniteSet(Configs)
    /\ HostOf \in [Configs -> SUBSET Hosts]
    /\ \A c \in Configs : \A g, h \in HostOf[c] : g = h
    /\ MaxConcurrent \in Nat \ {0}

VARIABLES job,      \* "off", "ready" for a batch, in a "batch", "cancelled" in one
          task,     \* where the validation of a config stands
          seen,     \* _seen_hashes
          country,  \* _country_cache
          valid,    \* configs of the batch that have a result
          given,    \* history: configs in the results of earlier batches
          asked     \* history: lookups of each host by this validator

validatorVars == <<job, task, seen, country, valid, given, asked>>
vars == <<limiterVars, validatorVars>>

TypeOK ==
    /\ LineOK
    /\ job \in {"off", "ready", "batch", "cancelled"}
    /\ task \in [Configs -> {"out", "queued", "acquire", "lookup"}]
    /\ seen \subseteq Configs
    /\ country \in [Hosts -> {"unknown", "code", "null"}]
    /\ valid \subseteq Configs
    /\ given \subseteq Configs
    /\ asked \in [Hosts -> Nat]

\* A validator that has just been created.
Fresh(s, k, v, g, n) ==
    /\ s = {} /\ v = {} /\ g = {}
    /\ k = [h \in Hosts |-> "unknown"]
    /\ n = [h \in Hosts |-> 0]

Init ==
    /\ LimiterInit
    /\ job = "off"
    /\ task = [c \in Configs |-> "out"]
    /\ Fresh(seen, country, valid, given, asked)

\* Mutant: a validation counts before it is let in.
InsideOrWaiting == {c \in Configs : task[c] # "out"}

\* Validations that hold the semaphore of the batch.
Inside == {c \in Configs : task[c] \in {"acquire", "lookup"}}

-----------------------------------------------------------------------------
(* A job creates its validator, and drops it when it is over.              *)
Start ==
    /\ job = "off"
    /\ job' = "ready"
    /\ UNCHANGED <<limiterVars, task, seen, country, valid, given, asked>>

Leave ==
    /\ job' = "off"
    /\ Fresh(seen', country', valid', given', asked')
    /\ UNCHANGED <<limiterVars, task>>

(* validate_batch, for the configs of a source.                            *)
Batch ==
    /\ job = "ready"
    /\ \E batch \in SUBSET Configs \ {{}} :
         task' = [c \in Configs |-> IF c \in batch THEN "queued" ELSE "out"]
    /\ job' = "batch"
    /\ UNCHANGED <<limiterVars, seen, country, valid, given, asked>>

(* validate_one from the country on: inject_watermark raises when the      *)
(* country is None, and there is no result.                                *)
Finish(c, code) ==
    /\ task' = [task EXCEPT ![c] = "out"]
    /\ IF code = "null"
       THEN UNCHANGED <<seen, valid>>
       ELSE /\ seen' = seen \cup {c}
            /\ valid' = valid \cup {c}

\* A validation passes the semaphore.
Entering(c) ==
    /\ job = "batch"
    /\ task[c] = "queued"
    /\ Cardinality(Inside) < MaxConcurrent
    /\ UNCHANGED <<job, country, given>>

Seen(c) ==
    /\ Entering(c) /\ c \in seen
    /\ task' = [task EXCEPT ![c] = "out"]
    /\ UNCHANGED <<limiterVars, seen, valid, asked>>

\* Mutant: the results of earlier batches are not looked at.
NoLookupUnchecked(c) ==
    /\ Entering(c)
    /\ \/ HostOf[c] = {} /\ Finish(c, "code")
       \/ \E h \in HostOf[c] : country[h] # "unknown" /\ Finish(c, country[h])
    /\ UNCHANGED <<limiterVars, asked>>

\* The config names no host, or one whose country was stored.
NoLookup(c) ==
    /\ Entering(c) /\ c \notin seen
    /\ \/ HostOf[c] = {} /\ Finish(c, "code")
       \/ \E h \in HostOf[c] : country[h] # "unknown" /\ Finish(c, country[h])
    /\ UNCHANGED <<limiterVars, asked>>

Ask(c) ==
    /\ Entering(c) /\ c \notin seen
    /\ \E h \in HostOf[c] :
         /\ country[h] = "unknown"
         /\ asked' = [asked EXCEPT ![h] = @ + 1]
    /\ task' = [task EXCEPT ![c] = "acquire"]
    /\ Arrive(c)
    /\ UNCHANGED <<seen, valid>>

(* Who is let through the limiter sends its request; of the other job's    *)
(* validations no more is looked at.                                       *)
Granted ==
    /\ ~(job = "cancelled" /\ Head(line) \in Configs)
    /\ task' = IF Head(line) \in Configs
               THEN [task EXCEPT ![Head(line)] = "lookup"]
               ELSE task
    /\ UNCHANGED <<job, seen, country, valid, given, asked>>

PassLimiter == Pass /\ Granted
WakeInLimiter == Wake /\ Granted
SleepInLimiter ==
    /\ Sleep
    /\ ~(job = "cancelled" /\ Head(line) \in Configs)
    /\ UNCHANGED validatorVars

OtherCalls(o) == (Arrive(o) \/ Abort(o)) /\ UNCHANGED validatorVars

\* Mutant: the country is not stored.
AnswerNotStored(c) ==
    /\ job = "batch" /\ task[c] = "lookup"
    /\ \E code \in {"code", "null"} : Finish(c, code)
    /\ UNCHANGED <<limiterVars, job, country, given, asked>>

(* fetch_country_code returns a code, "UN" after any failure, or the None  *)
(* of an answer that has null for it (utils.py:238).                       *)
Answer(c) ==
    /\ job = "batch" /\ task[c] = "lookup"
    /\ \E h \in HostOf[c], code \in {"code", "null"} :
         /\ country' = [country EXCEPT ![h] = code]
         /\ Finish(c, code)
    /\ UNCHANGED <<limiterVars, job, given, asked>>

(* gather has all outcomes; those that raised are left out.                *)
Outcomes ==
    /\ job = "batch"
    /\ \A c \in Configs : task[c] = "out"
    /\ job' = "ready"
    /\ given' = given \cup valid
    /\ valid' = {}
    /\ UNCHANGED <<limiterVars, task, seen, country, asked>>

(* The job has been through its sources, or is cancelled in between.       *)
End == job = "ready" /\ Leave

(* The job is cancelled in a batch: gather cancels the validations, each   *)
(* ends where it stands, and then the CancelledError goes on to the job.   *)
Cancel ==
    /\ job = "batch"
    /\ job' = "cancelled"
    /\ UNCHANGED <<limiterVars, task, seen, country, valid, given, asked>>

Cancelled(c) ==
    /\ job = "cancelled" /\ task[c] # "out"
    /\ task' = [task EXCEPT ![c] = "out"]
    /\ IF InLine(c) THEN Abort(c) ELSE UNCHANGED limiterVars
    /\ UNCHANGED <<job, seen, country, valid, given, asked>>

Stopped ==
    /\ job = "cancelled"
    /\ \A c \in Configs : task[c] = "out"
    /\ Leave

-----------------------------------------------------------------------------
Validation(c) == Seen(c) \/ NoLookup(c) \/ Ask(c) \/ Answer(c) \/ Cancelled(c)
LimiterStep == PassLimiter \/ SleepInLimiter \/ WakeInLimiter
Time == Tick /\ UNCHANGED validatorVars

Next ==
    \/ Start \/ Batch \/ Outcomes \/ End \/ Cancel \/ Stopped
    \/ \E c \in Configs : Validation(c)
    \/ \E o \in Others : OtherCalls(o)
    \/ LimiterStep
    \/ Time

Spec == Init /\ [][Next]_vars

(* Coroutines that can go on do, a lookup ends by an answer or its 8 s     *)
(* (utils.py:222), and time goes on.  Nothing is assumed of new batches or *)
(* of the other job.                                                       *)
FairSpec ==
    /\ Spec
    /\ WF_vars(Outcomes \/ Stopped)
    /\ \A c \in Configs : WF_vars(Validation(c))
    /\ WF_vars(LimiterStep) /\ WF_vars(Time)

-----------------------------------------------------------------------------
(* The cache is read before a lookup and written after it, so validations  *)
(* of one host may all ask; but no more of them than the semaphore lets in *)
(* at once, however many configs and batches have that host.               *)
LookupBound == \A h \in Hosts : asked[h] <= MaxConcurrent

(* Over all batches of a job a config has a result once, though the check  *)
(* and the add are on two sides of an await, and a validation that found   *)
(* no country is to be tried again.                                        *)
ResultOnce == valid \cap given = {} /\ valid \cup given = seen

(* The inductive invariant behind the two.  Who asks stands in the line    *)
(* once; nobody asks for a config that has a result; and as long as the    *)
(* country of a host is not known, those that asked for it are the         *)
(* validations that hold the semaphore now.                                *)
Askers(h) == {c \in Inside : h \in HostOf[c]}
BatchInv ==
    /\ TypeOK
    /\ LookupBound /\ ResultOnce
    /\ IsInjective(line) /\ (asleep => line # << >>)
    /\ \A c \in Configs : InLine(c) <=> task[c] = "acquire"
    /\ \A c \in Inside : c \notin seen
    /\ Cardinality(Inside) <= MaxConcurrent
    /\ job \in {"off", "ready"} => \A c \in Configs : task[c] = "out"
    /\ job # "cancelled" =>
          \A h \in Hosts : country[h] = "unknown" => asked[h] = Cardinality(Askers(h))

(* Nobody waits for ever behind a sleeper: every caller of the limiter gets*)
(* its turn, or leaves because its job was cancelled.                      *)
EveryoneServed == \A c \in Callers : InLine(c) ~> ~InLine(c)

(* A batch ends, whatever sleeps or is cancelled in front of it in the     *)
(* line that it shares with the other job.                                 *)
BatchEnds == job \in {"batch", "cancelled"} ~> job \in {"off", "ready"}
=============================================================================
