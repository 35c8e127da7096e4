------------------------------ MODULE PerfTester ------------------------------
(***************************************************************************)
(* core/white_configs_perf_tester.py: evaluate_white_configs measures rows *)
(* in one task each, a bounded number at a time, collects the results in   *)
(* the order they come and keeps the best.  A measurement has a directory  *)
(* of its own and, for a config that is a JSON document, a proxy process.  *)
(*                                                                         *)
(* Stored configs are links; a measurement of one fails to start the proxy *)
(* with a ValueError and goes on with plain connections (line 274).  JSON  *)
(* texts and rows without a server are inputs the function provides for.   *)
(* Evaluations share nothing but the machine, so the model follows one at  *)
(* a time, to the end of the last of its tasks.                            *)
(***************************************************************************)
EXTENDS Integers, Sequences, FiniteSets, Functions

CONSTANTS Rows,            \* rows of processed_configs
          Json,            \* those whose raw_config is a JSON document
          Serverless,      \* those without host, in which none is found either
          MaxConcurrency,  \* max_concurrency (50, line 27)
          Rounds,          \* STABILITY_ROUNDS (3, line 24)
          Latencies        \* bound: milliseconds a connection may take

ASSUME PerfTesterAssumption ==
    /\ IsFiniteSet(Rows)
    /\ Json \subseteq Rows /\ Serverless \subseteq Rows
    /\ MaxConcurrency \in Nat \ {0}
    /\ Rounds \in Nat \ {0}
    /\ Latencies \subseteq Nat /\ Latencies # {}

VARIABLES phase,    \* of evaluate_white_configs
          chosen,   \* the rows it was given
          top,      \* top_n
          task,     \* where the task of each row stands
          tally,    \* [alive, ok, ms, done] of each measurement: is the server taken
                    \* for alive, successful rounds, their milliseconds, rounds
          ended,    \* tasks that ended and were not collected, in that order
          results,  \* rows whose results were collected, in that order
          best,     \* what the evaluation returned
          dirs,     \* temporary directories of measurements that exist (the
                    \* directory cfg_<id> around one stays for good)
          procs     \* proxy processes that run

perfVars == <<phase, chosen, top, task, tally, ended, results, best, dirs, procs>>

Waiting == {"waiting"}
Running == {"probe", "socks", "tcp", "swallowed"}
Live    == Waiting \cup Running
Over    == {"returned", "raised", "cancelled"}
NoTally == [alive |-> FALSE, ok |-> 0, ms |-> 0, done |-> 0]

In(states) == {r \in Rows : task[r] \in states}

PerfTypeOK ==
    /\ phase \in {"off", "collect", "done", "failed"}
    /\ chosen \in Seq(Rows) /\ top \in Nat
    /\ task \in [Rows -> {"none"} \cup Live \cup Over]
    /\ tally \in [Rows -> [alive : BOOLEAN, ok : 0 .. Rounds, ms : Nat, done : 0 .. Rounds]]
    /\ ended \in Seq(Rows) /\ results \in Seq(Rows)
    /\ dirs \in SUBSET Rows /\ procs \in SUBSET Rows

PerfInit ==
    /\ phase = "off" /\ chosen = << >> /\ top = 0
    /\ task = [r \in Rows |-> "none"]
    /\ tally = [r \in Rows |-> NoTally]
    /\ ended = << >> /\ results = << >> /\ best = << >>
    /\ dirs = {} /\ procs = {}

-----------------------------------------------------------------------------
(* The score, in tenths: the code's bounds on the average, multiplied by   *)
(* the number of successes.                                                *)
TtfbScore(ok, ms) ==
    IF ok = 0 THEN 10
    ELSE IF ms < 150 * ok THEN 100
    ELSE IF ms <= 300 * ok THEN 80
    ELSE IF ms <= 600 * ok THEN 60
    ELSE IF ms <= 1000 * ok THEN 40 ELSE 10

StabilityScore(ok) == IF ok = 3 THEN 100 ELSE IF ok = 2 THEN 60 ELSE IF ok = 1 THEN 20 ELSE 0

Score(t) == IF ~t.alive THEN 0 ELSE 7 * TtfbScore(t.ok, t.ms) + 3 * StabilityScore(t.ok)

\* list.sort(key=score, reverse=True) keeps the order of equals: the place of
\* the k-th result is after those with a better score and earlier equals.
Ahead(s, i, k) ==
    \/ Score(tally[s[i]]) > Score(tally[s[k]])
    \/ Score(tally[s[i]]) = Score(tally[s[k]]) /\ i < k

Place(s, k) == 1 + Cardinality({i \in 1 .. Len(s) : Ahead(s, i, k)})

\* Mutant: the first top_n results are sorted, not the results.
TopOfFirst(s) ==
    LET n == IF top < Len(s) THEN top ELSE Len(s)
        head == SubSeq(s, 1, n)
    IN  [p \in 1 .. n |-> head[CHOOSE k \in 1 .. n : Place(head, k) = p]]

TopOf(s) ==
    LET n == IF top < Len(s) THEN top ELSE Len(s)
    IN  [p \in 1 .. n |-> s[CHOOSE k \in 1 .. Len(s) : Place(s, k) = p]]

-----------------------------------------------------------------------------
\* Mutant: a measurement that finds no proxy returns before the try.
EndsUncleaned(r, how) ==
    /\ task' = [task EXCEPT ![r] = how]
    /\ ended' = IF phase = "collect" THEN Append(ended, r) ELSE ended
    /\ procs' = IF tally[r].alive THEN procs \ {r} ELSE procs
    /\ dirs' = dirs \ {r}

\* Mutant: the collection does not hear of a task that raised.
EndsUnheard(r, how) ==
    /\ task' = [task EXCEPT ![r] = how]
    /\ ended' = IF how = "returned" /\ phase = "collect" THEN Append(ended, r) ELSE ended
    /\ procs' = procs \ {r}
    /\ dirs' = dirs \ {r}

(* The end of the task of r: the context of the semaphore is left, and the *)
(* finally has killed the process and removed the directory.               *)
Ends(r, how) ==
    /\ task' = [task EXCEPT ![r] = how]
    /\ ended' = IF phase = "collect" THEN Append(ended, r) ELSE ended
    /\ procs' = procs \ {r}
    /\ dirs' = dirs \ {r}

(* evaluate_white_configs is called: a task for each row.                  *)
Evaluate(rows, n) ==
    /\ phase = "off"
    /\ phase' = "collect" /\ chosen' = rows /\ top' = n
    /\ task' = [r \in Rows |-> IF r \in Range(rows) THEN "waiting" ELSE "none"]
    /\ UNCHANGED <<tally, ended, results, best, dirs, procs>>

\* asyncio.Semaphore lets in those that wait in the order of their rows.
Enters(r) ==
    /\ task[r] = "waiting"
    /\ Cardinality(In(Running)) < MaxConcurrency
    /\ \E k \in 1 .. Len(chosen) :
         chosen[k] = r /\ \A i \in 1 .. k - 1 : task[chosen[i]] # "waiting"

(* No port could be reserved: this is outside the try, and the task        *)
(* raises; the only way in which a measurement does.                       *)
PortFails(r) ==
    /\ Enters(r)
    /\ Ends(r, "raised")
    /\ UNCHANGED <<phase, chosen, top, tally, results, best>>

(* No server, or the directory, the file or the process cannot be made:    *)
(* the result of a server that is not alive.                               *)
StartFails(r) ==
    /\ Enters(r)
    /\ Ends(r, "returned")
    /\ UNCHANGED <<phase, chosen, top, tally, results, best>>

(* The proxy process is started and its port polled.                       *)
StartProxy(r) ==
    /\ Enters(r) /\ r \notin Serverless /\ r \in Json
    /\ task' = [task EXCEPT ![r] = "probe"]
    /\ dirs' = dirs \cup {r}
    /\ procs' = procs \cup {r}
    /\ UNCHANGED <<phase, chosen, top, tally, ended, results, best>>

(* A link: the directory was made before the text was looked at, then a    *)
(* ValueError leads to plain connections.                                  *)
StartLink(r) ==
    /\ Enters(r) /\ r \notin Serverless /\ r \notin Json
    /\ task' = [task EXCEPT ![r] = "tcp"]
    /\ dirs' = dirs \cup {r}
    /\ UNCHANGED <<phase, chosen, top, tally, ended, results, best, procs>>

(* Something answers at the port within 8 s: alive, whatever the rounds    *)
(* will give; or nothing does.                                             *)
PortAnswers(r) ==
    /\ phase = "collect" /\ task[r] = "probe"
    /\ task' = [task EXCEPT ![r] = "socks"]
    /\ tally' = [tally EXCEPT ![r].alive = TRUE]
    /\ UNCHANGED <<phase, chosen, top, ended, results, best, dirs, procs>>

PortSilent(r) ==
    /\ phase = "collect" /\ task[r] = "probe"
    /\ Ends(r, "returned")
    /\ UNCHANGED <<phase, chosen, top, tally, results, best>>

(* One of the rounds, of which the last ends the measurement.  Of a link   *)
(* it decides whether the server is alive.                                 *)
Round(r) ==
    /\ \/ phase = "collect" /\ task[r] \in {"socks", "tcp"}
       \/ task[r] = "swallowed"
    /\ \/ tally' = [tally EXCEPT ![r].done = @ + 1]
       \/ \E ms \in Latencies :
             tally' = [tally EXCEPT ![r] =
                [alive |-> @.alive \/ task[r] # "socks",
                 ok |-> @.ok + 1, ms |-> @.ms + ms, done |-> @.done + 1]]
    /\ IF tally[r].done + 1 = Rounds
       THEN Ends(r, "returned")
       ELSE UNCHANGED <<task, ended, dirs, procs>>
    /\ UNCHANGED <<phase, chosen, top, results, best>>

-----------------------------------------------------------------------------
(* The next result.  The last one ends the evaluation: sorted, the best of *)
(* them are returned.                                                      *)
Collect ==
    /\ phase = "collect" /\ ended # << >>
    /\ task[Head(ended)] = "returned"
    /\ results' = Append(results, Head(ended))
    /\ ended' = Tail(ended)
    /\ IF Len(results') = Len(chosen)
       THEN phase' = "done" /\ best' = TopOf(results')
       ELSE UNCHANGED <<phase, best>>
    /\ UNCHANGED <<chosen, top, task, tally, dirs, procs>>

\* Mutant: the exception goes up without a finally.
CollectRaisesOnly ==
    /\ phase = "collect" /\ ended # << >>
    /\ task[Head(ended)] = "raised"
    /\ phase' = "failed"
    /\ ended' = << >>
    /\ UNCHANGED <<chosen, top, task, tally, results, best, dirs, procs>>

(* A task that raised: the collection raises, its finally cancels the      *)
(* tasks that are not done, and nobody waits for them.  Tasks that had not *)
(* entered end at once.                                                    *)
CollectRaises ==
    /\ phase = "collect" /\ ended # << >>
    /\ task[Head(ended)] = "raised"
    /\ phase' = "failed"
    /\ task' = [r \in Rows |-> IF task[r] = "waiting" THEN "cancelled" ELSE task[r]]
    /\ ended' = << >>
    /\ UNCHANGED <<chosen, top, tally, results, best, dirs, procs>>

(* A running measurement meets its cancellation at its await: its finally  *)
(* runs, and it has no result.                                             *)
Cancelled(r) ==
    /\ phase = "failed" /\ task[r] \in {"probe", "socks", "tcp"}
    /\ Ends(r, "cancelled")
    /\ UNCHANGED <<phase, chosen, top, tally, results, best>>

(* wait_for drops a cancellation that arrives when the connection has just *)
(* been made (Python 3.11, Dockerfile:3): the measurement of a link goes   *)
(* on to its end.                                                          *)
Swallowed(r) ==
    /\ phase = "failed" /\ task[r] = "tcp"
    /\ task' = [task EXCEPT ![r] = "swallowed"]
    /\ UNCHANGED <<phase, chosen, top, tally, ended, results, best, dirs, procs>>

Gone ==
    /\ phase' = "off" /\ chosen' = << >> /\ top' = 0
    /\ task' = [r \in Rows |-> "none"]
    /\ tally' = [r \in Rows |-> NoTally]
    /\ ended' = << >> /\ results' = << >> /\ best' = << >>
    /\ dirs' = {} /\ procs' = {}

\* The evaluation returned or raised, and the last of its tasks has ended.
Forget == phase \in {"done", "failed"} /\ In(Live) = {} /\ UNCHANGED <<dirs, procs>> /\ Gone

\* The process ends.  What it leaves on disk, and proxies that outlive it, are
\* beyond the next start and beyond the model: nothing removes them.
PerfCrash == phase # "off" /\ Gone

Measure(r) ==
    \/ PortFails(r) \/ StartFails(r) \/ StartProxy(r) \/ StartLink(r)
    \/ PortAnswers(r) \/ PortSilent(r) \/ Round(r) \/ Cancelled(r) \/ Swallowed(r)

-----------------------------------------------------------------------------
(* Wherever a measurement stands it has its directory, and its process     *)
(* once that was started; when it has ended, by whatever path, neither is  *)
(* left, and there are never more of them than the semaphore has places    *)
(* (white_configs_perf_tester.py:158, 365-371).                            *)
NoLeftovers ==
    /\ dirs = In(Running)
    /\ procs = In({"probe", "socks"})
    /\ Cardinality(In(Running)) <= MaxConcurrency

(* While results are collected each row has its task, its place among the  *)
(* results to be collected or its result, and only one of them             *)
(* (white_configs_perf_tester.py:411-415).                                 *)
EachRowOnce ==
    /\ IsInjective(ended) /\ IsInjective(results)
    /\ Range(ended) \cap Range(results) = {}
    /\ phase = "collect" => Range(chosen) \ (Range(ended) \cup Range(results)) = In(Live)
    /\ phase = "done" => Range(results) = Range(chosen)

Rounded ==
    /\ \A r \in Rows : tally[r].ok <= tally[r].done
    /\ \A r \in Rows : task[r] \in Live => tally[r].done < Rounds
    /\ phase = "off" => \A r \in Rows : tally[r].done = 0

Phased ==
    /\ IsInjective(chosen)
    /\ phase = "off" => ended = << >> /\ results = << >> /\ \A r \in Rows : task[r] = "none"
    /\ phase = "collect" => Range(ended) \cup Range(results) \subseteq Range(chosen)
    /\ phase \in {"done", "failed"} => ended = << >> /\ \A r \in Rows : task[r] # "waiting"
    /\ phase = "done" => \A r \in Rows : task[r] \notin Live
    /\ \A r \in Rows : task[r] = "swallowed" => phase = "failed"

(* The inductive invariant: the types, the rounds counted, what the phases *)
(* say about tasks and results, and what stands above (374-445).           *)
PerfInv == PerfTypeOK /\ Rounded /\ Phased /\ NoLeftovers /\ EachRowOnce

(* Once one measurement has raised no other is begun                       *)
(* (white_configs_perf_tester.py:416-420).                                 *)
NothingStartsAfterFailure ==
    [][phase = "failed" => In(Running)' \subseteq In(Running)]_perfVars

(* An evaluation returns or raises, and no task of it is left: each round  *)
(* has a timeout and each place of the semaphore is given back.            *)
EvaluationEnds == phase = "collect" ~> phase = "off"
=============================================================================
