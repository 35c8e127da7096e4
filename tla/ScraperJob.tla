------------------------------ MODULE ScraperJob ------------------------------
(***************************************************************************)
(* scraper_job (main.py:95): scrape every source, validate, save what is   *)
(* new, hand the saved rows to the publish queue.  post_init starts one    *)
(* job at once (main.py:194) and gives another one to the scheduler        *)
(* (main.py:182), so two jobs may run at the same time over the table      *)
(* processed_configs.                                                      *)
(*                                                                         *)
(* Configs stands for the hashes of configs (core/utils.py:266): two texts *)
(* with one hash are one config here.  A row is named by its primary key,  *)
(* its position in `rows`.                                                 *)
(***************************************************************************)
EXTENDS Integers, Sequences, FiniteSets, Functions

CONSTANTS Configs,       \* config hashes that sources may carry
          Jobs,          \* job instances that may run at the same time
          MaxSources,    \* bound: sources one scrape returns
          PublishLimit,  \* SCRAPER_PUBLISH_LIMIT, per source (constants.py:71)
          MaxRows        \* bound: rows of the table

\* What the theorems need; the constants of Pipeline satisfy it.
ScraperJobAssumption ==
    /\ IsFiniteSet(Configs)
    /\ IsFiniteSet(Jobs)
    /\ MaxSources \in Nat
    /\ PublishLimit \in Nat \ {0}
    /\ MaxRows \in Nat

VARIABLES rows,    \* table processed_configs: the hash of each row, by id
          pc,      \* where each job stands
          todo,    \* sources of this scrape the job has not come to yet
          seen,    \* ConfigValidator._seen_hashes of the job's validator
          batch,   \* validated configs of the source being processed
          outbox,  \* [next, last]: saved rows the job has still to enqueue
          handed   \* history: the rows ever put in the publish queue

vars == <<rows, pc, todo, seen, batch, outbox, handed>>

RowIds == 1 .. MaxRows
Stored == 1 .. Len(rows)
StoredHashes == {rows[k] : k \in Stored}
Empty == [next |-> 1, last |-> 0]
Outbox(j) == outbox[j].next .. outbox[j].last

TypeOK ==
    /\ rows \in Seq(Configs) /\ Len(rows) <= MaxRows
    /\ pc \in [Jobs -> {"idle", "scrape", "source", "check", "commit", "enqueue"}]
    /\ todo \in [Jobs -> 0 .. MaxSources]
    /\ seen \in [Jobs -> SUBSET Configs]
    /\ batch \in [Jobs -> SUBSET Configs]
    /\ outbox \in [Jobs -> [next : Nat, last : Nat]]
    /\ handed \in SUBSET RowIds

\* The local state of the job j becomes that of a job that is not running.
Idle(j) ==
    /\ pc' = [pc EXCEPT ![j] = "idle"]
    /\ todo' = [todo EXCEPT ![j] = 0]
    /\ seen' = [seen EXCEPT ![j] = {}]
    /\ batch' = [batch EXCEPT ![j] = {}]
    /\ outbox' = [outbox EXCEPT ![j] = Empty]

JobsIdle ==
    /\ pc = [j \in Jobs |-> "idle"]
    /\ todo = [j \in Jobs |-> 0]
    /\ seen = [j \in Jobs |-> {}]
    /\ batch = [j \in Jobs |-> {}]
    /\ outbox = [j \in Jobs |-> Empty]

Init == rows = << >> /\ handed = {} /\ JobsIdle

\* The process ends, and every job with it.
Vanish ==
    /\ pc' = [j \in Jobs |-> "idle"]
    /\ todo' = [j \in Jobs |-> 0]
    /\ seen' = [j \in Jobs |-> {}]
    /\ batch' = [j \in Jobs |-> {}]
    /\ outbox' = [j \in Jobs |-> Empty]

-----------------------------------------------------------------------------
(* A new job: a new validator, so an empty cache of hashes.                *)
Begin(j) ==
    /\ pc[j] = "idle"
    /\ pc' = [pc EXCEPT ![j] = "scrape"]
    /\ UNCHANGED <<rows, todo, seen, batch, outbox, handed>>

(* scrape_all returned the configs of some sources.                        *)
Scraped(j) ==
    /\ pc[j] = "scrape"
    /\ pc' = [pc EXCEPT ![j] = "source"]
    /\ todo' \in {[todo EXCEPT ![j] = n] : n \in 0 .. MaxSources}
    /\ UNCHANGED <<rows, seen, batch, outbox, handed>>

(* scrape_all raised ("Scraper job failed"), or the last source is done.   *)
Leave(j) ==
    /\ \/ pc[j] = "scrape"
       \/ pc[j] = "source" /\ todo[j] = 0
    /\ Idle(j)
    /\ UNCHANGED <<rows, handed>>

(* The next source: its first PublishLimit configs, of which validate_batch*)
(* keeps valid ones that this job's validator has not met.  Nothing kept   *)
(* (or a source without configs): on to the next source.                   *)
Validate(j) ==
    /\ pc[j] = "source"
    /\ todo[j] > 0
    /\ todo' = [todo EXCEPT ![j] = @ - 1]
    /\ \E valid \in SUBSET (Configs \ seen[j]) :
         /\ Cardinality(valid) <= PublishLimit
         /\ seen' = [seen EXCEPT ![j] = @ \cup valid]
         /\ batch' = [batch EXCEPT ![j] = valid]
         /\ pc' = [pc EXCEPT ![j] = IF valid = {} THEN "source" ELSE "check"]
    /\ UNCHANGED <<rows, outbox, handed>>

\* Mutant: nothing is filtered out before the insert.
CheckNothing(j) ==
    /\ pc[j] = "check"
    /\ pc' = [pc EXCEPT ![j] = "commit"]
    /\ UNCHANGED <<rows, todo, seen, batch, outbox, handed>>

(* batch_save_configs, first half: which hashes are stored already.        *)
CheckExisting(j) ==
    /\ pc[j] = "check"
    /\ batch' = [batch EXCEPT ![j] = @ \ StoredHashes]
    /\ pc' = [pc EXCEPT ![j] = IF batch'[j] = {} THEN "source" ELSE "commit"]
    /\ UNCHANGED <<rows, todo, seen, outbox, handed>>

\* The orders in which the rows of one commit may be numbered: that of the
\* configs in their source.
Orders(S) == {s \in [1 .. Cardinality(S) -> S] : IsInjective(s)}

Insert(S) ==
    /\ Len(rows) + Cardinality(S) <= MaxRows
    /\ \E s \in Orders(S) : rows' = rows \o s

\* Mutant: the caller gets every row of the table back, not the new ones.
CommitReturnsAll(j) ==
    /\ pc[j] = "commit"
    /\ Insert(batch[j])
    /\ outbox' = [outbox EXCEPT ![j] = [next |-> 1, last |-> Len(rows')]]
    /\ batch' = [batch EXCEPT ![j] = {}]
    /\ pc' = [pc EXCEPT ![j] = "enqueue"]
    /\ UNCHANGED <<todo, seen, handed>>

(* batch_save_configs, second half: one commit for all the new rows.  No   *)
(* constraint of the table makes config_hash unique (models.py:94).        *)
Commit(j) ==
    /\ pc[j] = "commit"
    /\ Insert(batch[j])
    /\ outbox' = [outbox EXCEPT ![j] = [next |-> Len(rows) + 1, last |-> Len(rows')]]
    /\ batch' = [batch EXCEPT ![j] = {}]
    /\ pc' = [pc EXCEPT ![j] = "enqueue"]
    /\ UNCHANGED <<todo, seen, handed>>

\* Mutant: the rows are enqueued although the commit failed.
SaveFailsButEnqueues(j) ==
    /\ pc[j] = "commit"
    /\ outbox' = [outbox EXCEPT ![j] = [next |-> Len(rows) + 1,
                                       last |-> Len(rows) + Cardinality(batch[j])]]
    /\ batch' = [batch EXCEPT ![j] = {}]
    /\ pc' = [pc EXCEPT ![j] = "enqueue"]
    /\ UNCHANGED <<rows, todo, seen, handed>>

(* A commit that the job does not see return may have taken effect.        *)
CommitMayLand(j) ==
    \/ pc[j] = "commit" /\ Insert(batch[j])
    \/ UNCHANGED rows

(* The query or the commit raised: the source is given up, and what it     *)
(* held stays in `seen`.  (The connection to a database server may be lost *)
(* after it has committed.)                                                *)
SaveFails(j) ==
    /\ pc[j] \in {"check", "commit"}
    /\ CommitMayLand(j)
    /\ batch' = [batch EXCEPT ![j] = {}]
    /\ pc' = [pc EXCEPT ![j] = "source"]
    /\ UNCHANGED <<todo, seen, outbox, handed>>

(* queue.put of the next saved row; it waits while the queue is full.      *)
Enqueue(j) ==
    /\ pc[j] = "enqueue"
    /\ handed' = handed \cup {outbox[j].next}
    /\ IF outbox[j].next = outbox[j].last
       THEN /\ outbox' = [outbox EXCEPT ![j] = Empty]
            /\ pc' = [pc EXCEPT ![j] = "source"]
       ELSE /\ outbox' = [outbox EXCEPT ![j] = [next |-> @.next + 1, last |-> @.last]]
            /\ UNCHANGED pc
    /\ UNCHANGED <<rows, todo, seen, batch>>

(* CancelledError at the await the job is suspended on.                    *)
Cancel(j) ==
    /\ pc[j] # "idle"
    /\ Idle(j)
    /\ CommitMayLand(j)
    /\ UNCHANGED handed

(* What a job does by itself between Begin and its end, but for the put.   *)
Work(j) == Scraped(j) \/ Leave(j) \/ Validate(j) \/ CheckExisting(j)
             \/ Commit(j) \/ SaveFails(j)

Next == \E j \in Jobs : Begin(j) \/ Work(j) \/ Enqueue(j) \/ Cancel(j)

Spec == Init /\ [][Next]_vars

-----------------------------------------------------------------------------
(* Several rows of one commit, several jobs: no saved row is ever handed   *)
(* to the queue by two of them, or a second time.  A row still to be       *)
(* enqueued is stored, belongs to one job and has not been handed out.     *)
HandedOnce ==
    /\ handed \subseteq Stored
    /\ \A j \in Jobs : Outbox(j) \subseteq Stored \ handed
    /\ \A i, j \in Jobs : i # j => Outbox(i) \cap Outbox(j) = {}

(* The inductive invariant behind it: what a job holds is determined by    *)
(* where it stands, and a commit is only reached with something to save.   *)
JobShape(j) ==
    /\ pc[j] = "commit" => batch[j] # {}
    /\ IF pc[j] = "enqueue" THEN outbox[j].next <= outbox[j].last
                            ELSE outbox[j] = Empty
JobInv == TypeOK /\ HandedOnce /\ \A j \in Jobs : JobShape(j)

(* crud.py:563, "strict idempotency by config_hash"; README: duplicate     *)
(* configs are not saved.                                                  *)
NoDuplicateRows == \A k, l \in Stored : rows[k] = rows[l] => k = l

(* What overlapping jobs can do at most: one row per job for a hash.       *)
Copies(c) == Cardinality({k \in Stored : rows[k] = c})
DuplicateBound == \A c \in Configs : Copies(c) <= Cardinality(Jobs)
=============================================================================
