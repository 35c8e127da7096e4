--------------------------- MODULE ScraperJob_proof ---------------------------
(***************************************************************************)
(* Proofs about ScraperJob: type correctness, that a saved row is handed   *)
(* to the publish queue once, and that a job that overlaps no other one    *)
(* never stores a hash twice.                                              *)
(***************************************************************************)
EXTENDS ScraperJob, FiniteSetTheorems, TLAPS

USE DEF ScraperJobAssumption

(* A set of configs can be numbered by sequences over it of its size.      *)
LEMMA OrdersType ==
    ASSUME ScraperJobAssumption,
           NEW S \in SUBSET Configs, NEW s \in Orders(S)
    PROVE  /\ Cardinality(S) \in Nat
           /\ s \in Seq(S)
           /\ Len(s) = Cardinality(S)
<1>1. Cardinality(S) \in Nat
  BY FS_Subset, FS_CardinalityType DEF ScraperJobAssumption
<1>2. QED
  BY <1>1 DEF Orders

(* A commit appends rows with configs of the batch, and never exceeds the  *)
(* bound.                                                                  *)
LEMMA InsertType ==
    ASSUME ScraperJobAssumption,
           rows \in Seq(Configs), NEW S \in SUBSET Configs, Insert(S)
    PROVE  /\ rows' \in Seq(Configs)
           /\ Len(rows') <= MaxRows
           /\ Len(rows') = Len(rows) + Cardinality(S)
           /\ \A k \in 1 .. Len(rows) : rows'[k] = rows[k]
           /\ \A k \in Len(rows) + 1 .. Len(rows') : rows'[k] \in S
<1>1. PICK s \in Orders(S) : rows' = rows \o s
  BY DEF Insert
<1>2. /\ Cardinality(S) \in Nat
      /\ s \in Seq(S)
      /\ Len(s) = Cardinality(S)
  BY OrdersType
<1>3. s \in Seq(Configs)
  BY <1>2
<1>4. Len(rows') <= MaxRows
  BY <1>1, <1>2 DEF Insert
<1>5. \A k \in Len(rows) + 1 .. Len(rows') : rows'[k] = s[k - Len(rows)]
  BY <1>1, <1>2, <1>3
<1>6. QED
  BY <1>1, <1>2, <1>3, <1>4, <1>5

-----------------------------------------------------------------------------
LEMMA InitInv ==
    ASSUME ScraperJobAssumption
    PROVE  Init => JobInv
BY DEF Init, JobsIdle, JobInv, TypeOK, HandedOnce, JobShape, Outbox, Empty,
       Stored, RowIds

(* The steps that neither insert rows nor hand one over.                   *)
LEMMA QuietSteps ==
    ASSUME ScraperJobAssumption,
           JobInv, NEW j \in Jobs,
           \/ Begin(j) \/ Scraped(j) \/ Leave(j) \/ Validate(j)
           \/ CheckExisting(j)
    PROVE  JobInv'
<1>1. CASE Begin(j)
  BY <1>1 DEF Begin, JobInv, TypeOK, HandedOnce, JobShape, Outbox, Empty, Stored
<1>2. CASE Scraped(j)
  BY <1>2 DEF Scraped, JobInv, TypeOK, HandedOnce, JobShape, Outbox, Empty, Stored
<1>3. CASE Leave(j)
  BY <1>3, SMTT(30) DEF Leave, Idle, JobInv, TypeOK, HandedOnce, JobShape, Outbox, Empty, Stored
<1>4. CASE Validate(j)
  <2>1. TypeOK'
    BY <1>4 DEF Validate, JobInv, TypeOK
  <2>2. \A i \in Jobs : JobShape(i)'
    BY <1>4 DEF Validate, JobInv, TypeOK, JobShape, Empty
  <2>3. HandedOnce'
    BY <1>4 DEF Validate, JobInv, HandedOnce, Outbox, Stored
  <2>4. QED
    BY <2>1, <2>2, <2>3 DEF JobInv
<1>5. CASE CheckExisting(j)
  <2>1. TypeOK'
    BY <1>5 DEF CheckExisting, JobInv, TypeOK
  <2>2. \A i \in Jobs : JobShape(i)'
    BY <1>5 DEF CheckExisting, JobInv, TypeOK, JobShape, Empty
  <2>3. HandedOnce'
    BY <1>5 DEF CheckExisting, JobInv, HandedOnce, Outbox, Stored
  <2>4. QED
    BY <2>1, <2>2, <2>3 DEF JobInv
<1>6. QED
  BY <1>1, <1>2, <1>3, <1>4, <1>5

LEMMA CommitStep ==
    ASSUME ScraperJobAssumption,
           JobInv, NEW j \in Jobs, Commit(j)
    PROVE  JobInv'
<1>1. /\ rows' \in Seq(Configs)
      /\ Len(rows') <= MaxRows
      /\ Len(rows') = Len(rows) + Cardinality(batch[j])
  BY InsertType DEF Commit, JobInv, TypeOK
<1>2. Cardinality(batch[j]) \in Nat \ {0}
  <2>1. IsFiniteSet(batch[j]) /\ batch[j] # {}
    BY FS_Subset DEF Commit, JobInv, TypeOK, JobShape, ScraperJobAssumption
  <2>2. QED
    BY <2>1, FS_CardinalityType, FS_EmptySet
<1>3. TypeOK'
  BY <1>1, <1>2, SMTT(30) DEF Commit, JobInv, TypeOK
<1>4. \A i \in Jobs : JobShape(i)'
  BY <1>1, <1>2, SMTT(30) DEF Commit, JobInv, TypeOK, JobShape, Empty
<1>5. HandedOnce'
  <2>1. Outbox(j)' = Len(rows) + 1 .. Len(rows')
    BY DEF Commit, JobInv, TypeOK, Outbox
  <2>2. \A i \in Jobs : i # j => Outbox(i)' = Outbox(i)
    BY DEF Commit, JobInv, TypeOK, Outbox
  <2>3. Stored' = 1 .. Len(rows) + Cardinality(batch[j]) /\ handed' = handed
    BY <1>1 DEF Commit, Stored
  <2>4. \A i \in Jobs : i # j => Outbox(i)' \subseteq 1 .. Len(rows)
    BY <2>2 DEF JobInv, HandedOnce, Stored
  <2>5. /\ Outbox(j)' \subseteq Stored' \ handed'
        /\ \A i \in Jobs : i # j => Outbox(i)' \cap Outbox(j)' = {}
    BY <1>1, <1>2, <2>1, <2>3, <2>4, SMTT(30) DEF JobInv, TypeOK, HandedOnce, Stored
  <2>6. \A i \in Jobs : i # j => Outbox(i)' \subseteq Stored' \ handed'
    BY <1>2, <2>2, <2>3 DEF JobInv, TypeOK, HandedOnce, Stored
  <2>7. handed' \subseteq Stored'
    BY <1>2, <2>3 DEF JobInv, TypeOK, HandedOnce, Stored
  <2>8. QED
    BY <2>2, <2>5, <2>6, <2>7 DEF JobInv, HandedOnce
<1>6. QED
  BY <1>3, <1>4, <1>5 DEF JobInv

LEMMA EnqueueStep ==
    ASSUME ScraperJobAssumption,
           JobInv, NEW j \in Jobs, Enqueue(j)
    PROVE  JobInv'
<1> DEFINE n == outbox[j].next
<1>1. /\ outbox[j] \in [next : Nat, last : Nat]
      /\ n <= outbox[j].last
      /\ n \in Outbox(j)
  BY DEF Enqueue, JobInv, TypeOK, JobShape, Outbox
<1>2. Outbox(j)' = Outbox(j) \ {n}
  <2>1. CASE n = outbox[j].last
    BY <1>1, <2>1 DEF Enqueue, JobInv, TypeOK, Outbox, Empty
  <2>2. CASE n # outbox[j].last
    <3>1. outbox'[j] = [next |-> n + 1, last |-> outbox[j].last]
      BY <1>1, <2>2 DEF Enqueue, JobInv, TypeOK
    <3>2. QED
      BY <1>1, <3>1 DEF Outbox
  <2>3. QED
    BY <2>1, <2>2
<1>3. \A i \in Jobs : i # j => Outbox(i)' = Outbox(i)
  BY <1>1 DEF Enqueue, JobInv, TypeOK, Outbox
<1>4. HandedOnce'
  BY <1>1, <1>2, <1>3 DEF Enqueue, JobInv, HandedOnce, Stored
<1>5. n \in RowIds
  BY <1>1 DEF JobInv, TypeOK, HandedOnce, Stored, RowIds
<1>6. TypeOK'
  <2>1. \E box \in [next : Nat, last : Nat] : outbox' = [outbox EXCEPT ![j] = box]
    <3>1. Empty \in [next : Nat, last : Nat]
      BY DEF Empty
    <3>2. [next |-> n + 1, last |-> outbox[j].last] \in [next : Nat, last : Nat]
      BY <1>1
    <3>3. QED
      BY <3>1, <3>2 DEF Enqueue
  <2>2. QED
    BY <1>5, <2>1, ZenonT(30) DEF Enqueue, JobInv, TypeOK
<1>7. \A i \in Jobs : JobShape(i)'
  <2>1. CASE n = outbox[j].last
    BY <1>1, <2>1 DEF Enqueue, JobInv, TypeOK, JobShape, Empty
  <2>2. CASE n # outbox[j].last
    <3>1. outbox'[j] = [next |-> n + 1, last |-> outbox[j].last]
      BY <1>1, <2>2 DEF Enqueue, JobInv, TypeOK
    <3>2. QED
      BY <1>1, <2>2, <3>1 DEF Enqueue, JobInv, TypeOK, JobShape
  <2>3. QED
    BY <2>1, <2>2
<1>8. QED
  BY <1>4, <1>6, <1>7 DEF JobInv

(* Whether the commit took effect or not, the table only grows.            *)
LEMMA LandType ==
    ASSUME ScraperJobAssumption,
           JobInv, NEW j \in Jobs, CommitMayLand(j)
    PROVE  /\ rows' \in Seq(Configs) /\ Len(rows') <= MaxRows
           /\ Len(rows) <= Len(rows')
           /\ \A k \in 1 .. Len(rows) : rows'[k] = rows[k]
<1>1. CASE Insert(batch[j])
  <2>1. IsFiniteSet(batch[j])
    BY FS_Subset DEF JobInv, TypeOK, ScraperJobAssumption
  <2>2. Cardinality(batch[j]) \in Nat
    BY <2>1, FS_CardinalityType
  <2>3. QED
    BY <1>1, <2>2, InsertType DEF JobInv, TypeOK
<1>2. CASE UNCHANGED rows
  BY <1>2 DEF JobInv, TypeOK
<1>3. QED
  BY <1>1, <1>2 DEF CommitMayLand

LEMMA SaveFailsStep ==
    ASSUME ScraperJobAssumption,
           JobInv, NEW j \in Jobs, SaveFails(j)
    PROVE  JobInv'
<1>1. /\ rows' \in Seq(Configs) /\ Len(rows') <= MaxRows
      /\ Len(rows) <= Len(rows')
  BY LandType DEF SaveFails
<1>2. Stored \subseteq Stored' /\ handed' = handed /\ outbox' = outbox
  BY <1>1 DEF SaveFails, JobInv, TypeOK, Stored
<1>3. TypeOK'
  BY <1>1 DEF SaveFails, JobInv, TypeOK
<1>4. \A i \in Jobs : JobShape(i)'
  BY DEF SaveFails, JobInv, TypeOK, JobShape, Empty
<1>5. HandedOnce'
  BY <1>2 DEF JobInv, HandedOnce, Outbox
<1>6. QED
  BY <1>3, <1>4, <1>5 DEF JobInv

LEMMA CancelStep ==
    ASSUME ScraperJobAssumption,
           JobInv, NEW j \in Jobs, Cancel(j)
    PROVE  JobInv'
<1>1. /\ rows' \in Seq(Configs) /\ Len(rows') <= MaxRows
      /\ Len(rows) <= Len(rows')
  BY LandType DEF Cancel
<1>2. Stored \subseteq Stored' /\ handed' = handed
  BY <1>1 DEF Cancel, JobInv, TypeOK, Stored
<1>3. TypeOK'
  BY <1>1 DEF Cancel, Idle, JobInv, TypeOK, Empty
<1>4. \A i \in Jobs : JobShape(i)'
  BY DEF Cancel, Idle, JobInv, TypeOK, JobShape, Empty
<1>5. /\ Outbox(j)' = {}
      /\ \A i \in Jobs : i # j => Outbox(i)' = Outbox(i)
  BY DEF Cancel, Idle, JobInv, TypeOK, Outbox, Empty
<1>6. HandedOnce'
  BY <1>2, <1>5 DEF JobInv, HandedOnce
<1>7. QED
  BY <1>3, <1>4, <1>6 DEF JobInv

(* The end of the process, which a commit under way may survive.           *)
LEMMA VanishStep ==
    ASSUME ScraperJobAssumption,
           JobInv, NEW j \in Jobs, Vanish, CommitMayLand(j), UNCHANGED handed
    PROVE  JobInv'
<1>1. /\ rows' \in Seq(Configs) /\ Len(rows') <= MaxRows
      /\ Len(rows) <= Len(rows')
  BY LandType
<1>2. Stored \subseteq Stored'
  BY <1>1 DEF JobInv, TypeOK, Stored
<1>3. TypeOK' /\ \A i \in Jobs : JobShape(i)' /\ Outbox(i)' = {}
  BY <1>1 DEF Vanish, JobInv, TypeOK, JobShape, Outbox, Empty
<1>4. QED
  BY <1>2, <1>3 DEF JobInv, HandedOnce

LEMMA NextInv ==
    ASSUME ScraperJobAssumption
    PROVE  JobInv /\ [Next]_vars => JobInv'
<1> SUFFICES ASSUME JobInv, [Next]_vars
             PROVE  JobInv'
  OBVIOUS
<1>1. ASSUME NEW j \in Jobs, Begin(j) \/ Work(j)
      PROVE  JobInv'
  BY <1>1, QuietSteps, CommitStep, SaveFailsStep DEF Work
<1>2. ASSUME NEW j \in Jobs, Enqueue(j)
      PROVE  JobInv'
  BY <1>2, EnqueueStep
<1>3. ASSUME NEW j \in Jobs, Cancel(j)
      PROVE  JobInv'
  BY <1>3, CancelStep
<1>4. CASE UNCHANGED vars
  BY <1>4 DEF vars, JobInv, TypeOK, HandedOnce, JobShape, Outbox, Stored
<1>5. QED
  BY <1>1, <1>2, <1>3, <1>4 DEF Next

(* Whatever the jobs, their number and their interleaving: a row that is   *)
(* handed to the queue is stored, and no row is handed over twice.         *)
THEOREM JobSafety ==
    ASSUME ScraperJobAssumption
    PROVE  Spec => [](TypeOK /\ HandedOnce)
<1>1. Init => JobInv
  BY InitInv
<1>2. JobInv /\ [Next]_vars => JobInv'
  BY NextInv
<1>3. JobInv => TypeOK /\ HandedOnce
  BY DEF JobInv
<1>4. QED
  BY <1>1, <1>2, <1>3, PTL DEF Spec

-----------------------------------------------------------------------------
(* With one job, what it is about to save is not stored yet.               *)
AloneInv ==
    /\ JobInv
    /\ NoDuplicateRows
    /\ \A j \in Jobs : pc[j] = "commit" => batch[j] \cap StoredHashes = {}

(* An insert of hashes that are not stored adds no duplicate.              *)
LEMMA InsertFresh ==
    ASSUME ScraperJobAssumption,
           rows \in Seq(Configs), NoDuplicateRows,
           NEW S \in SUBSET Configs, Insert(S), S \cap StoredHashes = {}
    PROVE  NoDuplicateRows'
<1>1. PICK s \in Orders(S) : rows' = rows \o s
  BY DEF Insert
<1>2. /\ Cardinality(S) \in Nat
      /\ s \in Seq(S)
      /\ Len(s) = Cardinality(S)
  BY OrdersType
<1>3. \A a, b \in 1 .. Len(s) : s[a] = s[b] => a = b
  BY <1>2 DEF Orders, IsInjective
<1>4. \A k \in 1 .. Len(rows) : rows'[k] = rows[k] /\ rows[k] \in StoredHashes
  BY <1>1, <1>2 DEF StoredHashes, Stored
<1>5. \A k \in Len(rows) + 1 .. Len(rows') :
          /\ rows'[k] = s[k - Len(rows)] /\ k - Len(rows) \in 1 .. Len(s)
          /\ rows'[k] \in S
  BY <1>1, <1>2
<1>6. SUFFICES ASSUME NEW k \in 1 .. Len(rows'), NEW l \in 1 .. Len(rows'),
                      rows'[k] = rows'[l]
               PROVE  k = l
  BY DEF NoDuplicateRows, Stored
<1>7. Len(rows) \in Nat /\ Len(rows') \in Nat /\ Len(rows) <= Len(rows')
  BY <1>1, <1>2
<1>8. CASE k <= Len(rows) /\ l <= Len(rows)
  BY <1>4, <1>6, <1>7, <1>8 DEF NoDuplicateRows, Stored
<1>9. CASE k > Len(rows) /\ l > Len(rows)
  <2>1. k - Len(rows) = l - Len(rows)
    BY <1>3, <1>5, <1>6, <1>7, <1>9
  <2>2. QED
    BY <2>1, <1>7
<1>10. CASE k <= Len(rows) /\ l > Len(rows)
  BY <1>4, <1>5, <1>6, <1>7, <1>10
<1>11. CASE k > Len(rows) /\ l <= Len(rows)
  BY <1>4, <1>5, <1>6, <1>7, <1>11
<1>12. QED
  BY <1>7, <1>8, <1>9, <1>10, <1>11

LEMMA AloneStep ==
    ASSUME ScraperJobAssumption,
           \A i, j \in Jobs : i = j, AloneInv, [Next]_vars
    PROVE  AloneInv'
<1>1. JobInv'
  BY NextInv DEF AloneInv
<1>2. TypeOK
  BY DEF AloneInv, JobInv
<1> DEFINE Fresh == \A j \in Jobs : pc[j] = "commit" => batch[j] \cap StoredHashes = {}
<1>3. ASSUME UNCHANGED rows
      PROVE  NoDuplicateRows' /\ StoredHashes' = StoredHashes
  BY <1>3 DEF AloneInv, NoDuplicateRows, StoredHashes, Stored
<1>4. ASSUME NEW j \in Jobs,
             Begin(j) \/ Scraped(j) \/ Leave(j) \/ Validate(j) \/ Enqueue(j)
      PROVE  NoDuplicateRows' /\ Fresh'
  <2>1. UNCHANGED rows /\ pc'[j] # "commit"
    BY <1>2, <1>4 DEF Begin, Scraped, Leave, Idle, Validate, Enqueue, TypeOK
  <2>2. QED
    BY <1>3, <2>1
<1>5. ASSUME NEW j \in Jobs, CheckExisting(j)
      PROVE  NoDuplicateRows' /\ Fresh'
  <2>1. UNCHANGED rows /\ batch'[j] = batch[j] \ StoredHashes
    BY <1>2, <1>5 DEF CheckExisting, TypeOK
  <2>2. QED
    BY <1>3, <2>1
<1>6. ASSUME NEW j \in Jobs, Commit(j) \/ SaveFails(j) \/ Cancel(j)
      PROVE  NoDuplicateRows' /\ Fresh'
  <2>1. pc'[j] # "commit"
    BY <1>2, <1>6 DEF Commit, SaveFails, Cancel, Idle, TypeOK
  <2>2. CASE UNCHANGED rows
    BY <1>3, <2>1, <2>2
  <2>3. CASE pc[j] = "commit" /\ Insert(batch[j])
    <3>1. batch[j] \in SUBSET Configs /\ rows \in Seq(Configs)
      BY <1>2 DEF TypeOK
    <3>2. batch[j] \cap StoredHashes = {} /\ NoDuplicateRows
      BY <2>3 DEF AloneInv
    <3>3. NoDuplicateRows'
      BY <2>3, <3>1, <3>2, InsertFresh
    <3>4. QED
      BY <2>1, <3>3
  <2>4. QED
    BY <1>6, <2>2, <2>3 DEF Commit, SaveFails, Cancel, CommitMayLand
<1>7. ASSUME UNCHANGED vars
      PROVE  NoDuplicateRows' /\ Fresh'
  BY <1>3, <1>7 DEF vars, AloneInv
<1>8. NoDuplicateRows' /\ Fresh'
  <2>1. CASE Next
    BY <2>1, <1>4, <1>5, <1>6 DEF Next, Work
  <2>2. QED
    BY <2>1, <1>7 DEF AloneInv
<1>9. QED
  BY <1>1, <1>8 DEF AloneInv

(* A job that never overlaps another one stores every hash once: what      *)
(* crud.py:563 claims holds for it, for any number of sources and configs. *)
THEOREM AloneStoresOnce ==
    ASSUME ScraperJobAssumption,
           \A i, j \in Jobs : i = j
    PROVE  Spec => []NoDuplicateRows
<1>1. Init => AloneInv
  BY InitInv DEF Init, JobsIdle, AloneInv, NoDuplicateRows, Stored
<1>2. AloneInv /\ [Next]_vars => AloneInv'
  BY AloneStep
<1>3. AloneInv => NoDuplicateRows
  BY DEF AloneInv
<1>4. QED
  BY <1>1, <1>2, <1>3, PTL DEF Spec

-----------------------------------------------------------------------------
RowsOf(c) == {k \in Stored : rows[k] = c}
Savers(c) == {j \in Jobs : pc[j] = "commit" /\ c \in batch[j]}

(* A job only goes on to save a hash that it did not find stored, so the   *)
(* rows of a hash and the jobs about to save it are together no more than  *)
(* the jobs.                                                               *)
CopiesInv ==
    /\ JobInv
    /\ \A c \in Configs :
           Cardinality(RowsOf(c)) + Cardinality(Savers(c)) <= Cardinality(Jobs)

LEMMA CountsFinite ==
    ASSUME ScraperJobAssumption,
           TypeOK, NEW c \in Configs
    PROVE  /\ IsFiniteSet(RowsOf(c)) /\ Cardinality(RowsOf(c)) \in Nat
           /\ IsFiniteSet(Savers(c)) /\ Cardinality(Savers(c)) \in Nat
           /\ IsFiniteSet(Jobs) /\ Cardinality(Jobs) \in Nat
<1>1. IsFiniteSet(Stored)
  BY FS_Interval DEF TypeOK, Stored
<1>2. IsFiniteSet(RowsOf(c)) /\ IsFiniteSet(Savers(c)) /\ IsFiniteSet(Jobs)
  BY <1>1, FS_Subset DEF RowsOf, Savers, ScraperJobAssumption
<1>3. QED
  BY <1>2, FS_CardinalityType

(* An insert gives a hash one more row at most, and none if it is not in   *)
(* the batch.                                                              *)
LEMMA InsertCopies ==
    ASSUME ScraperJobAssumption,
           TypeOK, NEW S \in SUBSET Configs, Insert(S), NEW c \in Configs
    PROVE  /\ c \notin S => RowsOf(c)' = RowsOf(c)
           /\ c \in S => Cardinality(RowsOf(c)') <= Cardinality(RowsOf(c)) + 1
<1>1. PICK s \in Orders(S) : rows' = rows \o s
  BY DEF Insert
<1>2. /\ s \in Seq(S) /\ rows \in Seq(Configs)
      /\ \A a, b \in 1 .. Len(s) : s[a] = s[b] => a = b
  BY <1>1, OrdersType DEF Orders, IsInjective, TypeOK
<1>3. /\ Len(rows') = Len(rows) + Len(s) /\ Len(rows) \in Nat /\ Len(s) \in Nat
      /\ \A k \in 1 .. Len(rows) : rows'[k] = rows[k]
      /\ \A k \in Len(rows) + 1 .. Len(rows') :
             /\ rows'[k] = s[k - Len(rows)]
             /\ k - Len(rows) \in 1 .. Len(s) /\ s[k - Len(rows)] \in S
  BY <1>1, <1>2
<1>4. ASSUME c \notin S
      PROVE  RowsOf(c)' = RowsOf(c)
  BY <1>3, <1>4 DEF RowsOf, Stored
<1>5. ASSUME c \in S
      PROVE  Cardinality(RowsOf(c)') <= Cardinality(RowsOf(c)) + 1
  <2>1. CASE \E a \in 1 .. Len(s) : s[a] = c
    <3>1. PICK a \in 1 .. Len(s) : s[a] = c
      BY <2>1
    <3>2. RowsOf(c)' \subseteq RowsOf(c) \cup {Len(rows) + a}
      <4>1. ASSUME NEW k \in 1 .. Len(rows'), rows'[k] = c, k > Len(rows)
            PROVE  k = Len(rows) + a
        <5>1. k - Len(rows) \in 1 .. Len(s) /\ s[k - Len(rows)] = s[a]
          <6>1. k \in Len(rows) + 1 .. Len(rows')
            BY <1>3, <4>1
          <6>2. QED
            BY <1>3, <3>1, <4>1, <6>1
        <5>2. k - Len(rows) = a
          BY <1>2, <5>1
        <5>3. QED
          BY <1>3, <5>2
      <4>2. QED
        BY <1>3, <4>1 DEF RowsOf, Stored
    <3>3. /\ IsFiniteSet(RowsOf(c) \cup {Len(rows) + a})
          /\ Cardinality(RowsOf(c) \cup {Len(rows) + a}) <= Cardinality(RowsOf(c)) + 1
      <4>1. IsFiniteSet(RowsOf(c)) /\ Cardinality(RowsOf(c)) \in Nat
        BY CountsFinite
      <4>2. /\ IsFiniteSet(RowsOf(c) \cup {Len(rows) + a})
            /\ \/ Cardinality(RowsOf(c) \cup {Len(rows) + a}) = Cardinality(RowsOf(c))
               \/ Cardinality(RowsOf(c) \cup {Len(rows) + a}) = Cardinality(RowsOf(c)) + 1
        BY <4>1, FS_AddElement, Zenon
      <4>3. QED
        BY <4>1, <4>2
    <3>4. QED
      BY <3>2, <3>3, FS_Subset, FS_CardinalityType, CountsFinite
  <2>2. CASE \A a \in 1 .. Len(s) : s[a] # c
    <3>1. RowsOf(c)' = RowsOf(c)
      BY <1>3, <2>2 DEF RowsOf, Stored
    <3>2. QED
      BY <3>1, CountsFinite
  <2>3. QED
    BY <2>1, <2>2
<1>6. QED
  BY <1>4, <1>5

(* A job that leaves its commit, having saved the batch or not.            *)
LEMMA CopiesLand ==
    ASSUME ScraperJobAssumption,
           CopiesInv, NEW j \in Jobs, CommitMayLand(j), NEW c \in Configs,
           Savers(c)' \subseteq Savers(c) \ {j}
    PROVE  Cardinality(RowsOf(c)') + Cardinality(Savers(c)') <= Cardinality(Jobs)
<1>1. TypeOK
  BY DEF CopiesInv, JobInv
<1>2. /\ Cardinality(RowsOf(c)) + Cardinality(Savers(c)) <= Cardinality(Jobs)
      /\ Cardinality(RowsOf(c)) \in Nat
      /\ IsFiniteSet(Savers(c)) /\ Cardinality(Savers(c)) \in Nat
      /\ Cardinality(Jobs) \in Nat
  BY <1>1, CountsFinite DEF CopiesInv
<1>3. /\ Cardinality(Savers(c)') \in Nat
      /\ Cardinality(Savers(c)') <= Cardinality(Savers(c))
  BY <1>2, FS_Subset, FS_CardinalityType
<1>4. CASE UNCHANGED rows
  <2>1. RowsOf(c)' = RowsOf(c)
    BY <1>4 DEF RowsOf, Stored
  <2>2. QED
    BY <1>2, <1>3, <2>1
<1>5. CASE pc[j] = "commit" /\ Insert(batch[j])
  <2>1. batch[j] \in SUBSET Configs
    BY <1>1 DEF TypeOK
  <2>2. CASE c \notin batch[j]
    BY <1>1, <1>2, <1>3, <1>5, <2>1, <2>2, InsertCopies
  <2>3. CASE c \in batch[j]
    <3>1. j \in Savers(c)
      BY <1>5, <2>3 DEF Savers
    <3>2. /\ IsFiniteSet(Savers(c) \ {j})
          /\ Cardinality(Savers(c) \ {j}) = Cardinality(Savers(c)) - 1
      BY <1>2, <3>1, FS_RemoveElement
    <3>3. Cardinality(Savers(c)') <= Cardinality(Savers(c)) - 1
      BY <3>2, FS_Subset
    <3>4. Cardinality(RowsOf(c)') <= Cardinality(RowsOf(c)) + 1
      BY <1>1, <1>5, <2>1, <2>3, InsertCopies
    <3>5. Cardinality(RowsOf(c)') \in Nat
      <4>1. rows' \in Seq(Configs)
        BY <1>1, <1>5, <2>1, InsertType DEF TypeOK
      <4>2. IsFiniteSet(1 .. Len(rows'))
        BY <4>1, FS_Interval
      <4>3. QED
        BY <4>2, FS_Subset, FS_CardinalityType DEF RowsOf, Stored
    <3>6. QED
      BY <1>2, <1>3, <3>3, <3>4, <3>5
  <2>4. QED
    BY <2>2, <2>3
<1>6. QED
  BY <1>4, <1>5 DEF CommitMayLand

LEMMA VanishCopies ==
    ASSUME ScraperJobAssumption,
           CopiesInv, NEW j \in Jobs, Vanish, CommitMayLand(j), UNCHANGED handed
    PROVE  CopiesInv'
<1>1. JobInv'
  BY VanishStep DEF CopiesInv
<1>2. ASSUME NEW c \in Configs
      PROVE  Cardinality(RowsOf(c)') + Cardinality(Savers(c)') <= Cardinality(Jobs)
  <2>1. Savers(c)' \subseteq Savers(c) \ {j}
    BY DEF Vanish, Savers
  <2>2. QED
    BY <2>1, CopiesLand
<1>3. QED
  BY <1>1, <1>2 DEF CopiesInv, RowsOf, Savers

LEMMA CopiesStep ==
    ASSUME ScraperJobAssumption
    PROVE  CopiesInv /\ [Next]_vars => CopiesInv'
<1> SUFFICES ASSUME CopiesInv, [Next]_vars, NEW c \in Configs
             PROVE  Cardinality(RowsOf(c)') + Cardinality(Savers(c)') <= Cardinality(Jobs)
  BY NextInv DEF CopiesInv, RowsOf, Savers
<1>1. TypeOK
  BY DEF CopiesInv, JobInv
<1>2. /\ Cardinality(RowsOf(c)) + Cardinality(Savers(c)) <= Cardinality(Jobs)
      /\ Cardinality(RowsOf(c)) \in Nat
      /\ IsFiniteSet(Savers(c)) /\ Cardinality(Savers(c)) \in Nat
      /\ IsFiniteSet(Jobs) /\ Cardinality(Jobs) \in Nat
  BY <1>1, CountsFinite DEF CopiesInv
<1>3. ASSUME UNCHANGED rows, Savers(c)' \subseteq Savers(c)
      PROVE  Cardinality(RowsOf(c)') + Cardinality(Savers(c)') <= Cardinality(Jobs)
  <2>1. RowsOf(c)' = RowsOf(c)
    BY <1>3 DEF RowsOf, Stored
  <2>2. /\ Cardinality(Savers(c)') \in Nat
        /\ Cardinality(Savers(c)') <= Cardinality(Savers(c))
    BY <1>2, <1>3, FS_Subset, FS_CardinalityType
  <2>3. QED
    BY <1>2, <2>1, <2>2
<1>4. ASSUME NEW j \in Jobs,
             Begin(j) \/ Scraped(j) \/ Leave(j) \/ Validate(j) \/ Enqueue(j)
      PROVE  UNCHANGED rows /\ Savers(c)' \subseteq Savers(c)
  BY <1>1, <1>4 DEF Begin, Scraped, Leave, Idle, Validate, Enqueue, TypeOK, Savers
<1>5. ASSUME NEW j \in Jobs, CheckExisting(j)
      PROVE  Cardinality(RowsOf(c)') + Cardinality(Savers(c)') <= Cardinality(Jobs)
  <2>1. UNCHANGED rows /\ RowsOf(c)' = RowsOf(c)
    BY <1>5 DEF CheckExisting, RowsOf, Stored
  <2>2. CASE c \in StoredHashes
    <3>1. Savers(c)' \subseteq Savers(c)
      BY <1>1, <1>5, <2>2 DEF CheckExisting, TypeOK, Savers
    <3>2. QED
      BY <1>3, <2>1, <3>1
  <2>3. CASE c \notin StoredHashes
    <3>1. RowsOf(c) = {}
      BY <2>3 DEF RowsOf, StoredHashes
    <3>2. Cardinality(RowsOf(c)') = 0
      BY <2>1, <3>1, FS_EmptySet
    <3>3. Savers(c)' \subseteq Jobs
      BY DEF Savers
    <3>4. /\ Cardinality(Savers(c)') \in Nat
          /\ Cardinality(Savers(c)') <= Cardinality(Jobs)
      BY <1>2, <3>3, FS_Subset, FS_CardinalityType
    <3>5. QED
      BY <1>2, <3>2, <3>4
  <2>4. QED
    BY <2>2, <2>3
<1>6. ASSUME NEW j \in Jobs, Commit(j) \/ SaveFails(j) \/ Cancel(j)
      PROVE  Cardinality(RowsOf(c)') + Cardinality(Savers(c)') <= Cardinality(Jobs)
  <2>1. CommitMayLand(j)
    BY <1>6 DEF Commit, SaveFails, Cancel, CommitMayLand
  <2>2. Savers(c)' \subseteq Savers(c) \ {j}
    BY <1>1, <1>6 DEF Commit, SaveFails, Cancel, Idle, TypeOK, Savers
  <2>3. QED
    BY <2>1, <2>2, CopiesLand
<1>7. CASE UNCHANGED vars
  BY <1>3, <1>7 DEF vars, Savers
<1>8. CASE Next
  BY <1>3, <1>4, <1>5, <1>6, <1>8 DEF Next, Work
<1>9. QED
  BY <1>7, <1>8

LEMMA InitCopies ==
    ASSUME ScraperJobAssumption
    PROVE  Init => CopiesInv
<1> SUFFICES ASSUME Init
             PROVE  CopiesInv
  OBVIOUS
<1>1. JobInv
  BY InitInv
<1>2. ASSUME NEW c \in Configs
      PROVE  RowsOf(c) = {} /\ Savers(c) = {}
  BY DEF Init, JobsIdle, RowsOf, Savers, Stored
<1>3. Cardinality(Jobs) \in Nat /\ Cardinality({}) = 0
  BY FS_CardinalityType, FS_EmptySet DEF ScraperJobAssumption
<1>4. QED
  BY <1>1, <1>2, <1>3 DEF CopiesInv

LEMMA CopiesBounded ==
    ASSUME ScraperJobAssumption
    PROVE  CopiesInv => DuplicateBound
<1> SUFFICES ASSUME CopiesInv, NEW c \in Configs
             PROVE  Copies(c) <= Cardinality(Jobs)
  BY DEF DuplicateBound
<1>1. /\ Cardinality(RowsOf(c)) + Cardinality(Savers(c)) <= Cardinality(Jobs)
      /\ Cardinality(RowsOf(c)) \in Nat /\ Cardinality(Savers(c)) \in Nat
      /\ Cardinality(Jobs) \in Nat
  BY CountsFinite DEF CopiesInv, JobInv
<1>2. QED
  BY <1>1 DEF Copies, RowsOf

(* Overlapping jobs store a hash at most once each, whatever fails.        *)
THEOREM OverlapBound ==
    ASSUME ScraperJobAssumption
    PROVE  Spec => []DuplicateBound
<1>1. Init => CopiesInv
  BY InitCopies
<1>2. CopiesInv /\ [Next]_vars => CopiesInv'
  BY CopiesStep
<1>3. CopiesInv => DuplicateBound
  BY CopiesBounded
<1>4. QED
  BY <1>1, <1>2, <1>3, PTL DEF Spec

-----------------------------------------------------------------------------
(* What a step does to the table and to what is still to be enqueued: cited*)
(* by the proofs about the whole pipeline.                                 *)
TableGrows ==
    /\ rows' \in Seq(Configs)
    /\ Len(rows) <= Len(rows')
    /\ \A k \in 1 .. Len(rows) : rows'[k] = rows[k]

OnlyNewToSend == \A i \in Jobs : Outbox(i)' \subseteq Outbox(i) \cup (Stored' \ Stored)

LEMMA TableKept ==
    ASSUME ScraperJobAssumption
    PROVE  JobInv /\ UNCHANGED rows => TableGrows
BY DEF TableGrows, JobInv, TypeOK

LEMMA NothingToSend ==
    ASSUME ScraperJobAssumption,
           TypeOK, NEW j \in Jobs,
           \/ UNCHANGED outbox
           \/ outbox' = [outbox EXCEPT ![j] = Empty]
    PROVE  OnlyNewToSend
<1>1. ASSUME NEW i \in Jobs
      PROVE  Outbox(i)' = Outbox(i) \/ Outbox(i)' = {}
  <2>1. outbox'[i] = outbox[i] \/ outbox'[i] = Empty
    BY DEF TypeOK
  <2>2. CASE outbox'[i] = Empty
    BY <2>2 DEF Outbox, Empty
  <2>3. QED
    BY <2>1, <2>2 DEF Outbox
<1>2. QED
  BY <1>1 DEF OnlyNewToSend

LEMMA VanishGrows ==
    ASSUME ScraperJobAssumption,
           JobInv, NEW j \in Jobs, Vanish, CommitMayLand(j)
    PROVE  TableGrows /\ OnlyNewToSend
<1>1. TableGrows
  BY LandType DEF TableGrows
<1>2. OnlyNewToSend
  BY DEF Vanish, OnlyNewToSend, Outbox, Empty
<1>3. QED
  BY <1>1, <1>2

(* Only what waits in an outbox is handed over.                            *)
HandedFromOutbox == \A i \in handed' \ handed : \E j \in Jobs : i \in Outbox(j)

LEMMA JobGrows ==
    ASSUME ScraperJobAssumption,
           JobInv, NEW j \in Jobs, Begin(j) \/ Work(j) \/ Enqueue(j) \/ Cancel(j)
    PROVE  TableGrows /\ OnlyNewToSend /\ HandedFromOutbox
<1>0. HandedFromOutbox
  <2>1. CASE Enqueue(j)
    BY <2>1 DEF Enqueue, JobInv, TypeOK, JobShape, Outbox, HandedFromOutbox
  <2>2. CASE UNCHANGED handed
    BY <2>2 DEF HandedFromOutbox
  <2>3. QED
    BY <2>1, <2>2 DEF Begin, Work, Scraped, Leave, Validate, CheckExisting,
                      Commit, SaveFails, Cancel
<1>1. CASE Commit(j)
  <2>1. TableGrows /\ rows' \in Seq(Configs)
    BY <1>1, LandType DEF Commit, CommitMayLand, TableGrows
  <2>2. Outbox(j)' = Len(rows) + 1 .. Len(rows')
    BY <1>1 DEF Commit, JobInv, TypeOK, Outbox
  <2>3. \A i \in Jobs : i # j => Outbox(i)' = Outbox(i)
    BY <1>1 DEF Commit, JobInv, TypeOK, Outbox
  <2>4. Len(rows) + 1 .. Len(rows') \subseteq Stored' \ Stored
    BY <2>1 DEF TableGrows, Stored, JobInv, TypeOK
  <2>5. OnlyNewToSend
    BY <2>2, <2>3, <2>4 DEF OnlyNewToSend
  <2>6. QED
    BY <1>0, <2>1, <2>5
<1>2. CASE SaveFails(j) \/ Cancel(j)
  <2>1. TableGrows
    BY <1>2, LandType DEF SaveFails, Cancel, TableGrows
  <2>2. OnlyNewToSend
    BY <1>2, NothingToSend DEF SaveFails, Cancel, Idle, JobInv
  <2>3. QED
    BY <1>0, <2>1, <2>2
<1>3. CASE Begin(j) \/ Scraped(j) \/ Leave(j) \/ Validate(j) \/ CheckExisting(j)
  <2>1. UNCHANGED rows
    BY <1>3 DEF Begin, Scraped, Leave, Validate, CheckExisting
  <2>2. OnlyNewToSend
    BY <1>3, NothingToSend DEF Begin, Scraped, Leave, Idle, Validate,
                               CheckExisting, JobInv
  <2>3. QED
    BY <1>0, <2>1, <2>2, TableKept
<1>4. CASE Enqueue(j)
  <2>1. UNCHANGED rows
    BY <1>4 DEF Enqueue
  <2>2. \A i \in Jobs : i # j => Outbox(i)' = Outbox(i)
    BY <1>4 DEF Enqueue, JobInv, TypeOK, Outbox
  <2>3. outbox[j] \in [next : Nat, last : Nat]
    BY DEF JobInv, TypeOK
  <2>4. \/ outbox'[j] = Empty
        \/ outbox'[j] = [next |-> outbox[j].next + 1, last |-> outbox[j].last]
    BY <1>4, <2>3 DEF Enqueue, JobInv, TypeOK
  <2>5. Outbox(j)' \subseteq Outbox(j)
    BY <2>3, <2>4 DEF Outbox, Empty
  <2>6. QED
    BY <1>0, <2>1, <2>2, <2>5, TableKept DEF OnlyNewToSend
<1>5. QED
  BY <1>0, <1>1, <1>2, <1>3, <1>4 DEF Work
=============================================================================
