----------------------------- MODULE Exports_proof -----------------------------
(***************************************************************************)
(* Theorems about the performance tester as Exports uses it, for any rows, *)
(* rounds and places of the semaphore, and about the two files, for any    *)
(* texts, IPs and numbers asked for.  A step of a measurement ends it,     *)
(* begins it, or leaves it running; and it only counts rounds.             *)
(***************************************************************************)
EXTENDS Exports, FiniteSetTheorems, TLAPS

-----------------------------------------------------------------------------
(* What a selection keeps.                                                 *)

\* A set of places that has with each of them all before it is an interval.
LEMMA DownwardClosed ==
    ASSUME NEW n \in Nat, NEW D \in SUBSET (1 .. n),
           \A k \in D : \A j \in 1 .. k : j \in D
    PROVE  /\ IsFiniteSet(D) /\ Cardinality(D) \in 0 .. n
           /\ D = 1 .. Cardinality(D)
<1>1. /\ IsFiniteSet(1 .. n) /\ Cardinality(1 .. n) = n
      /\ IsFiniteSet(D) /\ Cardinality(D) \in Nat /\ Cardinality(D) <= n
  <2>1. IsFiniteSet(1 .. n) /\ Cardinality(1 .. n) = n
    BY FS_Interval
  <2>2. IsFiniteSet(D) /\ Cardinality(D) <= Cardinality(1 .. n)
    BY <2>1, FS_Subset
  <2> QED BY <2>1, <2>2, FS_CardinalityType
<1> DEFINE c == Cardinality(D)
<1>2. c \in Nat /\ c <= n
  BY <1>1
<1>3. ASSUME NEW k \in D PROVE k \in 1 .. c
  <2>1. 1 .. k \in SUBSET D /\ k \in 1 .. n
    OBVIOUS
  <2>2. Cardinality(1 .. k) <= Cardinality(D)
    BY <1>1, <2>1, FS_Subset
  <2>3. Cardinality(1 .. k) = k
    BY <2>1, FS_Interval
  <2> QED BY <1>2, <2>1, <2>2, <2>3
<1> HIDE DEF c
<1>4. IsFiniteSet(1 .. c) /\ Cardinality(1 .. c) = c
  BY <1>2, FS_Interval
<1>5. D \in SUBSET (1 .. c)
  BY <1>3
<1>6. Cardinality(1 .. c) = Cardinality(D)
  BY <1>4 DEF c
<1>7. D = 1 .. c
  BY <1>4, <1>5, <1>6, FS_Subset
<1> QED BY <1>1, <1>2, <1>7 DEF c

\* What is kept of a sequence when the places to keep are an interval.
Slice(C, s, a, b, t) ==
    /\ t \in Seq(C) /\ Len(t) = b - a + 1
    /\ \A i \in 1 .. b - a + 1 : t[i] = s[a + i - 1]

LEMMA SelectInterval ==
    ASSUME NEW C, NEW s \in Seq(C), NEW a \in Nat \ {0}, NEW b \in Nat,
           b <= Len(s), a <= b + 1
    PROVE  Slice(C, s, a, b, Select(s, a .. b))
<1> DEFINE n == b - a + 1
<1>0. n \in Nat /\ a \in Int /\ b \in Int
  OBVIOUS
<1>1. Cardinality(a .. b) = n
  <2>1. Cardinality(a .. b) = IF a > b THEN 0 ELSE b - a + 1
    BY <1>0, FS_Interval
  <2> QED BY <2>1
<1>2. ASSUME NEW i \in 1 .. n PROVE Nth(a .. b, i) = a + i - 1
  <2>1. ASSUME NEW k \in a .. b PROVE Cardinality({j \in a .. b : j <= k}) = k - a + 1
    <3>1. {j \in a .. b : j <= k} = a .. k /\ k \in Int /\ a <= k
      OBVIOUS
    <3>2. Cardinality(a .. k) = k - a + 1
      BY <3>1, FS_Interval
    <3> QED BY <3>1, <3>2
  <2>2. a + i - 1 \in a .. b
    OBVIOUS
  <2>3. \A k \in a .. b : Cardinality({j \in a .. b : j <= k}) = i <=> k = a + i - 1
    BY <2>1, <2>2
  <2> QED BY <2>2, <2>3 DEF Nth
<1> DEFINE t == Select(s, a .. b)
<1>3. DOMAIN t = 1 .. n /\ \A i \in 1 .. n : t[i] = s[Nth(a .. b, i)]
  BY <1>1 DEF Select
<1>4. \A i \in 1 .. n : a + i - 1 \in 1 .. Len(s)
  OBVIOUS
<1>5. t = [i \in 1 .. n |-> t[i]]
  BY <1>1 DEF Select
<1> HIDE DEF n, t
<1>6. \A i \in 1 .. n : t[i] = s[a + i - 1] /\ t[i] \in C
  BY <1>2, <1>3, <1>4
<1>7. t \in [1 .. n -> C]
  BY <1>5, <1>6
<1>8. t \in Seq(C) /\ Len(t) = n
  BY <1>0, <1>7
<1> QED BY <1>6, <1>8 DEF n, t, Slice

-----------------------------------------------------------------------------
(* The sorted results.                                                     *)

\* A score is a natural number, and more than nothing for who is alive.
Tallies == [Rows -> [alive : BOOLEAN, ok : 0 .. Rounds, ms : Nat, done : 0 .. Rounds]]

LEMMA ScoreType ==
    ASSUME tally \in Tallies, NEW r \in Rows
    PROVE  /\ Score(tally[r]) \in Nat
           /\ tally[r].alive \in BOOLEAN
           /\ tally[r].alive <=> Score(tally[r]) > 0
<1> DEFINE t == tally[r]
<1>1. t.alive \in BOOLEAN /\ t.ok \in Nat /\ t.ms \in Nat
  BY DEF Tallies
<1> HIDE DEF t
<1>2. TtfbScore(t.ok, t.ms) \in 10 .. 100
  BY <1>1 DEF TtfbScore
<1>3. StabilityScore(t.ok) \in 0 .. 100
  BY <1>1 DEF StabilityScore
<1>4. Score(t) \in Nat /\ (t.alive <=> Score(t) > 0)
  <2>1. CASE ~t.alive
    <3>1. Score(t) = 0
      BY <2>1 DEF Score
    <3> QED BY <2>1, <3>1
  <2>2. CASE t.alive
    <3>1. Score(t) = 7 * TtfbScore(t.ok, t.ms) + 3 * StabilityScore(t.ok)
      BY <2>2 DEF Score
    <3>2. \A x \in 10 .. 100, y \in 0 .. 100 : 7 * x + 3 * y \in Nat /\ 7 * x + 3 * y > 0
      OBVIOUS
    <3>3. Score(t) \in Nat /\ Score(t) > 0
      BY <1>2, <1>3, <3>1, <3>2
    <3> QED BY <2>2, <3>3
  <2> QED BY <1>1, <2>1, <2>2
<1> QED BY <1>1, <1>4 DEF t

\* list.sort() gives every result a place of its own: those ahead of one have
\* the smaller places.
LEMMA PlaceFact ==
    ASSUME tally \in Tallies, NEW s \in Seq(Rows)
    PROVE  /\ \A k \in 1 .. Len(s) : Place(s, k) \in 1 .. Len(s)
           /\ \A i, k \in 1 .. Len(s) : Ahead(s, i, k) <=> Place(s, i) < Place(s, k)
           /\ \A i, k \in 1 .. Len(s) : Place(s, i) = Place(s, k) => i = k
           /\ \A p \in 1 .. Len(s) : \E k \in 1 .. Len(s) : Place(s, k) = p
<1> DEFINE n == Len(s)
           D == 1 .. n
           A(k) == {i \in D : Ahead(s, i, k)}
<1>0. n \in Nat /\ IsFiniteSet(D) /\ Cardinality(D) = n
  <2>1. n \in Nat
    OBVIOUS
  <2> HIDE DEF n
  <2> QED BY <2>1, FS_Interval
<1>1. \A k \in D : Score(tally[s[k]]) \in Nat
  BY ScoreType
<1>2. /\ \A i \in D : ~Ahead(s, i, i)
      /\ \A i, k \in D : i # k => Ahead(s, i, k) \/ Ahead(s, k, i)
      /\ \A h, i, k \in D : Ahead(s, h, i) /\ Ahead(s, i, k) => Ahead(s, h, k)
  BY <1>1, SMTT(30) DEF Ahead
<1>3. \A k \in D : Place(s, k) = 1 + Cardinality(A(k))
  BY DEF Place
<1> HIDE DEF n
<1>4. ASSUME NEW k \in D PROVE IsFiniteSet(A(k)) /\ Cardinality(A(k)) \in 0 .. n - 1
  <2> DEFINE B == D \ {k}
  <2>1. A(k) \in SUBSET B
    BY <1>2
  <2>2. IsFiniteSet(B) /\ Cardinality(B) = n - 1
    BY <1>0, FS_RemoveElement
  <2> HIDE DEF A, B
  <2>3. IsFiniteSet(A(k)) /\ Cardinality(A(k)) <= Cardinality(B)
    BY <2>1, <2>2, FS_Subset
  <2>4. Cardinality(A(k)) \in Nat
    BY <2>3, FS_CardinalityType
  <2> QED BY <1>0, <2>2, <2>3, <2>4
<1>5. \A k \in D : Place(s, k) \in 1 .. n
  <2> HIDE DEF A
  <2> QED BY <1>0, <1>3, <1>4
<1>6. ASSUME NEW i \in D, NEW k \in D, Ahead(s, i, k) PROVE Place(s, i) < Place(s, k)
  <2> DEFINE B == A(i) \cup {i}
  <2>1. B \in SUBSET A(k) /\ i \notin A(i)
    BY <1>2, <1>6
  <2> HIDE DEF A
  <2>2. Cardinality(B) = Cardinality(A(i)) + 1
    BY <1>4, <2>1, FS_AddElement
  <2> HIDE DEF B
  <2>3. Cardinality(B) <= Cardinality(A(k))
    BY <1>4, <2>1, FS_Subset
  <2>4. Cardinality(A(i)) \in Nat /\ Cardinality(A(k)) \in Nat
    BY <1>4
  <2> QED BY <1>3, <2>2, <2>3, <2>4
<1> HIDE DEF A
<1>7. ASSUME NEW i \in D, NEW k \in D
      PROVE  /\ Ahead(s, i, k) <=> Place(s, i) < Place(s, k)
             /\ Place(s, i) = Place(s, k) => i = k
  <2>1. Place(s, i) \in Int /\ Place(s, k) \in Int
    BY <1>5
  <2>2. CASE i = k
    BY <1>2, <2>1, <2>2
  <2>3. CASE i # k /\ Ahead(s, i, k)
    BY <1>6, <2>1, <2>3
  <2>4. CASE i # k /\ Ahead(s, k, i)
    BY <1>2, <1>6, <2>1, <2>4
  <2> QED BY <1>2, <2>2, <2>3, <2>4
<1> DEFINE f == [k \in D |-> Place(s, k)]
<1>8. f \in Injection(D, D)
  BY <1>5, <1>7 DEF Injection, IsInjective
<1>9. f \in Surjection(D, D)
  <2> HIDE DEF f, D
  <2> QED BY <1>0, <1>8, FS_Injection
<1>10. \A p \in D : \E k \in D : Place(s, k) = p
  BY <1>9 DEF Surjection
<1> QED BY <1>5, <1>7, <1>10 DEF n

\* The results, sorted.
Sorted(s) == [p \in 1 .. Len(s) |-> s[CHOOSE k \in 1 .. Len(s) : Place(s, k) = p]]

LEMMA SortedFact ==
    ASSUME tally \in Tallies, NEW s \in Seq(Rows), IsInjective(s)
    PROVE  /\ Sorted(s) \in Seq(Rows) /\ Len(Sorted(s)) = Len(s)
           /\ IsInjective(Sorted(s)) /\ Range(Sorted(s)) = Range(s)
           /\ \A i, k \in 1 .. Len(s) :
                 i < k => Score(tally[Sorted(s)[i]]) >= Score(tally[Sorted(s)[k]])
<1> DEFINE n == Len(s)
           D == 1 .. n
           At(p) == CHOOSE k \in D : Place(s, k) = p
           q == Sorted(s)
<1>0. n \in Nat /\ DOMAIN s = D /\ \A k \in D : s[k] \in Rows
  OBVIOUS
<1>1. /\ \A k \in D : Place(s, k) \in D
      /\ \A i, k \in D : Ahead(s, i, k) <=> Place(s, i) < Place(s, k)
      /\ \A i, k \in D : Place(s, i) = Place(s, k) => i = k
      /\ \A p \in D : \E k \in D : Place(s, k) = p
  BY PlaceFact
<1>2. \A p \in D : At(p) \in D /\ Place(s, At(p)) = p
  BY <1>1
<1>3. \A k \in D : At(Place(s, k)) = k
  BY <1>1, <1>2
<1>4. q = [p \in D |-> s[At(p)]]
  BY DEF Sorted
<1> HIDE DEF At, q
<1>5. q \in Seq(Rows) /\ Len(q) = n /\ DOMAIN q = D /\ \A p \in D : q[p] = s[At(p)]
  <2>1. q \in [D -> Rows] /\ \A p \in D : q[p] = s[At(p)]
    BY <1>0, <1>2, <1>4
  <2> QED BY <1>0, <2>1
<1>6. IsInjective(q)
  BY <1>0, <1>2, <1>5 DEF IsInjective
<1>7. Range(q) = Range(s)
  <2>1. ASSUME NEW y \in Range(s) PROVE y \in Range(q)
    <3>1. PICK k \in D : y = s[k]
      BY <1>0 DEF Range
    <3>2. Place(s, k) \in D /\ q[Place(s, k)] = y
      BY <1>1, <1>3, <1>5, <3>1
    <3> QED BY <1>5, <3>2 DEF Range
  <2>2. ASSUME NEW y \in Range(q) PROVE y \in Range(s)
    BY <1>0, <1>2, <1>5 DEF Range
  <2> QED BY <2>1, <2>2
<1>8. ASSUME NEW i \in D, NEW k \in D, i < k
      PROVE  Score(tally[q[i]]) >= Score(tally[q[k]])
  <2>1. At(i) \in D /\ At(k) \in D /\ Ahead(s, At(i), At(k))
    BY <1>1, <1>2, <1>8
  <2>2. Score(tally[s[At(i)]]) \in Nat /\ Score(tally[s[At(k)]]) \in Nat
    BY <1>0, <2>1, ScoreType
  <2>3. Score(tally[s[At(i)]]) >= Score(tally[s[At(k)]])
    BY <2>1, <2>2 DEF Ahead
  <2> QED BY <1>5, <2>3
<1> QED BY <1>5, <1>6, <1>7, <1>8 DEF q

\* What is exported of the sorted results when the evaluation returns.
BestInv == phase = "done" => best = TopOf(results)

\* The alive ones are in front, and the report has as many of them as it may.
LEMMA ReportFact ==
    ASSUME PerfInv, BestInv, phase = "done"
    PROVE  \E e \in 0 .. Len(results) :
              LET q == Sorted(results)
                  alive == {r \in Range(chosen) : tally[r].alive}
              IN  /\ alive = {q[p] : p \in 1 .. e} /\ Cardinality(alive) = e
                  /\ Len(Report) = Least(top, e)
                  /\ \A i \in 1 .. Len(Report) : Report[i] = q[i]
<1> DEFINE s == results
           q == Sorted(s)
           n == Len(s)
           D == 1 .. n
           E == {p \in D : tally[q[p]].alive}
           e == Cardinality(E)
           alive == {r \in Range(chosen) : tally[r].alive}
           m == Least(top, n)
           d == Least(top, e)
<1>0. /\ tally \in Tallies /\ s \in Seq(Rows) /\ IsInjective(s) /\ Range(s) = Range(chosen)
      /\ n \in Nat /\ top \in Nat
  BY DEF PerfInv, PerfTypeOK, EachRowOnce, Tallies
<1>1. /\ q \in Seq(Rows) /\ Len(q) = n /\ IsInjective(q) /\ Range(q) = Range(s)
      /\ \A i, k \in D : i < k => Score(tally[q[i]]) >= Score(tally[q[k]])
  BY <1>0, SortedFact
<1>2. best = [p \in 1 .. m |-> q[p]] /\ m \in 0 .. n
  <2>1. m = (IF top < n THEN top ELSE n) /\ m \in 0 .. n
    BY <1>0 DEF Least
  <2>2. best = TopOf(s)
    BY DEF BestInv
  <2>3. TopOf(s) = [p \in 1 .. m |-> q[p]]
    BY <1>0, <2>1 DEF TopOf, Sorted
  <2> QED BY <2>1, <2>2, <2>3
<1> HIDE DEF q, m
<1>3. \A k \in D : q[k] \in Rows /\ Score(tally[q[k]]) \in Nat
                   /\ (tally[q[k]].alive <=> Score(tally[q[k]]) > 0)
  BY <1>0, <1>1, ScoreType
<1>4. e \in 0 .. n /\ E = 1 .. e
  <2>1. E \in SUBSET D
    OBVIOUS
  <2>2. ASSUME NEW k \in E, NEW j \in 1 .. k PROVE j \in E
    <3>1. k \in D /\ j \in D /\ Score(tally[q[k]]) > 0
      BY <1>0, <1>3
    <3>2. Score(tally[q[j]]) >= Score(tally[q[k]])
      BY <1>1, <1>3, <3>1
    <3> QED BY <1>3, <3>1, <3>2
  <2> HIDE DEF E, n
  <2> QED BY <1>0, <2>1, <2>2, DownwardClosed
<1>5. \A p \in D : tally[q[p]].alive <=> p \in 1 .. e
  <2> HIDE DEF e
  <2> QED BY <1>4
<1> HIDE DEF e, E
<1>6. alive = {q[p] : p \in 1 .. e}
  <2>1. Range(chosen) = {q[p] : p \in D}
    <3>1. DOMAIN q = D /\ Range(chosen) = Range(q)
      BY <1>0, <1>1
    <3> HIDE DEF D
    <3> QED BY <3>1 DEF Range
  <2>2. 1 .. e \subseteq D
    BY <1>0, <1>4
  <2> QED BY <1>5, <2>1, <2>2
<1>7. Cardinality(alive) = e
  <2> DEFINE I == 1 .. e
             f == [p \in I |-> q[p]]
  <2>1. IsFiniteSet(I) /\ Cardinality(I) = e
    BY <1>4, FS_Interval
  <2>2. I \subseteq DOMAIN q
    BY <1>0, <1>1, <1>4
  <2>3. f \in Injection(I, alive) /\ f \in Surjection(I, alive)
    BY <1>1, <1>6, <2>2 DEF Injection, Surjection, IsInjective
  <2> HIDE DEF I, f, alive
  <2> QED BY <2>1, <2>3, FS_Surjection
<1>8. {p \in DOMAIN best : tally[best[p]].alive} = 1 .. d
  <2>1. DOMAIN best = 1 .. m /\ \A p \in 1 .. m : best[p] = q[p] /\ p \in D
    BY <1>0, <1>2
  <2>2. \A p \in 1 .. m : tally[best[p]].alive <=> p \in 1 .. e
    BY <1>5, <2>1
  <2>3. d \in Nat /\ \A p \in Nat : p <= d <=> p <= m /\ p <= e
    BY <1>0, <1>4 DEF Least, m
  <2> HIDE DEF d
  <2>4. \A p \in Nat : p \in 1 .. d <=> p \in 1 .. m /\ p \in 1 .. e
    <3>1. m \in Nat /\ e \in Nat
      BY <1>0, <1>2, <1>4
    <3> QED BY <2>3, <3>1
  <2>5. \A p \in 1 .. d : p \in 1 .. m /\ p \in 1 .. e
    BY <2>3, <2>4
  <2>6. \A p \in 1 .. m : p \in Nat
    BY <1>2
  <2> HIDE DEF D
  <2> QED BY <2>1, <2>2, <2>4, <2>5, <2>6
<1>9. Len(Report) = d /\ \A i \in 1 .. d : Report[i] = q[i]
  <2>1. Report = Select(best, 1 .. d)
    BY <1>8 DEF Report
  <2>2. d \in Nat /\ d <= m /\ d <= n
    BY <1>0, <1>2, <1>4 DEF Least, m
  <2>3. best \in Seq(Rows) /\ Len(best) = m /\ \A p \in 1 .. m : best[p] = q[p]
    <3>1. \A p \in 1 .. m : q[p] \in Rows
      BY <1>0, <1>2, <1>3
    <3>2. best \in [1 .. m -> Rows] /\ m \in Nat
      BY <1>2, <3>1
    <3> QED BY <1>2, <3>2
  <2> HIDE DEF d
  <2>4. 1 \in Nat \ {0} /\ d <= Len(best) /\ 1 <= d + 1
    BY <2>2, <2>3
  <2>5. Slice(Rows, best, 1, d, Select(best, 1 .. d))
    BY <2>2, <2>3, <2>4, SelectInterval
  <2> DEFINE t == Select(best, 1 .. d)
  <2>6. Len(t) = d - 1 + 1 /\ \A i \in 1 .. d - 1 + 1 : t[i] = best[1 + i - 1]
    BY <2>5 DEF Slice
  <2>7. d - 1 + 1 = d /\ \A i \in 1 .. d : 1 + i - 1 = i /\ i \in 1 .. m
    BY <1>2, <2>2
  <2> HIDE DEF t
  <2>8. Len(t) = d /\ \A i \in 1 .. d : t[i] = q[i]
    BY <2>3, <2>6, <2>7
  <2> QED BY <2>1, <2>8 DEF t
<1> QED BY <1>4, <1>6, <1>7, <1>9 DEF q, n

\* So the file has the best of the alive ones.
LEMMA BestReported == PerfInv /\ BestInv => ReportIsBest
<1> SUFFICES ASSUME PerfInv, BestInv, phase = "done" PROVE ReportIsBest
  BY DEF ReportIsBest
<1> DEFINE q == Sorted(results)
           n == Len(results)
           alive == {r \in Range(chosen) : tally[r].alive}
           d == Len(Report)
<1>0. /\ tally \in Tallies /\ results \in Seq(Rows) /\ IsInjective(results)
      /\ n \in Nat /\ top \in Nat
  BY DEF PerfInv, PerfTypeOK, EachRowOnce, Tallies
<1>1. PICK e \in 0 .. n :
              /\ alive = {q[p] : p \in 1 .. e} /\ Cardinality(alive) = e
              /\ d = Least(top, e)
              /\ \A i \in 1 .. d : Report[i] = q[i]
  BY ReportFact
<1>2. /\ q \in Seq(Rows) /\ Len(q) = n /\ IsInjective(q)
      /\ \A i, k \in 1 .. n : i < k => Score(tally[q[i]]) >= Score(tally[q[k]])
  BY <1>0, SortedFact
<1>3. DOMAIN Report = 1 .. d /\ DOMAIN q = 1 .. n
  <2>1. DOMAIN Report = 1 .. Cardinality({p \in DOMAIN best : tally[best[p]].alive})
    BY DEF Report, Select
  <2>2. IsFiniteSet(DOMAIN best)
    <3>1. best = TopOf(results)
      BY DEF BestInv
    <3>2. DOMAIN best = 1 .. (IF top < n THEN top ELSE n)
      BY <3>1 DEF TopOf
    <3>3. (IF top < n THEN top ELSE n) \in Int
      BY <1>0
    <3> QED BY <3>2, <3>3, FS_Interval
  <2>3. Cardinality({p \in DOMAIN best : tally[best[p]].alive}) \in Nat
    BY <2>2, FS_Subset, FS_CardinalityType
  <2> QED BY <1>2, <2>1, <2>3
<1>4. d \in 0 .. e /\ e \in 0 .. n /\ 1 .. d \subseteq 1 .. e /\ 1 .. e \subseteq 1 .. n
  <2>1. d \in 0 .. e /\ e \in 0 .. n
    BY <1>0, <1>1 DEF Least
  <2> HIDE DEF d
  <2> QED BY <1>0, <2>1
<1> HIDE DEF q, n, d, alive
<1>5. Range(Report) = {q[p] : p \in 1 .. d}
  BY <1>1, <1>3 DEF Range
<1>6. Range(Report) \subseteq alive
  BY <1>1, <1>4, <1>5
<1>7. IsInjective(Report)
  BY <1>1, <1>2, <1>3, <1>4 DEF IsInjective
<1>8. \A i, k \in 1 .. d : i < k => Score(tally[Report[i]]) >= Score(tally[Report[k]])
  BY <1>1, <1>2, <1>4
<1>9. ASSUME NEW r \in Range(Report), NEW x \in alive \ Range(Report)
      PROVE  Score(tally[r]) >= Score(tally[x])
  <2>1. PICK i \in 1 .. d : r = q[i]
    BY <1>5
  <2>2. PICK k \in 1 .. e : x = q[k]
    BY <1>1
  <2>3. k \notin 1 .. d
    BY <1>5, <1>9, <2>2
  <2>4. i < k
    BY <1>4, <2>3
  <2>5. i \in 1 .. n /\ k \in 1 .. n
    BY <1>4
  <2> QED BY <1>2, <2>1, <2>2, <2>4, <2>5
<1> QED BY <1>1, <1>6, <1>7, <1>8, <1>9 DEF ReportIsBest, alive, d

-----------------------------------------------------------------------------
(* Numbers of lines.                                                       *)

\* Division with a remainder.
LEMMA Divided ==
    ASSUME NEW x \in Nat, NEW d \in Nat \ {0}
    PROVE  /\ x \div d \in Nat /\ x % d \in 0 .. d - 1
           /\ x = d * (x \div d) + (x % d)
OBVIOUS

\* A factor more is a term more.
LEMMA Smaller ==
    ASSUME NEW d \in Nat \ {0}, NEW x \in Nat, NEW y \in Nat, x < y
    PROVE  d * x + d <= d * y
<1>1. PICK z \in Nat : y = x + 1 + z
  <2>1. y - x - 1 \in Nat /\ y = x + 1 + (y - x - 1)
    OBVIOUS
  <2> QED BY <2>1
<1>2. d * (x + 1 + z) = d * x + d + d * z
  OBVIOUS
<1>3. d * z >= 0
  OBVIOUS
<1> QED BY <1>1, <1>2, <1>3

\* Multiplication keeps the order.
LEMMA NotSmaller ==
    ASSUME NEW d \in Nat \ {0}, NEW x \in Nat, NEW y \in Nat, x <= y
    PROVE  x * d <= d * y
<1>1. x * d = d * x /\ d * x \in Int /\ d * y \in Int
  OBVIOUS
<1>2. CASE x < y
  BY <1>1, <1>2, Smaller
<1> QED BY <1>1, <1>2

\* Quotient and remainder are the only ones.
LEMMA DivisionUnique ==
    ASSUME NEW d \in Nat \ {0}, NEW q \in Nat, NEW r \in 0 .. d - 1
    PROVE  (d * q + r) \div d = q /\ (d * q + r) % d = r
<1> DEFINE x == d * q + r
           v == x \div d
           w == x % d
<1>1. x \in Nat
  OBVIOUS
<1> HIDE DEF x
<1>2. v \in Nat /\ w \in 0 .. d - 1 /\ x = d * v + w
  BY <1>1, Divided
<1> HIDE DEF v, w
<1>3. d * v + w = d * q + r
  BY <1>2 DEF x
<1>4. d * v \in Int /\ d * q \in Int
  BY <1>2
<1>5. ~(v < q)
  <2> SUFFICES ASSUME v < q PROVE FALSE
    OBVIOUS
  <2>1. d * v + d <= d * q
    BY <1>2, Smaller
  <2> QED BY <1>2, <1>3, <1>4, <2>1
<1>6. ~(q < v)
  <2> SUFFICES ASSUME q < v PROVE FALSE
    OBVIOUS
  <2>1. d * q + d <= d * v
    BY <1>2, Smaller
  <2> QED BY <1>2, <1>3, <1>4, <2>1
<1>7. v = q
  BY <1>2, <1>5, <1>6
<1>8. w = r
  BY <1>2, <1>3, <1>4, <1>7
<1> QED BY <1>7, <1>8 DEF v, w, x

\* Division keeps the order.
LEMMA DivisionMonotone ==
    ASSUME NEW d \in Nat \ {0}, NEW x \in Nat, NEW y \in Nat, x <= y
    PROVE  x \div d <= y \div d
<1> DEFINE v == x \div d
           w == y \div d
<1>1. /\ v \in Nat /\ w \in Nat /\ x % d \in 0 .. d - 1 /\ y % d \in 0 .. d - 1
      /\ x = d * v + (x % d) /\ y = d * w + (y % d)
  BY Divided
<1> SUFFICES ASSUME w < v PROVE FALSE
  BY <1>1
<1> HIDE DEF v, w
<1>2. d * w + d <= d * v
  BY <1>1, Smaller
<1>3. d * w \in Int /\ d * v \in Int
  BY <1>1
<1> QED BY <1>1, <1>2, <1>3

\* The places at which the positions of T come up in the j-th of g rounds of c,
\* when l configs are taken again and again.
Served(g, c, l, j, T) ==
    {k \in 1 .. g * c : ((k - 1) \div c) + 1 = j /\ (((k - 1) % c) % l) + 1 \in T}

\* They are at least as many as T has positions for each full pass ...
LEMMA ServedEnough ==
    ASSUME NEW g \in Nat, NEW c \in Nat \ {0}, NEW l \in Nat \ {0}, NEW j \in 1 .. g,
           NEW T \in SUBSET (1 .. l)
    PROVE  Cardinality(Served(g, c, l, j, T)) >= Cardinality(T) * (c \div l)
<1> DEFINE U == Served(g, c, l, j, T)
           a == c \div l
           I == 0 .. a - 1
           At(q, i) == c * (j - 1) + (l * i + (q - 1)) + 1
<1>1. a \in Nat /\ l * a <= c
  <2>1. a \in Nat /\ c % l \in 0 .. l - 1 /\ c = l * a + (c % l)
    BY Divided
  <2> HIDE DEF a
  <2>2. l * a \in Int
    BY <2>1
  <2> QED BY <2>1, <2>2
<1> HIDE DEF a
<1>2. ASSUME NEW q \in T, NEW i \in I
      PROVE  /\ At(q, i) \in U
             /\ ((At(q, i) - 1) % c) % l = q - 1
             /\ ((At(q, i) - 1) % c) \div l = i
  <2> DEFINE y == l * i + (q - 1)
             x == c * (j - 1) + y
  <2>0. i \in Nat /\ i < a /\ q - 1 \in 0 .. l - 1 /\ q \in T /\ j - 1 \in Nat /\ j - 1 < g
    BY <1>1
  <2>1. y \in 0 .. c - 1
    <3>1. l * i + l <= l * a
      BY <1>1, <2>0, Smaller
    <3>2. l * i \in Nat /\ l * a \in Nat
      BY <1>1, <2>0
    <3> QED BY <1>1, <2>0, <3>1, <3>2
  <2>2. y \div l = i /\ y % l = q - 1
    BY <2>0, DivisionUnique
  <2> HIDE DEF y
  <2>3. x \div c = j - 1 /\ x % c = y
    BY <2>0, <2>1, DivisionUnique
  <2>4. x \in Nat /\ x + 1 \in 1 .. g * c
    <3>1. c * (j - 1) + c <= c * g
      BY <2>0, Smaller
    <3>2. c * (j - 1) \in Nat /\ c * g = g * c /\ c * g \in Nat
      BY <2>0
    <3> QED BY <2>1, <3>1, <3>2
  <2>5. At(q, i) = x + 1
    BY DEF y
  <2> HIDE DEF x, At
  <2>6. At(q, i) - 1 = x
    BY <2>4, <2>5
  <2>7. (((At(q, i) - 1) % c) % l) + 1 = q
    BY <2>0, <2>2, <2>3, <2>6
  <2>8. ((At(q, i) - 1) \div c) + 1 = j
    BY <2>3, <2>6
  <2>9. At(q, i) \in U
    BY <2>0, <2>4, <2>5, <2>7, <2>8 DEF Served
  <2> QED BY <2>2, <2>3, <2>6, <2>9
<1> DEFINE f == [w \in T \X I |-> At(w[1], w[2])]
<1>3. f \in Injection(T \X I, U)
  <2> HIDE DEF At, U, I
  <2>1. \A w \in T \X I : w[1] \in T /\ w[2] \in I /\ w = <<w[1], w[2]>>
    OBVIOUS
  <2>2. f \in [T \X I -> U]
    BY <1>2, <2>1
  <2>3. ASSUME NEW v \in T \X I, NEW w \in T \X I, f[v] = f[w] PROVE v = w
    <3>1. At(v[1], v[2]) = At(w[1], w[2])
      BY <2>3
    <3>a. ASSUME NEW u \in T \X I
          PROVE  /\ ((At(u[1], u[2]) - 1) % c) % l = u[1] - 1
                 /\ ((At(u[1], u[2]) - 1) % c) \div l = u[2]
                 /\ u[1] \in Int
      <4>1. u[1] \in T /\ u[2] \in I /\ T \subseteq Int
        BY <2>1
      <4> HIDE DEF f
      <4> QED BY <1>2, <4>1
    <3>2. v[1] - 1 = w[1] - 1 /\ v[2] = w[2]
      BY <3>1, <3>a
    <3>3. v[1] \in Int /\ w[1] \in Int
      BY <3>a
    <3> QED BY <2>1, <3>2, <3>3
  <2> QED BY <2>2, <2>3 DEF Injection, IsInjective
<1>4. IsFiniteSet(U)
  <2>1. g * c \in Int
    OBVIOUS
  <2>2. IsFiniteSet(1 .. g * c)
    BY <2>1, FS_Interval
  <2> QED BY <2>2, FS_Subset DEF Served
<1>5. IsFiniteSet(T) /\ IsFiniteSet(I) /\ Cardinality(I) = a
  <2>1. IsFiniteSet(1 .. l)
    BY FS_Interval
  <2>2. IsFiniteSet(I) /\ Cardinality(I) = IF 0 > a - 1 THEN 0 ELSE a - 1 - 0 + 1
    BY <1>1, FS_Interval
  <2>3. IsFiniteSet(T)
    BY <2>1, FS_Subset
  <2> QED BY <1>1, <2>2, <2>3
<1>6. Cardinality(T \X I) = Cardinality(T) * a
  <2> HIDE DEF I
  <2> QED BY <1>5, FS_Product
<1>7. Cardinality(T \X I) <= Cardinality(U)
  <2> HIDE DEF f, U, I
  <2> QED BY <1>3, <1>4, FS_Injection
<1>8. Cardinality(U) \in Nat /\ Cardinality(T) \in Nat /\ Cardinality(T) * a \in Nat
  BY <1>1, <1>4, <1>5, FS_CardinalityType
<1> QED BY <1>6, <1>7, <1>8 DEF a

\* ... and at most as many as it has for each pass begun.
LEMMA ServedAtMost ==
    ASSUME NEW g \in Nat, NEW c \in Nat \ {0}, NEW l \in Nat \ {0}, NEW j \in 1 .. g,
           NEW T \in SUBSET (1 .. l)
    PROVE  /\ IsFiniteSet(Served(g, c, l, j, T))
           /\ Cardinality(Served(g, c, l, j, T)) <= Cardinality(T) * (((c - 1) \div l) + 1)
<1> DEFINE U == Served(g, c, l, j, T)
           b == (c - 1) \div l
           I == 0 .. b
           y(k) == (k - 1) % c
           f == [k \in U |-> <<(y(k) % l) + 1, y(k) \div l>>]
<1>1. b \in Nat
  BY Divided
<1>2. ASSUME NEW k \in U
      PROVE  /\ k - 1 \in Nat /\ y(k) \in 0 .. c - 1 /\ k - 1 = c * (j - 1) + y(k)
             /\ (y(k) % l) + 1 \in T /\ y(k) \div l \in I
             /\ y(k) = l * (y(k) \div l) + (y(k) % l)
             /\ k \in Int /\ y(k) \in Int /\ y(k) % l \in Int
  <2>1. k \in 1 .. g * c /\ ((k - 1) \div c) + 1 = j /\ (y(k) % l) + 1 \in T
    BY DEF Served
  <2>2. k - 1 \in Nat
    BY <2>1
  <2>3. /\ (k - 1) \div c \in Nat /\ y(k) \in 0 .. c - 1
        /\ k - 1 = c * ((k - 1) \div c) + y(k)
    BY <2>2, Divided
  <2>4. (k - 1) \div c = j - 1
    BY <2>1, <2>3
  <2> DEFINE z == y(k)
  <2>5. z \in Nat /\ z <= c - 1 /\ c - 1 \in Nat
    BY <2>3
  <2> HIDE DEF z
  <2>6. z % l \in Int /\ z \div l \in Nat /\ z = l * (z \div l) + (z % l) /\ z \div l <= (c - 1) \div l
    <3>1. z % l \in 0 .. l - 1 /\ z \div l \in Nat /\ z = l * (z \div l) + (z % l)
      BY <2>5, Divided
    <3>2. z \div l <= (c - 1) \div l
      BY <2>5, DivisionMonotone
    <3> QED BY <3>1, <3>2
  <2>7. z \div l \in I
    BY <1>1, <2>6
  <2> QED BY <2>1, <2>2, <2>3, <2>4, <2>6, <2>7 DEF z
<1> HIDE DEF U, b
<1>3. f \in Injection(U, T \X I)
  <2> HIDE DEF I
  <2>1. f \in [U -> T \X I]
    BY <1>2
  <2>2. ASSUME NEW k \in U, NEW m \in U, f[k] = f[m] PROVE k = m
    <3>1. (y(k) % l) + 1 = (y(m) % l) + 1 /\ y(k) \div l = y(m) \div l
      BY <2>2
    <3>2. /\ y(k) \in Int /\ y(m) \in Int /\ y(k) % l \in Int /\ y(m) % l \in Int
          /\ y(k) = l * (y(k) \div l) + (y(k) % l) /\ y(m) = l * (y(m) \div l) + (y(m) % l)
          /\ k - 1 = c * (j - 1) + y(k) /\ m - 1 = c * (j - 1) + y(m)
          /\ k \in Int /\ m \in Int
      <4> HIDE DEF y, f, I
      <4> QED BY <1>2
    <3> HIDE DEF y
    <3>3. y(k) % l = y(m) % l
      BY <3>1, <3>2
    <3>4. y(k) = y(m)
      BY <3>1, <3>2, <3>3
    <3> QED BY <3>2, <3>4
  <2> QED BY <2>1, <2>2 DEF Injection, IsInjective
<1>5. IsFiniteSet(T) /\ IsFiniteSet(I) /\ Cardinality(I) = b + 1
  <2>1. IsFiniteSet(1 .. l)
    BY FS_Interval
  <2>2. IsFiniteSet(I) /\ Cardinality(I) = IF 0 > b THEN 0 ELSE b - 0 + 1
    BY <1>1, FS_Interval
  <2>3. IsFiniteSet(T)
    BY <2>1, FS_Subset
  <2> QED BY <1>1, <2>2, <2>3
<1>6. Cardinality(T \X I) = Cardinality(T) * (b + 1) /\ IsFiniteSet(T \X I)
  <2> HIDE DEF I
  <2> QED BY <1>5, FS_Product
<1>7. IsFiniteSet(U) /\ Cardinality(U) <= Cardinality(T \X I)
  <2> HIDE DEF f, I
  <2> QED BY <1>3, <1>6, FS_Injection
<1> QED BY <1>6, <1>7 DEF b, U

-----------------------------------------------------------------------------
(* The texts.                                                              *)

\* A line differs from its text in the server only, and in that if it can.
LEMMA Applied ==
    ASSUME NEW r \in Rows, NEW ip
    PROVE  LET t == Text[r]
               a == apply_ip(t, ip)
           IN  /\ a.scheme = t.scheme /\ a.lower = t.lower /\ a.lossy = t.lossy
               /\ a.server = IF Replaceable(t) THEN ip ELSE t.server
               /\ detect_protocol(a) = detect_protocol(t)
<1> DEFINE t == Text[r]
           a == apply_ip(t, ip)
<1>1. t \in [scheme : {t.scheme}, lower : BOOLEAN, server : {t.server}, lossy : BOOLEAN, rest : {t.rest}]
  BY ExportsAssumption
<1>2. a = IF Replaceable(t) THEN [t EXCEPT !.server = ip] ELSE t
  BY DEF apply_ip
<1> HIDE DEF t, a
<1>3. /\ a.scheme = t.scheme /\ a.lower = t.lower /\ a.lossy = t.lossy
      /\ a.server = IF Replaceable(t) THEN ip ELSE t.server
  BY <1>1, <1>2
<1>4. detect_protocol(a) = detect_protocol(t)
  BY <1>3 DEF detect_protocol
<1> QED BY <1>3, <1>4 DEF t, a

\* What an IP has made of a text no other IP makes of any.
LEMMA SameLine ==
    ASSUME NEW r \in Rows, NEW x \in Rows, NEW ip \in Ips, NEW o \in Ips,
           Replaceable(Text[r]), apply_ip(Text[x], o) = apply_ip(Text[r], ip)
    PROVE  o = ip
<1> DEFINE a == apply_ip(Text[r], ip)
           b == apply_ip(Text[x], o)
<1>1. a.scheme = Text[r].scheme /\ a.lower = Text[r].lower /\ a.lossy = Text[r].lossy /\ a.server = ip
  BY Applied
<1>2. /\ b.scheme = Text[x].scheme /\ b.lower = Text[x].lower /\ b.lossy = Text[x].lossy
      /\ b.server = IF Replaceable(Text[x]) THEN o ELSE Text[x].server
  BY Applied
<1>3. a = b /\ ip # NoHost
  BY ExportsAssumption
<1> HIDE DEF a, b
<1>4. CASE ~Replaceable(Text[x])
  BY <1>1, <1>2, <1>3, <1>4 DEF Replaceable
<1> QED BY <1>1, <1>2, <1>3, <1>4

\* A stored row that is a link of the base has a server that is read.
LEMMA Linked ==
    ASSUME NEW r \in Rows, Host[r] # NoHost, Text[r].scheme \in Schemes
    PROVE  Text[r].lower /\ Text[r].server # NoHost
<1>1. r \notin Json
  BY ExportsAssumption
<1>2. Host[r] = extract_host(Text[r])
  BY <1>1, ExportsAssumption
<1> QED BY <1>2 DEF extract_host

-----------------------------------------------------------------------------
(* The export of the second answer.                                        *)

\* All of the sequence, when all of its places are kept.
LEMMA SelectAll ==
    ASSUME NEW C, NEW n \in Nat, NEW s \in [1 .. n -> C]
    PROVE  /\ Len(Select(s, 1 .. n)) = n /\ Select(s, 1 .. n) \in Seq(C)
           /\ \A i \in 1 .. n : Select(s, 1 .. n)[i] = s[i]
<1>1. s \in Seq(C) /\ Len(s) = n /\ 1 \in Nat \ {0} /\ 1 <= n + 1 /\ n <= Len(s)
  OBVIOUS
<1>2. Slice(C, s, 1, n, Select(s, 1 .. n))
  BY <1>1, SelectInterval
<1> DEFINE t == Select(s, 1 .. n)
<1>3. t \in Seq(C) /\ Len(t) = n - 1 + 1 /\ \A i \in 1 .. n - 1 + 1 : t[i] = s[1 + i - 1]
  BY <1>2 DEF Slice
<1>4. n - 1 + 1 = n /\ \A i \in 1 .. n : 1 + i - 1 = i
  OBVIOUS
<1> HIDE DEF t
<1>5. t \in Seq(C) /\ Len(t) = n /\ \A i \in 1 .. n : t[i] = s[i]
  BY <1>3, <1>4
<1> QED BY <1>5 DEF t

\* Where the text of the k-th line stands in the base, and its IP in the list.
Position(base, count, k) == (((k - 1) % count) % Len(base)) + 1
Group(count, k) == ((k - 1) \div count) + 1
Lines == {apply_ip(Text[r], ip) : r \in Rows, ip \in Ips}

\* What is exported: the lines, one after the other, none of them left out.
All(ips, base, count) == apply_ips_to_configs(ips, [i \in 1 .. Len(base) |-> Text[base[i]]], count)
Exported(ips, base, count, lines) ==
    /\ ips \in Seq(Ips) /\ IsInjective(ips) /\ base \in Seq(Rows) /\ base # << >>
    /\ count \in Nat \ {0}
    /\ \A r \in Range(base) : detect_protocol(Text[r]) # "trojan" /\ Host[r] # NoHost
    /\ lines = Select(All(ips, base, count), {p \in DOMAIN All(ips, base, count) :
                        detect_protocol(All(ips, base, count)[p]) # "trojan"})

Laid(ips, base, count, lines) ==
    /\ Len(lines) = Len(ips) * count /\ lines \in Seq(Lines)
    /\ \A k \in 1 .. Len(ips) * count :
          /\ Position(base, count, k) \in 1 .. Len(base) /\ Group(count, k) \in 1 .. Len(ips)
          /\ lines[k] = apply_ip(Text[base[Position(base, count, k)]], ips[Group(count, k)])

LEMMA LinesFact ==
    ASSUME NEW ips, NEW base, NEW count, NEW lines, Exported(ips, base, count, lines)
    PROVE  Laid(ips, base, count, lines)
<1> DEFINE n == Len(base)
           m == Len(ips)
           N == m * count
           texts == [i \in 1 .. n |-> Text[base[i]]]
           all == All(ips, base, count)
           Q(k) == Position(base, count, k)
           G(k) == Group(count, k)
<1>1. /\ n \in Nat \ {0} /\ m \in Nat /\ N \in Nat
      /\ DOMAIN base = 1 .. n /\ \A i \in 1 .. n : base[i] \in Rows /\ base[i] \in Range(base)
      /\ DOMAIN ips = 1 .. m /\ \A i \in 1 .. m : ips[i] \in Ips
      /\ count \in Nat \ {0}
      /\ \A r \in Range(base) : detect_protocol(Text[r]) # "trojan"
  BY DEF Range, Exported
<1>2. Len(texts) = n
  BY <1>1
<1>3. ASSUME NEW k \in 1 .. N PROVE Q(k) \in 1 .. n /\ G(k) \in 1 .. m
  <2> DEFINE x == k - 1
             y == x % count
             g == x \div count
  <2>1. x \in Nat /\ x < N
    BY <1>1
  <2>2. y \in Nat /\ g \in Nat /\ x = count * g + y
    <3>1. x \in Nat /\ count \in Nat \ {0}
      BY <1>1, <2>1
    <3> HIDE DEF x
    <3>2. x \div count \in Nat /\ x % count \in 0 .. count - 1
          /\ x = count * (x \div count) + (x % count)
      BY <3>1, Divided
    <3> QED BY <3>1, <3>2
  <2>3. g < m
    <3> HIDE DEF x, y, g, n, m
    <3>0. count \in Nat \ {0} /\ m \in Nat /\ g \in Nat /\ y \in Nat /\ x = count * g + y /\ x < m * count
      BY <1>1, <2>1, <2>2
    <3> SUFFICES ASSUME g >= m PROVE FALSE
      BY <3>0
    <3>1. m * count <= count * g
      BY <3>0, NotSmaller
    <3>2. m * count \in Int /\ count * g \in Int
      BY <3>0
    <3> QED BY <3>0, <3>1, <3>2
  <2>4. y % n \in 0 .. n - 1
    <3> HIDE DEF y, n
    <3> QED BY <1>1, <2>2, Divided
  <2>5. Q(k) = (y % n) + 1 /\ G(k) = g + 1
    BY DEF Position, Group
  <2> HIDE DEF n, m, Q, G, y, g
  <2> QED BY <1>1, <2>2, <2>3, <2>4, <2>5
<1>4. all = [k \in 1 .. N |-> apply_ip(texts[Q(k)], ips[G(k)])]
  BY <1>2 DEF All, apply_ips_to_configs, Position, Group
<1> HIDE DEF N, Q, G, all
<1>5. \A k \in 1 .. N : all[k] = apply_ip(Text[base[Q(k)]], ips[G(k)])
  BY <1>3, <1>4
<1>6. \A k \in 1 .. N : all[k] \in Lines /\ detect_protocol(all[k]) # "trojan"
  <2> TAKE k \in 1 .. N
  <2>1. Q(k) \in 1 .. n /\ G(k) \in 1 .. m
    BY <1>3
  <2>2. base[Q(k)] \in Rows /\ ips[G(k)] \in Ips /\ base[Q(k)] \in Range(base)
    BY <1>1, <2>1
  <2>3. detect_protocol(all[k]) = detect_protocol(Text[base[Q(k)]])
    BY <1>5, <2>2, Applied
  <2> QED BY <1>1, <1>5, <2>2, <2>3 DEF Lines
<1>7. all \in [1 .. N -> Lines] /\ {p \in DOMAIN all : detect_protocol(all[p]) # "trojan"} = 1 .. N
  BY <1>4, <1>6
<1>8. Len(lines) = N /\ lines \in Seq(Lines) /\ \A k \in 1 .. N : lines[k] = all[k]
  <2>1. lines = Select(all, 1 .. N)
    BY <1>7 DEF Exported, all
  <2> QED BY <1>1, <1>7, <2>1, SelectAll
<1>9. \A k \in 1 .. N : Q(k) \in 1 .. n /\ G(k) \in 1 .. m
                        /\ lines[k] = apply_ip(Text[base[Q(k)]], ips[G(k)])
  BY <1>3, <1>5, <1>8
<1> QED BY <1>8, <1>9 DEF Laid, N, Q, G

\* Every line is in order, ...
LEMMA CleanFact ==
    ASSUME NEW ips, NEW base, NEW count, NEW lines, Exported(ips, base, count, lines)
    PROVE  \A line \in Range(lines) :
              /\ detect_protocol(line) # "trojan"
              /\ line.scheme \in Schemes /\ ~line.lossy => line.server \in Range(ips)
<1>0. /\ ips \in Seq(Ips) /\ base \in Seq(Rows)
      /\ \A r \in Range(base) : detect_protocol(Text[r]) # "trojan" /\ Host[r] # NoHost
  BY DEF Exported
<1>1. /\ Len(lines) = Len(ips) * count /\ lines \in Seq(Lines)
      /\ \A k \in 1 .. Len(ips) * count :
            /\ Position(base, count, k) \in 1 .. Len(base) /\ Group(count, k) \in 1 .. Len(ips)
            /\ lines[k] = apply_ip(Text[base[Position(base, count, k)]], ips[Group(count, k)])
  BY LinesFact DEF Laid
<1> TAKE line \in Range(lines)
<1>2. PICK k \in 1 .. Len(ips) * count : line = lines[k]
  <2>1. DOMAIN lines = 1 .. Len(ips) * count
    BY <1>1
  <2> QED BY <2>1 DEF Range
<1> DEFINE r == base[Position(base, count, k)]
           ip == ips[Group(count, k)]
<1>3. line = apply_ip(Text[r], ip) /\ r \in Rows /\ r \in Range(base) /\ ip \in Range(ips)
  BY <1>0, <1>1, <1>2 DEF Range
<1> HIDE DEF r, ip
<1>4. /\ line.scheme = Text[r].scheme /\ line.lower = Text[r].lower /\ line.lossy = Text[r].lossy
      /\ line.server = IF Replaceable(Text[r]) THEN ip ELSE Text[r].server
      /\ detect_protocol(line) = detect_protocol(Text[r])
  BY <1>3, Applied
<1>5. ASSUME line.scheme \in Schemes, ~line.lossy PROVE line.server \in Range(ips)
  <2>1. Text[r].lower /\ Text[r].server # NoHost
    BY <1>0, <1>3, <1>4, <1>5, Linked
  <2>2. Replaceable(Text[r])
    BY <1>4, <1>5, <2>1 DEF Replaceable
  <2> QED BY <1>3, <1>4, <2>2
<1> QED BY <1>0, <1>3, <1>4, <1>5

\* ... and every config of the base comes up as often as every other.
Evenly(base, count, lines, ip, r) ==
    LET uses  == Cardinality({k \in 1 .. Len(lines) : lines[k] = apply_ip(Text[r], ip)})
        twins == Cardinality({k \in 1 .. Len(base) :
                    apply_ip(Text[base[k]], ip) = apply_ip(Text[r], ip)})
    IN  /\ uses >= twins * (count \div Len(base))
        /\ uses <= twins * ((count - 1) \div Len(base) + 1)

LEMMA RotationFact ==
    ASSUME NEW ips, NEW base, NEW count, NEW lines, Exported(ips, base, count, lines),
           NEW ip \in Range(ips), NEW r \in Range(base), Replaceable(Text[r])
    PROVE  Evenly(base, count, lines, ip, r)
<1> DEFINE n == Len(base)
           m == Len(ips)
           U == {k \in 1 .. Len(lines) : lines[k] = apply_ip(Text[r], ip)}
           T == {k \in 1 .. n : apply_ip(Text[base[k]], ip) = apply_ip(Text[r], ip)}
<1>0. /\ n \in Nat \ {0} /\ m \in Nat
      /\ \A i \in 1 .. n : base[i] \in Rows
      /\ \A i \in 1 .. m : ips[i] \in Ips
      /\ DOMAIN ips = 1 .. m /\ IsInjective(ips) /\ count \in Nat \ {0} /\ r \in Rows
  BY DEF Range, Exported
<1>1. PICK j \in 1 .. m : ip = ips[j]
  BY <1>0 DEF Range
<1>2. /\ Len(lines) = m * count
      /\ \A k \in 1 .. m * count :
            /\ Position(base, count, k) \in 1 .. n /\ Group(count, k) \in 1 .. m
            /\ lines[k] = apply_ip(Text[base[Position(base, count, k)]], ips[Group(count, k)])
  BY LinesFact DEF Laid
<1>3. ASSUME NEW k \in 1 .. m * count
      PROVE  lines[k] = apply_ip(Text[r], ip) <=> Group(count, k) = j /\ Position(base, count, k) \in T
  <2> DEFINE x == base[Position(base, count, k)]
             o == ips[Group(count, k)]
  <2>1. x \in Rows /\ o \in Ips /\ ip \in Ips /\ lines[k] = apply_ip(Text[x], o)
    BY <1>0, <1>1, <1>2
  <2>2. ASSUME lines[k] = apply_ip(Text[r], ip)
        PROVE  Group(count, k) = j /\ Position(base, count, k) \in T
    <3>1. o = ip
      <4> HIDE DEF x, o
      <4> QED BY <1>0, <2>1, <2>2, SameLine
    <3>2. Group(count, k) = j
      BY <1>0, <1>1, <1>2, <3>1 DEF IsInjective
    <3> QED BY <1>2, <2>1, <2>2, <3>1, <3>2
  <2>3. ASSUME Group(count, k) = j, Position(base, count, k) \in T
        PROVE  lines[k] = apply_ip(Text[r], ip)
    BY <1>1, <2>1, <2>3
  <2> QED BY <2>2, <2>3
<1>4. U = Served(m, count, n, j, T)
  <2>1. \A k \in 1 .. m * count :
           (Group(count, k) = j <=> ((k - 1) \div count) + 1 = j)
           /\ Position(base, count, k) = (((k - 1) % count) % n) + 1
    BY DEF Group, Position
  <2> HIDE DEF n, m, T
  <2> QED BY <1>2, <1>3, <2>1 DEF Served
<1>5. T \in SUBSET (1 .. n)
  OBVIOUS
<1> HIDE DEF n, m, T, U
<1>6. Cardinality(U) >= Cardinality(T) * (count \div n)
  BY <1>0, <1>4, <1>5, ServedEnough
<1>7. Cardinality(U) <= Cardinality(T) * (((count - 1) \div n) + 1)
  BY <1>0, <1>4, <1>5, ServedAtMost
<1> QED BY <1>6, <1>7 DEF n, m, T, U, Evenly

-----------------------------------------------------------------------------
USE PerfTesterAssumption

-----------------------------------------------------------------------------
(* Sequences without repetition.                                           *)

\* Append adds one element to the range and repeats none.
LEMMA AppendFact ==
    ASSUME NEW S, NEW s \in Seq(S), NEW x \in S
    PROVE  /\ Append(s, x) \in Seq(S)
           /\ Range(Append(s, x)) = Range(s) \cup {x}
           /\ IsInjective(s) /\ x \notin Range(s) => IsInjective(Append(s, x))
<1>1. /\ DOMAIN s = 1 .. Len(s) /\ Len(s) \in Nat
      /\ DOMAIN Append(s, x) = 1 .. Len(s) + 1
      /\ \A i \in 1 .. Len(s) : Append(s, x)[i] = s[i]
      /\ Append(s, x)[Len(s) + 1] = x
  OBVIOUS
<1>2. \A i \in 1 .. Len(s) + 1 : i \in 1 .. Len(s) \/ i = Len(s) + 1
  BY <1>1
<1>3. Range(Append(s, x)) = Range(s) \cup {x}
  BY <1>1, <1>2 DEF Range
<1>4. ASSUME IsInjective(s), x \notin Range(s) PROVE IsInjective(Append(s, x))
  BY <1>1, <1>2, <1>4 DEF IsInjective, Range
<1> QED BY <1>3, <1>4

\* The tail of a sequence without repetition lacks the head only.
LEMMA TailFact ==
    ASSUME NEW S, NEW s \in Seq(S), s # << >>
    PROVE  /\ Head(s) \in Range(s) /\ Head(s) \in S /\ Tail(s) \in Seq(S)
           /\ Range(s) = Range(Tail(s)) \cup {Head(s)}
           /\ IsInjective(s) => IsInjective(Tail(s)) /\ Head(s) \notin Range(Tail(s))
<1>1. /\ DOMAIN s = 1 .. Len(s) /\ Len(s) \in Nat \ {0}
      /\ DOMAIN Tail(s) = 1 .. Len(s) - 1
      /\ \A i \in 1 .. Len(s) - 1 : Tail(s)[i] = s[i + 1]
      /\ Head(s) = s[1] /\ Tail(s) \in Seq(S) /\ s[1] \in S
  OBVIOUS
<1>2. \A i \in 1 .. Len(s) : i = 1 \/ (i - 1 \in 1 .. Len(s) - 1 /\ s[i] = Tail(s)[i - 1])
  BY <1>1
<1>3. Range(s) = Range(Tail(s)) \cup {Head(s)}
  <2>1. ASSUME NEW y \in Range(s), y # Head(s) PROVE y \in Range(Tail(s))
    <3>1. PICK i \in 1 .. Len(s) : y = s[i]
      BY <1>1 DEF Range
    <3>2. i - 1 \in DOMAIN Tail(s) /\ y = Tail(s)[i - 1]
      BY <1>1, <1>2, <2>1, <3>1
    <3> QED BY <3>2 DEF Range
  <2>2. \A y \in Range(Tail(s)) \cup {Head(s)} : y \in Range(s)
    BY <1>1 DEF Range
  <2> QED BY <2>1, <2>2
<1>4. ASSUME IsInjective(s) PROVE IsInjective(Tail(s)) /\ Head(s) \notin Range(Tail(s))
  BY <1>1, <1>4 DEF IsInjective, Range
<1> QED BY <1>1, <1>3, <1>4

\* Two sequences without repetition, of the same length, one within the other.
LEMMA SameRange ==
    ASSUME NEW S, NEW s \in Seq(S), NEW t \in Seq(S), IsInjective(s), IsInjective(t),
           Len(s) = Len(t), Range(s) \subseteq Range(t)
    PROVE  Range(s) = Range(t)
<1> DEFINE D == 1 .. Len(t)
<1>1. Len(t) \in Nat /\ DOMAIN s = D /\ DOMAIN t = D
  OBVIOUS
<1>2. IsFiniteSet(D)
  BY <1>1, FS_Interval
<1>3. t \in Surjection(D, Range(t)) /\ t \in Injection(D, Range(t))
  BY <1>1 DEF Surjection, Injection, IsInjective, Range
<1>4. IsFiniteSet(Range(t)) /\ Cardinality(Range(t)) = Cardinality(D)
  <2> HIDE DEF D
  <2> QED BY <1>2, <1>3, FS_Surjection
<1>5. s \in Injection(D, Range(t))
  BY <1>1, SMTT(30) DEF Injection, IsInjective, Range
<1>6. s \in Surjection(D, Range(t))
  <2> HIDE DEF D
  <2> QED BY <1>4, <1>5, FS_Injection
<1> QED BY <1>1, <1>6 DEF Surjection, Range

-----------------------------------------------------------------------------
(* The three kinds of steps of a measurement, and what one counts.         *)
\* The task of r ends, by whatever path.
EndStep(r) ==
    /\ task[r] \in Live
    /\ \E how \in Over : Ends(r, how)
    /\ UNCHANGED <<phase, chosen, top, results, best>>

\* A measurement begins.
BeginStep(r) ==
    /\ Enters(r)
    /\ \/ /\ task' = [task EXCEPT ![r] = "probe"]
          /\ procs' = procs \cup {r}
       \/ /\ task' = [task EXCEPT ![r] = "tcp"]
          /\ procs' = procs
    /\ dirs' = dirs \cup {r}
    /\ UNCHANGED <<phase, chosen, top, tally, ended, results, best>>

\* A measurement goes on: with its process, if it has one, as without.
GoOn(r) ==
    /\ task[r] \in Running
    /\ \E w \in Running :
         /\ task' = [task EXCEPT ![r] = w]
         /\ w \in {"probe", "socks"} <=> task[r] \in {"probe", "socks"}
         /\ w = "swallowed" => phase = "failed"
    /\ UNCHANGED <<phase, chosen, top, ended, results, best, dirs, procs>>

\* Nothing is counted, or one round of r, after which there is another or an end.
TallyStep(r) ==
    \/ tally' = tally
    \/ tally' = [tally EXCEPT ![r].alive = TRUE]
    \/ /\ task[r] \in Live
       /\ \/ tally' = [tally EXCEPT ![r].done = @ + 1]
          \/ \E a \in BOOLEAN, ms \in Latencies :
                tally' = [tally EXCEPT ![r] =
                   [alive |-> a, ok |-> @.ok + 1, ms |-> @.ms + ms, done |-> @.done + 1]]
       /\ task'[r] \in Live => tally[r].done + 1 < Rounds

\* A round ends the measurement or leaves it running.
LEMMA RoundStep ==
    ASSUME PerfInv, NEW r \in Rows, Round(r)
    PROVE  (EndStep(r) \/ GoOn(r)) /\ TallyStep(r)
<1>1. /\ task[r] \in Running /\ task[r] \in Live /\ task \in [Rows -> {"none"} \cup Live \cup Over]
      /\ task[r] = "swallowed" => phase = "failed"
      /\ tally[r].done \in 0 .. Rounds /\ tally[r].done < Rounds
  <2>1. task[r] \in Running /\ task[r] \in Live
    BY DEF Round, Running, Live
  <2>2. tally[r] \in [alive : BOOLEAN, ok : 0 .. Rounds, ms : Nat, done : 0 .. Rounds]
    BY DEF PerfInv, PerfTypeOK
  <2> QED BY <2>1, <2>2 DEF PerfInv, PerfTypeOK, Phased, Rounded
<1>2. \/ tally' = [tally EXCEPT ![r].done = @ + 1]
      \/ \E a \in BOOLEAN, ms \in Latencies :
            tally' = [tally EXCEPT ![r] =
               [alive |-> a, ok |-> @.ok + 1, ms |-> @.ms + ms, done |-> @.done + 1]]
  <2>1. (tally[r].alive \/ task[r] # "socks") \in BOOLEAN
    OBVIOUS
  <2> QED BY <2>1 DEF Round
<1>3. UNCHANGED <<phase, chosen, top, results, best>>
  BY DEF Round
<1>4. CASE tally[r].done + 1 = Rounds
  <2>1. Ends(r, "returned")
    BY <1>4 DEF Round
  <2>2. task'[r] = "returned"
    BY <1>1, <2>1 DEF Ends
  <2> QED BY <1>1, <1>2, <1>3, <2>1, <2>2 DEF EndStep, TallyStep, Over, Live, Running, Waiting
<1>5. CASE tally[r].done + 1 # Rounds
  <2>1. UNCHANGED <<task, ended, dirs, procs>>
    BY <1>5 DEF Round
  <2>2. task' = [task EXCEPT ![r] = task[r]]
    BY <1>1, <2>1
  <2>3. GoOn(r)
    BY <1>1, <1>3, <2>1, <2>2 DEF GoOn
  <2>4. tally[r].done + 1 < Rounds
    BY <1>1, <1>5
  <2> QED BY <1>1, <1>2, <2>3, <2>4 DEF TallyStep
<1> QED BY <1>4, <1>5

\* Every step of a measurement is of one of the three kinds.
LEMMA MeasureStep ==
    ASSUME PerfInv, NEW r \in Rows, Measure(r)
    PROVE  (EndStep(r) \/ BeginStep(r) \/ GoOn(r)) /\ TallyStep(r)
<1>1. CASE PortFails(r) \/ StartFails(r)
  BY <1>1 DEF PortFails, StartFails, Enters, EndStep, TallyStep, Live, Waiting, Over
<1>2. CASE PortSilent(r) \/ Cancelled(r)
  BY <1>2 DEF PortSilent, Cancelled, EndStep, TallyStep, Live, Running, Over
<1>3. CASE StartProxy(r) \/ StartLink(r)
  BY <1>3 DEF StartProxy, StartLink, BeginStep, TallyStep
<1>4. CASE PortAnswers(r) \/ Swallowed(r)
  BY <1>4 DEF PortAnswers, Swallowed, GoOn, TallyStep, Running
<1>5. CASE Round(r)
  BY <1>5, RoundStep
<1> QED BY <1>1, <1>2, <1>3, <1>4, <1>5 DEF Measure

-----------------------------------------------------------------------------
(* What the steps of a measurement keep.                                   *)

\* Types, and the number of rounds counted.
LEMMA TypesKept ==
    ASSUME PerfInv, NEW r \in Rows, EndStep(r) \/ BeginStep(r) \/ GoOn(r), TallyStep(r)
    PROVE  PerfTypeOK' /\ Rounded'
<1> USE DEF Live, Running, Waiting, Over
<1>0. PerfTypeOK /\ Rounded
  BY DEF PerfInv
<1>1. /\ UNCHANGED <<phase, chosen, top, results, best>>
      /\ task' \in [Rows -> {"none"} \cup Live \cup Over]
      /\ \A q \in Rows \ {r} : task'[q] = task[q]
      /\ task'[r] \in Live => task[r] \in Live
      /\ phase # "off"
  <2>1. task \in [Rows -> {"none"} \cup Live \cup Over] /\ task[r] \in Live
    BY <1>0 DEF PerfTypeOK, EndStep, BeginStep, GoOn, Enters
  <2>2. \E w \in Live \cup Over : task' = [task EXCEPT ![r] = w]
    BY DEF EndStep, BeginStep, GoOn, Ends
  <2>3. phase # "off"
    BY <2>1 DEF PerfInv, Phased
  <2>4. UNCHANGED <<phase, chosen, top, results, best>>
    BY DEF EndStep, BeginStep, GoOn
  <2> QED BY <2>1, <2>2, <2>3, <2>4
<1>2. /\ dirs' \in SUBSET Rows /\ procs' \in SUBSET Rows
      /\ ended' \in Seq(Rows)
  <2>1. dirs' \in SUBSET Rows /\ procs' \in SUBSET Rows
    BY <1>0 DEF EndStep, BeginStep, GoOn, Ends, PerfTypeOK
  <2>2. ended' = ended \/ ended' = Append(ended, r)
    BY DEF EndStep, BeginStep, GoOn, Ends
  <2>3. ended \in Seq(Rows)
    BY <1>0 DEF PerfTypeOK
  <2> QED BY <2>1, <2>2, <2>3, AppendFact
<1>3. /\ tally' \in [Rows -> [alive : BOOLEAN, ok : 0 .. Rounds, ms : Nat, done : 0 .. Rounds]]
      /\ Rounded'
  <2> DEFINE T == [alive : BOOLEAN, ok : 0 .. Rounds, ms : Nat, done : 0 .. Rounds]
  <2>0. tally \in [Rows -> T] /\ tally[r] \in T /\ Rounded
    BY <1>0 DEF PerfTypeOK
  <2>q. ASSUME NEW t \in T, tally' = [tally EXCEPT ![r] = t], t.ok <= t.done,
               task'[r] \in Live => t.done < Rounds
        PROVE  tally' \in [Rows -> T] /\ Rounded'
    <3>1. tally'[r] = t /\ \A q \in Rows \ {r} : tally'[q] = tally[q]
      BY <2>0, <2>q
    <3>2. \A q \in Rows : tally'[q].ok <= tally'[q].done
      BY <2>0, <2>q, <3>1 DEF Rounded
    <3>3. \A q \in Rows : task'[q] \in Live => tally'[q].done < Rounds
      BY <1>1, <2>0, <2>q, <3>1 DEF Rounded
    <3> QED BY <1>1, <2>0, <2>q, <3>2, <3>3 DEF Rounded
  <2>1. CASE tally' = tally
    BY <1>0, <1>1, <2>1 DEF PerfTypeOK, Rounded
  <2>2. CASE tally' = [tally EXCEPT ![r].alive = TRUE]
    <3> DEFINE t == [tally[r] EXCEPT !.alive = TRUE]
    <3>1. t \in T /\ t.ok = tally[r].ok /\ t.done = tally[r].done
      BY <2>0
    <3>2. tally' = [tally EXCEPT ![r] = t]
      BY <2>0, <2>2
    <3>3. t.ok <= t.done /\ (task'[r] \in Live => t.done < Rounds)
      BY <1>1, <2>0, <3>1 DEF Rounded
    <3> HIDE DEF t
    <3> QED BY <2>q, <3>1, <3>2, <3>3
  <2>3. CASE /\ task[r] \in Live /\ tally' = [tally EXCEPT ![r].done = @ + 1]
             /\ task'[r] \in Live => tally[r].done + 1 < Rounds
    <3> DEFINE t == [tally[r] EXCEPT !.done = tally[r].done + 1]
    <3>0. tally[r].done < Rounds /\ tally[r].ok <= tally[r].done
      BY <2>0, <2>3 DEF Rounded
    <3>1. t \in T /\ t.ok = tally[r].ok /\ t.done = tally[r].done + 1
      BY <2>0, <3>0
    <3>2. tally' = [tally EXCEPT ![r] = t]
      BY <2>0, <2>3
    <3>3. t.ok <= t.done /\ (task'[r] \in Live => t.done < Rounds)
      BY <2>0, <2>3, <3>0, <3>1
    <3> HIDE DEF t
    <3> QED BY <2>q, <3>1, <3>2, <3>3
  <2>4. ASSUME task[r] \in Live, NEW a \in BOOLEAN, NEW ms \in Latencies,
               tally' = [tally EXCEPT ![r] = [alive |-> a, ok |-> @.ok + 1, ms |-> @.ms + ms, done |-> @.done + 1]],
               task'[r] \in Live => tally[r].done + 1 < Rounds
        PROVE  tally' \in [Rows -> T] /\ Rounded'
    <3> DEFINE t == [alive |-> a, ok |-> tally[r].ok + 1, ms |-> tally[r].ms + ms, done |-> tally[r].done + 1]
    <3>0. tally[r].done < Rounds /\ tally[r].ok <= tally[r].done
      BY <2>0, <2>4 DEF Rounded
    <3>1. t \in T /\ t.ok = tally[r].ok + 1 /\ t.done = tally[r].done + 1
      <4>1. /\ tally[r].ok \in 0 .. Rounds /\ tally[r].ms \in Nat /\ tally[r].done \in 0 .. Rounds
            /\ ms \in Nat
        BY <2>0
      <4>2. tally[r].ok + 1 \in 0 .. Rounds /\ tally[r].ms + ms \in Nat /\ tally[r].done + 1 \in 0 .. Rounds
        BY <3>0, <4>1
      <4> QED BY <4>2
    <3>2. tally' = [tally EXCEPT ![r] = t]
      BY <2>0, <2>4
    <3>3. t.ok <= t.done /\ (task'[r] \in Live => t.done < Rounds)
      BY <2>0, <2>4, <3>0, <3>1
    <3> HIDE DEF t
    <3> QED BY <2>q, <3>1, <3>2, <3>3
  <2> QED BY <2>1, <2>2, <2>3, <2>4 DEF TallyStep
<1> QED BY <1>0, <1>1, <1>2, <1>3 DEF PerfTypeOK

\* The directory and the process go with the measurement.
LEMMA LeftoversKept ==
    ASSUME PerfInv, NEW r \in Rows, EndStep(r) \/ BeginStep(r) \/ GoOn(r)
    PROVE  NoLeftovers'
<1> USE DEF Live, Running, Waiting, Over
<1>0. /\ task \in [Rows -> {"none"} \cup Live \cup Over]
      /\ dirs = In(Running) /\ procs = In({"probe", "socks"})
      /\ Cardinality(In(Running)) <= MaxConcurrency
      /\ IsFiniteSet(In(Running))
  BY FS_Subset DEF PerfInv, PerfTypeOK, NoLeftovers, In
<1>1. CASE EndStep(r)
  <2>1. In(Running)' = In(Running) \ {r} /\ In({"probe", "socks"})' = In({"probe", "socks"}) \ {r}
    BY <1>0, <1>1 DEF EndStep, Ends, In
  <2>2. dirs' = dirs \ {r} /\ procs' = procs \ {r}
    BY <1>1 DEF EndStep, Ends
  <2>3. Cardinality(In(Running) \ {r}) <= Cardinality(In(Running))
    BY <1>0, FS_Subset
  <2>4. Cardinality(In(Running) \ {r}) \in Nat /\ Cardinality(In(Running)) \in Nat
    BY <1>0, FS_CardinalityType, FS_RemoveElement
  <2> QED BY <1>0, <2>1, <2>2, <2>3, <2>4 DEF NoLeftovers
<1>2. CASE BeginStep(r)
  <2>1. In(Running)' = In(Running) \cup {r} /\ dirs' = dirs \cup {r}
    BY <1>0, <1>2 DEF BeginStep, Enters, In
  <2>2. procs' = In({"probe", "socks"})'
    BY <1>0, <1>2 DEF BeginStep, Enters, In
  <2>3. Cardinality(In(Running)) < MaxConcurrency /\ Cardinality(In(Running)) \in Nat
    BY <1>0, <1>2, FS_CardinalityType DEF BeginStep, Enters
  <2>4. Cardinality(In(Running) \cup {r}) <= MaxConcurrency
    <3> DEFINE S == In(Running)
    <3>1. IsFiniteSet(S) /\ Cardinality(S) \in Nat /\ Cardinality(S) < MaxConcurrency
      BY <1>0, <2>3
    <3> HIDE DEF S
    <3>2. Cardinality(S \cup {r}) = IF r \in S THEN Cardinality(S) ELSE Cardinality(S) + 1
      BY <3>1, FS_AddElement
    <3>3. MaxConcurrency \in Nat
      OBVIOUS
    <3>4. Cardinality(S \cup {r}) <= MaxConcurrency
      BY <3>1, <3>2, <3>3
    <3> QED BY <3>4 DEF S
  <2> QED BY <1>0, <2>1, <2>2, <2>4 DEF NoLeftovers
<1>3. CASE GoOn(r)
  <2>1. In(Running)' = In(Running) /\ In({"probe", "socks"})' = In({"probe", "socks"})
    BY <1>0, <1>3 DEF GoOn, In
  <2> QED BY <1>0, <1>3, <2>1 DEF NoLeftovers, GoOn
<1> QED BY <1>1, <1>2, <1>3

\* A task that ends goes from the live ones to those to be collected.
LEMMA OnceKept ==
    ASSUME PerfInv, NEW r \in Rows, EndStep(r) \/ BeginStep(r) \/ GoOn(r)
    PROVE  Phased' /\ EachRowOnce'
<1> USE DEF Live, Running, Waiting, Over
<1>0. /\ task \in [Rows -> {"none"} \cup Live \cup Over] /\ ended \in Seq(Rows)
      /\ Phased /\ EachRowOnce
      /\ UNCHANGED <<phase, chosen, results>>
      /\ \A q \in Rows \ {r} : task'[q] = task[q]
      /\ phase # "off" /\ task[r] \in Live
  BY DEF PerfInv, PerfTypeOK, EndStep, BeginStep, GoOn, Ends, Enters, Phased
<1>1. CASE EndStep(r) /\ phase = "collect"
  <2>1. /\ ended' = Append(ended, r) /\ task'[r] \notin Live
        /\ In(Live)' = In(Live) \ {r} /\ r \in In(Live)
    BY <1>0, <1>1 DEF EndStep, Ends, In
  <2>2. r \in Range(chosen) /\ r \notin Range(ended) /\ r \notin Range(results)
    BY <1>0, <1>1, <2>1 DEF EachRowOnce
  <2>3. Range(ended') = Range(ended) \cup {r} /\ IsInjective(ended')
    BY <1>0, <2>1, <2>2, AppendFact DEF EachRowOnce
  <2>4. EachRowOnce'
    BY <1>0, <1>1, <2>1, <2>2, <2>3 DEF EachRowOnce
  <2>5. Phased'
    <3>1. (Range(ended) \cup Range(results) \subseteq Range(chosen))'
      BY <1>0, <1>1, <2>2, <2>3 DEF Phased
    <3>2. \A q \in Rows : task'[q] = "swallowed" => phase' = "failed"
      BY <1>0, <2>1 DEF Phased
    <3> QED BY <1>0, <1>1, <3>1, <3>2 DEF Phased
  <2> QED BY <2>4, <2>5
<1>2. CASE EndStep(r) /\ phase # "collect"
  <2>1. ended' = ended /\ task'[r] \in Over
    BY <1>0, <1>2 DEF EndStep, Ends
  <2> QED BY <1>0, <1>2, <2>1 DEF EachRowOnce, Phased
<1>3. CASE BeginStep(r) \/ GoOn(r)
  <2>1. /\ ended' = ended /\ In(Live)' = In(Live)
        /\ task'[r] \in Running
        /\ task'[r] = "swallowed" => phase = "failed"
    BY <1>0, <1>3 DEF BeginStep, Enters, GoOn, In
  <2>2. EachRowOnce'
    BY <1>0, <2>1 DEF EachRowOnce
  <2>3. phase # "done"
    BY <1>0 DEF Phased
  <2>4. phase = "failed" => ended' = << >> /\ \A q \in Rows : task'[q] # "waiting"
    BY <1>0, <2>1 DEF Phased
  <2>5. \A q \in Rows : task'[q] = "swallowed" => phase = "failed"
    BY <1>0, <2>1 DEF Phased
  <2>6. Phased'
    BY <1>0, <2>1, <2>3, <2>4, <2>5 DEF Phased
  <2> QED BY <2>2, <2>6
<1> QED BY <1>1, <1>2, <1>3

-----------------------------------------------------------------------------
(* The steps of the evaluation itself.                                     *)

\* A result is taken from those to be collected; the last one ends it all.
LEMMA CollectKept ==
    ASSUME PerfInv, Collect
    PROVE  PerfInv'
<1> DEFINE r == Head(ended)
<1>0. /\ phase = "collect" /\ task[r] = "returned" /\ ended # << >>
      /\ results' = Append(results, r) /\ ended' = Tail(ended)
      /\ UNCHANGED <<chosen, top, task, tally, dirs, procs>>
      /\ ended \in Seq(Rows) /\ results \in Seq(Rows) /\ chosen \in Seq(Rows)
      /\ PerfTypeOK /\ Rounded /\ Phased /\ NoLeftovers /\ EachRowOnce
      /\ phase' = IF Len(results') = Len(chosen) THEN "done" ELSE "collect"
  BY DEF PerfInv, PerfTypeOK, Collect
<1>1. /\ r \in Rows /\ r \in Range(ended) /\ ended' \in Seq(Rows)
      /\ Range(ended) = Range(ended') \cup {r}
      /\ IsInjective(ended') /\ r \notin Range(ended')
  BY <1>0, TailFact DEF EachRowOnce
<1>2. r \notin Range(results)
  BY <1>0, <1>1 DEF EachRowOnce
<1>3. /\ results' \in Seq(Rows) /\ IsInjective(results')
      /\ Range(results') = Range(results) \cup {r}
  BY <1>0, <1>1, <1>2, AppendFact DEF EachRowOnce
<1>4. /\ Range(ended') \cap Range(results') = {}
      /\ Range(ended') \cup Range(results') = Range(ended) \cup Range(results)
      /\ Range(ended) \cup Range(results) \subseteq Range(chosen)
      /\ Range(chosen) \ (Range(ended) \cup Range(results)) = In(Live)
  BY <1>0, <1>1, <1>2, <1>3 DEF EachRowOnce, Phased
<1>5. PerfTypeOK' /\ Rounded' /\ NoLeftovers'
  BY <1>0, <1>1, <1>3 DEF PerfTypeOK, Rounded, NoLeftovers, In
<1>6. CASE Len(results') = Len(chosen)
  <2>1. IsInjective(chosen) /\ Range(results') \subseteq Range(chosen)
    BY <1>0, <1>4 DEF Phased
  <2>2. Range(results') = Range(chosen)
    BY <1>0, <1>3, <1>6, <2>1, SameRange
  <2>3. In(Live) = {} /\ Range(ended') = {}
    BY <1>4, <2>2
  <2>4. ended' = << >>
    BY <1>1, <2>3, TailFact
  <2>5. \A q \in Rows : task[q] \notin Live
    BY <2>3 DEF In
  <2>6. Phased'
    <3>1. \A q \in Rows : task[q] # "waiting" /\ task[q] # "swallowed"
      BY <2>5 DEF Live, Waiting, Running
    <3> QED BY <1>0, <1>6, <2>1, <2>4, <2>5, <3>1 DEF Phased
  <2> QED BY <1>0, <1>1, <1>3, <1>4, <1>5, <1>6, <2>2, <2>6 DEF EachRowOnce, PerfInv
<1>7. CASE Len(results') # Len(chosen)
  <2>1. phase' = "collect" /\ In(Live)' = In(Live)
    BY <1>0, <1>7 DEF In
  <2>2. EachRowOnce'
    BY <1>0, <1>1, <1>3, <1>4, <2>1 DEF EachRowOnce
  <2>3. Phased'
    BY <1>0, <1>4, <2>1 DEF Phased
  <2> QED BY <1>5, <2>2, <2>3 DEF PerfInv
<1> QED BY <1>6, <1>7

\* A task that raised ends the collection, and those that had not entered.
LEMMA CollectRaisesKept ==
    ASSUME PerfInv, CollectRaises
    PROVE  PerfInv' /\ In(Running)' = In(Running)
<1> USE DEF Live, Running, Waiting, Over
<1>0. /\ phase = "collect" /\ phase' = "failed" /\ ended' = << >>
      /\ task' = [r \in Rows |-> IF task[r] = "waiting" THEN "cancelled" ELSE task[r]]
      /\ UNCHANGED <<chosen, top, tally, results, best, dirs, procs>>
      /\ PerfTypeOK /\ Rounded /\ Phased /\ NoLeftovers /\ EachRowOnce
  BY DEF PerfInv, CollectRaises
<1>1. In(Running)' = In(Running) /\ In({"probe", "socks"})' = In({"probe", "socks"})
  BY <1>0 DEF In
<1>2. /\ ended' \in Seq(Rows) /\ IsInjective(ended') /\ Range(ended') = {}
  BY <1>0 DEF IsInjective, Range
<1>3. PerfTypeOK'
  BY <1>0, <1>2 DEF PerfTypeOK
<1>4. Rounded' /\ NoLeftovers'
  BY <1>0, <1>1 DEF Rounded, NoLeftovers
<1>5. EachRowOnce'
  BY <1>0, <1>2 DEF EachRowOnce
<1>6. Phased'
  BY <1>0 DEF Phased
<1> QED BY <1>1, <1>3, <1>4, <1>5, <1>6 DEF PerfInv

\* The state without an evaluation.
LEMMA EmptyInv ==
    ASSUME PerfInit
    PROVE  PerfInv
<1> USE DEF PerfInit, Live, Running, Waiting, Over
<1>1. PerfTypeOK
  BY DEF PerfTypeOK, NoTally
<1>2. Rounded /\ Phased
  BY DEF Rounded, Phased, NoTally, IsInjective
<1>3. NoLeftovers
  <2>1. In(Running) = {} /\ In({"probe", "socks"}) = {}
    BY DEF In
  <2>2. Cardinality(In(Running)) = 0 /\ MaxConcurrency \in Nat
    BY <2>1, FS_EmptySet
  <2>3. dirs = {} /\ procs = {}
    OBVIOUS
  <2>4. Cardinality(In(Running)) <= MaxConcurrency
    BY <2>2
  <2> QED BY <2>1, <2>3, <2>4 DEF NoLeftovers
<1>4. EachRowOnce
  BY DEF EachRowOnce, IsInjective, Range
<1> QED BY <1>1, <1>2, <1>3, <1>4 DEF PerfInv

LEMMA GoneKept ==
    ASSUME Gone
    PROVE  PerfInv'
<1>1. PerfInit'
  BY DEF Gone, PerfInit
<1> QED BY <1>1, EmptyInv, PTL

-----------------------------------------------------------------------------
(* Exports.                                                                *)

\* The elements of a set in some order, each once.
LEMMA Permutation ==
    ASSUME NEW S, IsFiniteSet(S), NEW p \in SetToSeqs(S)
    PROVE  p \in Seq(S) /\ IsInjective(p)
<1> DEFINE c == Cardinality(S)
<1>1. c \in Nat
  BY FS_CardinalityType
<1>2. p \in [1 .. c -> S] /\ \A i, j \in 1 .. c : i # j => p[i] # p[j]
  BY DEF SetToSeqs
<1> HIDE DEF c
<1> QED BY <1>1, <1>2 DEF IsInjective

\* The rows of a query come once each.
LEMMA NewestOnce ==
    ASSUME NEW R \in SUBSET Rows, NEW n \in Nat, NEW q \in NewestFirst(R, n)
    PROVE  q \in Seq(R) /\ q \in Seq(Rows) /\ IsInjective(q)
<1>1. PICK p \in SetToSeqs(R) : q = SubSeq(p, 1, Least(n, Len(p)))
  BY DEF NewestFirst
<1>2. IsFiniteSet(R)
  BY FS_Subset
<1>3. p \in Seq(R) /\ IsInjective(p)
  BY <1>1, <1>2, Permutation
<1> DEFINE c == Len(p)
           m == Least(n, c)
<1>4. c \in Nat /\ m \in 0 .. c /\ DOMAIN p = 1 .. c
  BY <1>3 DEF Least
<1> HIDE DEF m
<1>5. q \in Seq(R) /\ Len(q) = m /\ \A i \in 1 .. m : q[i] = p[i]
  <2>1. q = SubSeq(p, 1, m)
    BY <1>1 DEF m
  <2> QED BY <1>3, <1>4, <2>1
<1>6. 1 .. m \subseteq 1 .. c /\ DOMAIN q = 1 .. m
  BY <1>4, <1>5
<1>7. IsInjective(q)
  BY <1>3, <1>4, <1>5, <1>6 DEF IsInjective
<1>8. q \in Seq(Rows)
  BY <1>5
<1> QED BY <1>5, <1>7, <1>8

\* The rows of an evaluation get a task each.
LEMMA EvaluateKept ==
    ASSUME PerfInv, NEW rows \in Seq(Rows), IsInjective(rows), NEW n \in Nat, Evaluate(rows, n)
    PROVE  PerfInv'
<1> USE DEF Live, Running, Waiting, Over
<1>0. /\ phase = "off" /\ phase' = "collect" /\ chosen' = rows /\ top' = n
      /\ task' = [r \in Rows |-> IF r \in Range(rows) THEN "waiting" ELSE "none"]
      /\ UNCHANGED <<tally, ended, results, best, dirs, procs>>
      /\ PerfTypeOK /\ Rounded /\ Phased /\ NoLeftovers /\ EachRowOnce
  BY DEF PerfInv, Evaluate
<1>1. /\ ended = << >> /\ results = << >> /\ \A r \in Rows : task[r] = "none"
      /\ \A r \in Rows : tally[r].done = 0
      /\ Range(rows) \subseteq Rows
  BY <1>0 DEF Phased, Rounded, Range
<1>2. PerfTypeOK'
  BY <1>0 DEF PerfTypeOK
<1>3. In(Running)' = In(Running) /\ In({"probe", "socks"})' = In({"probe", "socks"})
      /\ In(Live)' = Range(rows)
  BY <1>0, <1>1 DEF In
<1>4. Rounded' /\ NoLeftovers'
  BY <1>0, <1>1, <1>3 DEF Rounded, NoLeftovers
<1>5. Range(ended) = {} /\ Range(results) = {}
  BY <1>1 DEF Range
<1>6. EachRowOnce'
  BY <1>0, <1>3, <1>5 DEF EachRowOnce
<1>7. Phased'
  BY <1>0, <1>5 DEF Phased
<1> QED BY <1>2, <1>4, <1>6, <1>7 DEF PerfInv

(* The inductive invariant: that of the evaluation, with what it returned, *)
(* and what is promised of the export that is being sent.                  *)
ExportsInv == PerfInv /\ BestInv /\ saved \in 0 .. Len(Incoming) /\ CleanHostsOnly /\ EvenRotation

\* Before the first export, and after each, none is being sent.
LEMMA NothingSent == clean = NoExport => CleanHostsOnly /\ EvenRotation
<1> SUFFICES ASSUME clean = NoExport PROVE CleanHostsOnly /\ EvenRotation
  OBVIOUS
<1>1. clean.ips = << >> /\ clean.base = << >> /\ clean.count = 0 /\ clean.lines = << >>
  BY DEF NoExport
<1>2. Range(<< >>) = {}
  BY DEF Range
<1>3. CleanHostsOnly
  BY <1>1, <1>2 DEF CleanHostsOnly
<1>4. EvenRotation
  BY <1>1, <1>2 DEF EvenRotation
<1> QED BY <1>3, <1>4

LEMMA InvInit == Init => ExportsInv
<1> SUFFICES ASSUME Init PROVE ExportsInv
  OBVIOUS
<1>1. Len(Incoming) \in Nat
  BY ExportsAssumption
<1>2. BestInv
  BY DEF Init, PerfInit, BestInv
<1> QED BY <1>1, <1>2, EmptyInv, NothingSent DEF Init, ExportsInv

\* The export of the second answer is one of those that RotationFact is about.
LEMMA CleanMade ==
    ASSUME saved \in 0 .. Len(Incoming), NEW count \in Counts, AnswerIpCount(count)
    PROVE  CleanHostsOnly' /\ EvenRotation'
<1>0. count \in Nat \ {0} /\ Table \in SUBSET Rows /\ IsFiniteSet(Ips)
  BY ExportsAssumption DEF Table
<1> DEFINE Made(ips, base) ==
      clean' = [ips |-> ips, base |-> base, count |-> count, lines |->
                  Select(All(ips, base, count), {p \in DOMAIN All(ips, base, count) :
                     detect_protocol(All(ips, base, count)[p]) # "trojan"})]
<1>a. PICK ips \in SetToAllKPermutations(Ips) \ {<< >>}, k \in 0 .. saved :
        \E base \in NewestFirst(Base(ips, k), count) \ {<< >>} : Made(ips, base)
  BY DEF AnswerIpCount, All
<1>1. PICK base \in NewestFirst(Base(ips, k), count) \ {<< >>} : Made(ips, base)
  BY <1>a
<1> DEFINE lines == Select(All(ips, base, count), {p \in DOMAIN All(ips, base, count) :
                             detect_protocol(All(ips, base, count)[p]) # "trojan"})
<1>2. ips \in Seq(Ips) /\ IsInjective(ips)
  <2>1. PICK S \in SUBSET Ips : ips \in SetToSeqs(S)
    BY <1>a DEF SetToAllKPermutations
  <2>2. IsFiniteSet(S)
    BY <1>0, FS_Subset
  <2>3. ips \in Seq(S) /\ IsInjective(ips)
    BY <2>1, <2>2, Permutation
  <2> QED BY <2>3
<1>3. base \in Seq(Base(ips, k)) /\ base \in Seq(Rows) /\ base # << >>
  <2>1. Base(ips, k) \in SUBSET Rows /\ count \in Nat
    BY <1>0 DEF Base
  <2> QED BY <1>1, <2>1, NewestOnce
<1>4. \A r \in Range(base) : detect_protocol(Text[r]) # "trojan" /\ Host[r] # NoHost
  BY <1>3 DEF Base, Range
<1>5. Exported(ips, base, count, lines)
  BY <1>0, <1>2, <1>3, <1>4 DEF Exported
<1>6. clean'.ips = ips /\ clean'.base = base /\ clean'.count = count /\ clean'.lines = lines
  BY <1>1
<1> HIDE DEF lines
<1>7. CleanHostsOnly'
  BY <1>5, <1>6, CleanFact DEF CleanHostsOnly
<1>8. Len(lines) = Len(ips) * count
  BY <1>5, LinesFact DEF Laid
<1>9. \A ip \in Range(ips), r \in Range(base) :
        Replaceable(Text[r]) => Evenly(base, count, lines, ip, r)
  BY <1>5, RotationFact
<1>10. EvenRotation'
  BY <1>6, <1>8, <1>9 DEF EvenRotation, Uses, Twins, Evenly
<1> QED BY <1>7, <1>10

\* The results, once sorted, stay as they are until they are forgotten.
LEMMA BestKept ==
    ASSUME PerfInv, BestInv, [Next]_vars
    PROVE  BestInv'
<1>1. CASE UNCHANGED perfVars
  <2>1. (TopOf(results))' = TopOf(results)
    BY <1>1 DEF perfVars, TopOf, Place, Ahead
  <2> QED BY <1>1, <2>1 DEF BestInv, perfVars
<1>2. ASSUME NEW r \in Rows, Measure(r) PROVE BestInv'
  <2>1. phase # "done" /\ phase' = phase
    BY <1>2, MeasureStep DEF EndStep, BeginStep, GoOn, Enters, PerfInv, Phased, Live, Waiting, Running
  <2> QED BY <2>1 DEF BestInv
<1>3. CASE Collect
  <2>1. CASE Len(results') = Len(chosen)
    <3>1. best' = TopOf(results') /\ UNCHANGED <<tally, top>>
      BY <1>3, <2>1 DEF Collect
    <3>2. (TopOf(results))' = TopOf(results')
      BY <3>1 DEF TopOf, Place, Ahead
    <3> QED BY <3>1, <3>2 DEF BestInv
  <2>2. CASE Len(results') # Len(chosen)
    BY <1>3, <2>2 DEF Collect, BestInv
  <2> QED BY <2>1, <2>2
<1>4. CASE CollectRaises \/ Forget \/ Crash \/ \E n \in TopCounts : AnswerPerfCount(n)
  BY <1>4 DEF CollectRaises, Forget, Crash, Gone, AnswerPerfCount, Evaluate, BestInv
<1> QED BY <1>1, <1>2, <1>3, <1>4 DEF Next, vars, Evaluation, Save, CleanSent, AnswerIpCount

\* An export is made by its answer, sent, and lost by a crash.
LEMMA CleanKept ==
    ASSUME ExportsInv, [Next]_vars
    PROVE  CleanHostsOnly' /\ EvenRotation'
<1>0. CleanHostsOnly /\ EvenRotation /\ saved \in 0 .. Len(Incoming)
  BY DEF ExportsInv
<1>1. CASE clean' = clean
  <2>1. \A ip, r : Uses(ip, r)' = Uses(ip, r) /\ Twins(ip, r)' = Twins(ip, r)
    BY <1>1 DEF Uses, Twins
  <2>2. CleanHostsOnly'
    BY <1>0, <1>1 DEF CleanHostsOnly
  <2>3. EvenRotation'
    BY <1>0, <1>1, <2>1 DEF EvenRotation
  <2> QED BY <2>2, <2>3
<1>2. CASE clean' = NoExport
  <2>1. clean'.ips = << >> /\ clean'.base = << >> /\ clean'.count = 0 /\ clean'.lines = << >>
    BY <1>2 DEF NoExport
  <2>2. Range(<< >>) = {}
    BY DEF Range
  <2>3. CleanHostsOnly'
    BY <2>1, <2>2 DEF CleanHostsOnly
  <2>4. EvenRotation'
    BY <2>1, <2>2 DEF EvenRotation
  <2> QED BY <2>3, <2>4
<1>3. ASSUME NEW count \in Counts, AnswerIpCount(count) PROVE CleanHostsOnly' /\ EvenRotation'
  BY <1>0, <1>3, CleanMade
<1> QED BY <1>1, <1>2, <1>3 DEF Next, vars, Evaluation, Save, CleanSent, Crash, AnswerPerfCount

LEMMA MeasureKept ==
    ASSUME PerfInv, NEW r \in Rows, Measure(r)
    PROVE  PerfInv'
BY MeasureStep, TypesKept, LeftoversKept, OnceKept DEF PerfInv

\* What does not concern the evaluation.
LEMMA PerfUnchanged ==
    ASSUME PerfInv, UNCHANGED perfVars
    PROVE  PerfInv'
BY DEF perfVars, PerfInv, PerfTypeOK, Rounded, Phased, NoLeftovers, EachRowOnce, In

LEMMA PerfNext == ExportsInv /\ [Next]_vars => PerfInv' /\ saved' \in 0 .. Len(Incoming)
<1> SUFFICES ASSUME ExportsInv, [Next]_vars PROVE PerfInv' /\ saved' \in 0 .. Len(Incoming)
  OBVIOUS
<1>0. PerfInv /\ saved \in 0 .. Len(Incoming) /\ Len(Incoming) \in Nat
  BY ExportsAssumption DEF ExportsInv
<1>1. CASE Save
  BY <1>0, <1>1, PerfUnchanged DEF Save
<1>2. CASE CleanSent \/ UNCHANGED vars
  BY <1>0, <1>2, PerfUnchanged DEF CleanSent, vars
<1>3. CASE Crash
  BY <1>0, <1>3, GoneKept DEF Crash
<1>4. CASE \E count \in Counts : AnswerIpCount(count)
  BY <1>0, <1>4, PerfUnchanged DEF AnswerIpCount
<1>5. ASSUME NEW n \in TopCounts, AnswerPerfCount(n) PROVE PerfInv' /\ saved' = saved
  <2>1. Table \in SUBSET Rows /\ n \in Nat /\ RowLimit \in Nat
    BY <1>0, ExportsAssumption DEF Table
  <2>2. PICK rows \in NewestFirst(Table, RowLimit) : Evaluate(rows, n)
    BY <1>5 DEF AnswerPerfCount
  <2>3. rows \in Seq(Rows) /\ IsInjective(rows)
    BY <2>1, NewestOnce
  <2>4. PerfInv'
    BY <1>0, <2>1, <2>2, <2>3, EvaluateKept
  <2> QED BY <1>5, <2>4 DEF AnswerPerfCount
<1>6. CASE Evaluation
  <2>1. CASE Forget
    BY <1>0, <1>6, <2>1, GoneKept DEF Forget, Evaluation
  <2> QED BY <1>0, <1>6, <2>1, CollectKept, CollectRaisesKept, MeasureKept DEF Evaluation
<1> QED BY <1>0, <1>1, <1>2, <1>3, <1>4, <1>5, <1>6 DEF Next

LEMMA InvNext == ExportsInv /\ [Next]_vars => ExportsInv'
<1> SUFFICES ASSUME ExportsInv, [Next]_vars PROVE ExportsInv'
  OBVIOUS
<1>1. PerfInv' /\ saved' \in 0 .. Len(Incoming)
  BY PerfNext
<1>2. BestInv'
  BY BestKept DEF ExportsInv
<1>3. CleanHostsOnly' /\ EvenRotation'
  BY CleanKept
<1>4. Len(Incoming)' = Len(Incoming)
  OBVIOUS
<1> QED BY <1>1, <1>2, <1>3, <1>4 DEF ExportsInv

(* In every state of every evaluation tasks, results, directories and      *)
(* processes agree (white_configs_perf_tester.py:374-445).                 *)
THEOREM ExportsInvariant == Spec => []PerfInv
<1>1. ExportsInv => PerfInv
  BY DEF ExportsInv
<1> QED BY <1>1, InvInit, InvNext, PTL DEF Spec

(* No directory and no process is left by a measurement that has ended,    *)
(* and there are never more than the semaphore has places (365-371).       *)
THEOREM MeasurementsCleanUp == Spec => []NoLeftovers
<1>1. PerfInv => NoLeftovers
  BY DEF PerfInv
<1> QED BY <1>1, ExportsInvariant, PTL

(* No row is lost on its way from its task to the results and none comes   *)
(* twice; what is sorted are the results of all of them (411-415).         *)
THEOREM ResultsOfAll == Spec => []EachRowOnce
<1>1. PerfInv => EachRowOnce
  BY DEF PerfInv
<1> QED BY <1>1, ExportsInvariant, PTL

(* The exported report has the best of the configs that are alive, as many *)
(* as were asked for or there are, the best first                          *)
(* (white_configs_perf_tester.py:443-445, admin.py:782).                   *)
THEOREM ReportOfTheBest == Spec => []ReportIsBest
<1>1. ExportsInv => ReportIsBest
  BY BestReported DEF ExportsInv
<1> QED BY <1>1, InvInit, InvNext, PTL DEF Spec

(* Whatever texts and hosts the table holds, the second file has no trojan *)
(* link and no server but the clean IPs, lossy vmess links apart           *)
(* (admin.py:887-900, ip_manager.py:139, 189).                             *)
THEOREM CleanLinesOnly == Spec => []CleanHostsOnly
<1>1. ExportsInv => CleanHostsOnly
  BY DEF ExportsInv
<1> QED BY <1>1, InvInit, InvNext, PTL DEF Spec

(* For any number of IPs, base configs and lines for each IP the lines are *)
(* dealt out evenly (ip_manager.py:182-192).                               *)
THEOREM RotationIsEven == Spec => []EvenRotation
<1>1. ExportsInv => EvenRotation
  BY DEF ExportsInv
<1> QED BY <1>1, InvInit, InvNext, PTL DEF Spec

(* Once one measurement has raised no other is begun (416-420).            *)
THEOREM FailureIsFinal == Spec => NothingStartsAfterFailure
<1> DEFINE A == phase = "failed" => In(Running)' \subseteq In(Running)
<1>1. ASSUME ExportsInv, [Next]_vars PROVE [A]_perfVars
  <2>0. PerfInv
    BY <1>1 DEF ExportsInv
  <2> SUFFICES ASSUME phase = "failed", perfVars' # perfVars PROVE In(Running)' \subseteq In(Running)
    OBVIOUS
  <2>1. ASSUME NEW r \in Rows, Measure(r) PROVE In(Running)' \subseteq In(Running)
    <3>0. task \in [Rows -> {"none"} \cup Live \cup Over] /\ task[r] # "waiting"
      BY <2>0 DEF PerfInv, PerfTypeOK, Phased
    <3>1. EndStep(r) \/ GoOn(r)
      BY <2>0, <2>1, <3>0, MeasureStep DEF BeginStep, Enters
    <3> QED BY <3>0, <3>1 DEF EndStep, GoOn, Ends, In, Over, Live, Running, Waiting
  <2>2. CASE Forget \/ Crash
    BY <2>2 DEF Forget, Crash, Gone, In, Running
  <2> QED BY <1>1, <2>1, <2>2 DEF Next, vars, Evaluation, Collect, CollectRaises, Evaluate,
          Save, CleanSent, AnswerIpCount, AnswerPerfCount
<1>2. Spec => []ExportsInv
  BY InvInit, InvNext, PTL DEF Spec
<1>3. Spec => [][A]_perfVars
  BY <1>1, <1>2, PTL DEF Spec
<1> QED BY <1>3 DEF NothingStartsAfterFailure

(* The score never prefers the worse of two servers: one with more         *)
(* successful rounds, of a total time that is no longer for each of them,  *)
(* has no smaller score, and one that is not alive has the least of all    *)
(* (white_configs_perf_tester.py:95-118).                                  *)
THEOREM ScoreMonotone ==
    ASSUME NEW a \in [alive : BOOLEAN, ok : 0 .. 3, ms : Nat, done : Nat],
           NEW b \in [alive : BOOLEAN, ok : 0 .. 3, ms : Nat, done : Nat],
           b.alive => a.alive, b.ok <= a.ok, a.ms * b.ok <= b.ms * a.ok
    PROVE  Score(b) <= Score(a)
<1>0. /\ a.ok \in 0 .. 3 /\ b.ok \in 0 .. 3 /\ a.ms \in Nat /\ b.ms \in Nat
      /\ a.alive \in BOOLEAN /\ b.alive \in BOOLEAN
  OBVIOUS
<1>1. ASSUME NEW x \in 0 .. 3, NEW y \in 0 .. 3, NEW v \in Nat, NEW w \in Nat,
             y <= x, v * y <= w * x
      PROVE  TtfbScore(y, w) <= TtfbScore(x, v) /\ TtfbScore(x, v) \in 10 .. 100
  <2>1. y = 0 \/ (y = 1 /\ x = 1) \/ (y = 1 /\ x = 2) \/ (y = 1 /\ x = 3)
        \/ (y = 2 /\ x = 2) \/ (y = 2 /\ x = 3) \/ (y = 3 /\ x = 3)
    BY <1>1
  <2>2. TtfbScore(x, v) \in 10 .. 100
    BY DEF TtfbScore
  <2>3. CASE y = 0
    BY <2>2, <2>3 DEF TtfbScore
  <2>4. CASE y = 1 /\ x = 1
    BY <1>1, <2>4 DEF TtfbScore
  <2>5. CASE y = 1 /\ x = 2
    BY <1>1, <2>5 DEF TtfbScore
  <2>6. CASE y = 1 /\ x = 3
    BY <1>1, <2>6 DEF TtfbScore
  <2>7. CASE y = 2 /\ x = 2
    BY <1>1, <2>7 DEF TtfbScore
  <2>8. CASE y = 2 /\ x = 3
    BY <1>1, <2>8 DEF TtfbScore
  <2>9. CASE y = 3 /\ x = 3
    BY <1>1, <2>9 DEF TtfbScore
  <2> QED BY <2>1, <2>2, <2>3, <2>4, <2>5, <2>6, <2>7, <2>8, <2>9
<1>2. TtfbScore(b.ok, b.ms) <= TtfbScore(a.ok, a.ms) /\ TtfbScore(a.ok, a.ms) \in 10 .. 100
  BY <1>0, <1>1
<1>3. TtfbScore(b.ok, b.ms) \in 10 .. 100
  BY <1>0, <1>1
<1>4. StabilityScore(b.ok) <= StabilityScore(a.ok) /\ StabilityScore(a.ok) \in 0 .. 100
      /\ StabilityScore(b.ok) \in 0 .. 100
  BY <1>0 DEF StabilityScore
<1>5. CASE ~b.alive
  <2>1. Score(b) = 0
    BY <1>5 DEF Score
  <2>2. Score(a) >= 0
    BY <1>2, <1>4 DEF Score
  <2> QED BY <2>1, <2>2
<1>6. CASE b.alive
  <2>1. /\ Score(a) = 7 * TtfbScore(a.ok, a.ms) + 3 * StabilityScore(a.ok)
        /\ Score(b) = 7 * TtfbScore(b.ok, b.ms) + 3 * StabilityScore(b.ok)
    BY <1>6 DEF Score
  <2>2. \A p, q, u, v \in 0 .. 100 : p <= q /\ u <= v => 7 * p + 3 * u <= 7 * q + 3 * v
    OBVIOUS
  <2>3. /\ TtfbScore(a.ok, a.ms) \in 0 .. 100 /\ TtfbScore(b.ok, b.ms) \in 0 .. 100
    BY <1>2, <1>3
  <2>4. 7 * TtfbScore(b.ok, b.ms) + 3 * StabilityScore(b.ok)
           <= 7 * TtfbScore(a.ok, a.ms) + 3 * StabilityScore(a.ok)
    BY <1>2, <1>4, <2>2, <2>3, Zenon
  <2> QED BY <2>1, <2>4, Zenon
<1> QED BY <1>5, <1>6
=============================================================================
