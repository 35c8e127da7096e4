---------------------------- MODULE Validator_proof ----------------------------
(***************************************************************************)
(* Theorems about the validations of a job, for any configs, hosts and     *)
(* places of the semaphore, and any other callers of the limiter; and      *)
(* about the limiter, for any limit and window.  Clocks and stamps do not  *)
(* matter to the validator's books, nor do the books to the limiter.       *)
(***************************************************************************)
EXTENDS Validator, FiniteSetTheorems, TLAPS

USE ValidatorAssumption

-----------------------------------------------------------------------------
(* The line of the lock.                                                   *)

\* One more at its end.
LEMMA LineAppend ==
    ASSUME NEW s \in Seq(Callers), NEW x \in Callers, IsInjective(s), x \notin Range(s)
    PROVE  /\ Append(s, x) \in Seq(Callers) /\ Append(s, x) # << >>
           /\ Range(Append(s, x)) = Range(s) \cup {x}
           /\ IsInjective(Append(s, x))
<1>1. /\ DOMAIN s = 1 .. Len(s) /\ Len(s) \in Nat
      /\ DOMAIN Append(s, x) = 1 .. Len(s) + 1
      /\ \A i \in 1 .. Len(s) : Append(s, x)[i] = s[i]
      /\ Append(s, x)[Len(s) + 1] = x
  OBVIOUS
<1>2. \A i \in 1 .. Len(s) + 1 : i \in 1 .. Len(s) \/ i = Len(s) + 1
  BY <1>1
<1>3. Range(Append(s, x)) = Range(s) \cup {x}
  BY <1>1, <1>2 DEF Range
<1>4. IsInjective(Append(s, x))
  BY <1>1, <1>2 DEF IsInjective, Range
<1> QED BY <1>3, <1>4

\* What stands before the k-th element, ...
LEMMA Before ==
    ASSUME NEW C, NEW s \in Seq(C), NEW k \in 1 .. Len(s)
    PROVE  LET a == SubSeq(s, 1, k - 1)
           IN  /\ a \in Seq(C) /\ Len(a) = k - 1
               /\ \A i \in 1 .. k - 1 : a[i] = s[i]
OBVIOUS

\* ... what stands behind it, ...
LEMMA Behind ==
    ASSUME NEW C, NEW s \in Seq(C), NEW k \in 1 .. Len(s)
    PROVE  LET b == SubSeq(s, k + 1, Len(s))
           IN  /\ b \in Seq(C) /\ Len(b) = Len(s) - k
               /\ \A i \in 1 .. Len(s) - k : b[i] = s[k + i]
<1>1. ASSUME NEW i \in 1 .. Len(s) - k PROVE SubSeq(s, k + 1, Len(s))[i] = s[k + i]
  <2>1. i \in 1 .. Len(s) - (k + 1) + 1 /\ (k + 1) + i - 1 = k + i
    OBVIOUS
  <2>2. SubSeq(s, k + 1, Len(s))[i] = s[(k + 1) + i - 1]
    BY <2>1
  <2> QED BY <2>1, <2>2
<1>2. SubSeq(s, k + 1, Len(s)) \in Seq(C) /\ Len(SubSeq(s, k + 1, Len(s))) = Len(s) - k
  OBVIOUS
<1> QED BY <1>1, <1>2

\* ... two sequences put together, ...
LEMMA Joined ==
    ASSUME NEW C, NEW a \in Seq(C), NEW b \in Seq(C)
    PROVE  /\ a \o b \in Seq(C) /\ Len(a \o b) = Len(a) + Len(b)
           /\ \A i \in 1 .. Len(a) : (a \o b)[i] = a[i]
           /\ \A i \in 1 .. Len(b) : (a \o b)[Len(a) + i] = b[i]
OBVIOUS

\* ... and what is left when the k-th is taken out.
LEMMA RemoveElements ==
    ASSUME NEW C, NEW s \in Seq(C), NEW k \in 1 .. Len(s)
    PROVE  /\ RemoveAt(s, k) \in Seq(C) /\ Len(RemoveAt(s, k)) = Len(s) - 1
           /\ \A i \in 1 .. k - 1 : RemoveAt(s, k)[i] = s[i]
           /\ \A i \in 1 .. Len(s) - k : RemoveAt(s, k)[k - 1 + i] = s[k + i]
<1> DEFINE a == SubSeq(s, 1, k - 1)
           b == SubSeq(s, k + 1, Len(s))
<1>1. a \in Seq(C) /\ Len(a) = k - 1 /\ \A i \in 1 .. k - 1 : a[i] = s[i]
  BY Before
<1>2. b \in Seq(C) /\ Len(b) = Len(s) - k /\ \A i \in 1 .. Len(s) - k : b[i] = s[k + i]
  BY Behind
<1>3. RemoveAt(s, k) = a \o b
  BY DEF RemoveAt
<1> HIDE DEF a, b
<1>a. a \in Seq(C) /\ b \in Seq(C)
  BY <1>1, <1>2
<1>4. /\ a \o b \in Seq(C) /\ Len(a \o b) = Len(a) + Len(b)
      /\ \A i \in 1 .. Len(a) : (a \o b)[i] = a[i]
      /\ \A i \in 1 .. Len(b) : (a \o b)[Len(a) + i] = b[i]
  BY <1>a, Joined
<1>5. (a \o b) \in Seq(C) /\ Len(a \o b) = Len(s) - 1
  BY <1>1, <1>2, <1>4
<1>6. ASSUME NEW i \in 1 .. k - 1 PROVE (a \o b)[i] = s[i]
  BY <1>1, <1>4
<1>7. ASSUME NEW i \in 1 .. Len(s) - k PROVE (a \o b)[k - 1 + i] = s[k + i]
  <2>1. i \in 1 .. Len(b) /\ Len(a) = k - 1
    BY <1>1, <1>2
  <2>2. (a \o b)[Len(a) + i] = b[i]
    BY <1>4, <2>1
  <2>3. b[i] = s[k + i]
    BY <1>2
  <2> QED BY <2>1, <2>2, <2>3
<1> QED BY <1>3, <1>5, <1>6, <1>7

\* One less, wherever it stood.
LEMMA LineRemove ==
    ASSUME NEW s \in Seq(Callers), IsInjective(s), NEW k \in 1 .. Len(s)
    PROVE  /\ RemoveAt(s, k) \in Seq(Callers)
           /\ Range(RemoveAt(s, k)) = Range(s) \ {s[k]}
           /\ IsInjective(RemoveAt(s, k))
           /\ s[k] # Head(s) => RemoveAt(s, k) # << >>
<1> DEFINE t == RemoveAt(s, k)
           n == Len(s) - 1
<1>0. DOMAIN s = 1 .. Len(s) /\ Len(s) \in Nat /\ n \in Nat /\ k - 1 \in 0 .. n
  OBVIOUS
<1>1. /\ t \in Seq(Callers) /\ DOMAIN t = 1 .. n
      /\ \A i \in 1 .. n : t[i] = IF i < k THEN s[i] ELSE s[i + 1]
  <2>1. /\ t \in Seq(Callers) /\ Len(t) = n
        /\ \A i \in 1 .. k - 1 : t[i] = s[i]
        /\ \A i \in 1 .. Len(s) - k : t[k - 1 + i] = s[k + i]
    BY RemoveElements, ZenonT(30)
  <2> HIDE DEF t
  <2>2. ASSUME NEW i \in 1 .. n PROVE t[i] = IF i < k THEN s[i] ELSE s[i + 1]
    <3>1. CASE i < k
      BY <1>0, <2>1, <3>1
    <3>2. CASE ~(i < k)
      <4> DEFINE j == i - (k - 1)
      <4>1. j \in 1 .. Len(s) - k /\ k - 1 + j = i /\ k + j = i + 1
        BY <1>0, <3>2
      <4> HIDE DEF j
      <4> QED BY <2>1, <3>2, <4>1
    <3> QED BY <3>1, <3>2
  <2> QED BY <2>1, <2>2
<1> HIDE DEF t
<1>2. Range(t) = Range(s) \ {s[k]}
  <2>1. ASSUME NEW y \in Range(t) PROVE y \in Range(s) \ {s[k]}
    <3>1. PICK i \in 1 .. n : y = t[i]
      BY <1>1 DEF Range
    <3>2. PICK j \in 1 .. Len(s) : y = s[j] /\ j # k
      BY <1>0, <1>1, <3>1
    <3> QED BY <1>0, <3>2 DEF Range, IsInjective
  <2>2. ASSUME NEW y \in Range(s) \ {s[k]} PROVE y \in Range(t)
    <3>1. PICK j \in 1 .. Len(s) : y = s[j] /\ j # k
      BY <1>0 DEF Range
    <3>2. PICK i \in 1 .. n : y = t[i]
      <4>1. CASE j < k
        BY <1>0, <1>1, <3>1, <4>1
      <4>2. CASE j > k
        <5>1. j - 1 \in 1 .. n /\ ~(j - 1 < k) /\ (j - 1) + 1 = j
          BY <1>0, <4>2
        <5> QED BY <1>1, <3>1, <5>1
      <4> QED BY <1>0, <3>1, <4>1, <4>2
    <3> QED BY <1>1, <3>2 DEF Range
  <2> QED BY <2>1, <2>2
<1>3. IsInjective(t)
  <2> SUFFICES ASSUME NEW i \in 1 .. n, NEW j \in 1 .. n, t[i] = t[j] PROVE i = j
    BY <1>1 DEF IsInjective
  <2> DEFINE At(x) == IF x < k THEN x ELSE x + 1
  <2>1. At(i) \in 1 .. Len(s) /\ At(j) \in 1 .. Len(s) /\ s[At(i)] = s[At(j)]
    BY <1>0, <1>1
  <2>2. At(i) = At(j)
    BY <1>0, <2>1 DEF IsInjective
  <2> QED BY <1>0, <2>2
<1>4. ASSUME s[k] # Head(s) PROVE t # << >>
  <2>1. k # 1
    BY <1>4
  <2>2. 1 \in DOMAIN t
    BY <1>0, <1>1, <2>1
  <2> QED BY <2>2
<1> QED BY <1>1, <1>2, <1>3, <1>4 DEF t

\* The first one leaves.
LEMMA LineTail ==
    ASSUME NEW s \in Seq(Callers), IsInjective(s), s # << >>
    PROVE  /\ Head(s) \in Callers /\ Head(s) \in Range(s) /\ Tail(s) \in Seq(Callers)
           /\ Range(Tail(s)) = Range(s) \ {Head(s)}
           /\ IsInjective(Tail(s))
<1>1. /\ DOMAIN s = 1 .. Len(s) /\ Len(s) \in Nat \ {0}
      /\ DOMAIN Tail(s) = 1 .. Len(s) - 1
      /\ \A i \in 1 .. Len(s) - 1 : Tail(s)[i] = s[i + 1]
      /\ Head(s) = s[1] /\ Tail(s) \in Seq(Callers) /\ s[1] \in Callers
  OBVIOUS
<1>2. \A i \in 1 .. Len(s) : i = 1 \/ (i - 1 \in 1 .. Len(s) - 1 /\ s[i] = Tail(s)[i - 1])
  BY <1>1
<1>3. ASSUME NEW y \in Range(Tail(s)) PROVE y \in Range(s) \ {Head(s)}
  BY <1>1 DEF Range, IsInjective
<1>4. ASSUME NEW y \in Range(s) \ {Head(s)} PROVE y \in Range(Tail(s))
  <2>1. PICK i \in 1 .. Len(s) : y = s[i]
    BY <1>1 DEF Range
  <2>2. i - 1 \in DOMAIN Tail(s) /\ y = Tail(s)[i - 1]
    BY <1>1, <1>2, <1>4, <2>1
  <2> QED BY <2>2 DEF Range
<1>5. IsInjective(Tail(s))
  BY <1>1 DEF IsInjective
<1>6. Head(s) \in Range(s)
  BY <1>1 DEF Range
<1> QED BY <1>1, <1>3, <1>4, <1>5, <1>6

LEMMA InLineRange ==
    ASSUME LineOK
    PROVE  \A c : InLine(c) <=> c \in Range(line)
BY DEF LineOK, InLine, Range

-----------------------------------------------------------------------------
(* The invariant in two parts: the line, and the books of the validator.   *)
LineInv ==
    /\ LineOK /\ IsInjective(line) /\ (asleep => line # << >>)
    /\ task \in [Configs -> {"out", "queued", "acquire", "lookup"}]
    /\ \A c \in Configs : c \in Range(line) <=> task[c] = "acquire"

Books ==
    /\ job \in {"off", "ready", "batch", "cancelled"}
    /\ task \in [Configs -> {"out", "queued", "acquire", "lookup"}]
    /\ seen \subseteq Configs /\ valid \subseteq Configs /\ given \subseteq Configs
    /\ country \in [Hosts -> {"unknown", "code", "null"}] /\ asked \in [Hosts -> Nat]
    /\ LookupBound /\ ResultOnce
    /\ \A c \in Inside : c \notin seen
    /\ Cardinality(Inside) <= MaxConcurrent
    /\ job \in {"off", "ready"} => \A c \in Configs : task[c] = "out"
    /\ job # "cancelled" =>
          \A h \in Hosts : country[h] = "unknown" => asked[h] = Cardinality(Askers(h))

LEMMA TwoParts == BatchInv <=> LineInv /\ Books
<1>1. LineOK => \A c : InLine(c) <=> c \in Range(line)
  BY InLineRange
<1> QED BY <1>1 DEF BatchInv, TypeOK, LineInv, Books

\* Sets of validations are finite.
LEMMA Finite ==
    /\ IsFiniteSet(Inside) /\ Cardinality(Inside) \in Nat
    /\ \A h \in Hosts : /\ IsFiniteSet(Askers(h)) /\ Cardinality(Askers(h)) \in Nat
                        /\ Cardinality(Askers(h)) <= Cardinality(Inside)
<1>1. IsFiniteSet(Inside)
  BY FS_Subset DEF Inside
<1>2. \A h \in Hosts : Askers(h) \in SUBSET Inside
  BY DEF Askers
<1> QED BY <1>1, <1>2, FS_Subset, FS_CardinalityType

\* The books stay right as long as nobody enters or leaves and nothing is found.
LEMMA SameBooks ==
    ASSUME Books, Inside' = Inside, UNCHANGED <<seen, country, asked>>,
           task' \in [Configs -> {"out", "queued", "acquire", "lookup"}],
           ResultOnce', valid' \subseteq Configs, given' \subseteq Configs,
           job' \in {"off", "ready", "batch", "cancelled"},
           job' \in {"off", "ready"} => \A c \in Configs : task'[c] = "out",
           job = "cancelled" => job' = "cancelled"
    PROVE  Books'
<1>1. \A h : Askers(h)' = Askers(h)
  BY DEF Askers
<1>2. \A h \in Hosts : Cardinality(Askers(h))' = Cardinality(Askers(h))
  BY <1>1
<1>3. LookupBound'
  BY DEF Books, LookupBound
<1>4. (job # "cancelled" =>
          \A h \in Hosts : country[h] = "unknown" => asked[h] = Cardinality(Askers(h)))'
  BY <1>2 DEF Books
<1> QED BY <1>3, <1>4 DEF Books

-----------------------------------------------------------------------------
(* The limiter.                                                            *)

\* Whoever is let through leaves the line and begins its lookup.
LEMMA GrantKept ==
    ASSUME LineInv, Books, line # << >>, line' = Tail(line), asleep' = FALSE, Granted
    PROVE  LineInv' /\ Books'
<1>0. /\ line \in Seq(Callers) /\ IsInjective(line)
      /\ task \in [Configs -> {"out", "queued", "acquire", "lookup"}]
      /\ \A c \in Configs : c \in Range(line) <=> task[c] = "acquire"
  BY DEF LineInv, LineOK
<1>1. /\ Head(line) \in Range(line) /\ line' \in Seq(Callers)
      /\ Range(line') = Range(line) \ {Head(line)} /\ IsInjective(line')
  BY <1>0, LineTail
<1>2. /\ task' \in [Configs -> {"out", "queued", "acquire", "lookup"}]
      /\ \A c \in Configs : task'[c] = IF c = Head(line) THEN "lookup" ELSE task[c]
      /\ Head(line) \in Configs => task[Head(line)] = "acquire"
      /\ UNCHANGED <<job, seen, country, valid, given, asked>>
  BY <1>0, <1>1 DEF Granted
<1>3. LineInv'
  BY <1>0, <1>1, <1>2 DEF LineInv, LineOK
<1>4. Inside' = Inside
  BY <1>2 DEF Inside
<1>5. job \in {"off", "ready"} => \A c \in Configs : task'[c] = "out"
  BY <1>2 DEF Books
<1>6. Books'
  BY <1>2, <1>4, <1>5, SameBooks DEF Books, ResultOnce
<1> QED BY <1>3, <1>6

LEMMA LimiterKept ==
    ASSUME LineInv, Books, LimiterStep
    PROVE  LineInv' /\ Books'
<1>1. CASE PassLimiter
  BY <1>1, GrantKept DEF PassLimiter, Pass, Grant, LineInv, LineOK
<1>2. CASE WakeInLimiter
  BY <1>2, GrantKept DEF WakeInLimiter, Wake, Grant, LineInv
<1>3. CASE SleepInLimiter
  <2>1. UNCHANGED <<line, validatorVars>> /\ asleep' = TRUE /\ line # << >>
    BY <1>3 DEF SleepInLimiter, Sleep
  <2>2. Inside' = Inside
    BY <2>1 DEF validatorVars, Inside
  <2> QED BY <2>1, <2>2, SameBooks DEF LineInv, LineOK, Books, ResultOnce, validatorVars
<1> QED BY <1>1, <1>2, <1>3 DEF LimiterStep

\* Who gives up leaves the line.
LEMMA AbortFact ==
    ASSUME LineInv, NEW c, Abort(c)
    PROVE  /\ line' \in Seq(Callers) /\ IsInjective(line')
           /\ Range(line') = Range(line) \ {c}
           /\ asleep' \in BOOLEAN /\ (asleep' => line' # << >>)
<1>0. line \in Seq(Callers) /\ IsInjective(line) /\ asleep \in BOOLEAN
  BY DEF LineInv, LineOK
<1>1. PICK k \in 1 .. Len(line) : line[k] = c /\ line' = RemoveAt(line, k)
  BY DEF Abort
<1>2. /\ line' \in Seq(Callers) /\ Range(line') = Range(line) \ {c}
      /\ IsInjective(line')
      /\ c # Head(line) => line' # << >>
  BY <1>0, <1>1, LineRemove
<1>3. IF c = Head(line) THEN asleep' = FALSE ELSE asleep' = asleep
  BY DEF Abort
<1> QED BY <1>0, <1>2, <1>3

\* Who comes is not in the line yet.
LEMMA ArriveFact ==
    ASSUME LineInv, NEW c \in Callers, Arrive(c)
    PROVE  /\ line' \in Seq(Callers) /\ IsInjective(line')
           /\ Range(line') = Range(line) \cup {c}
           /\ asleep' = asleep /\ line' # << >>
<1>1. line \in Seq(Callers) /\ IsInjective(line) /\ c \notin Range(line)
  BY InLineRange DEF LineInv, LineOK, Arrive
<1> QED BY <1>1, LineAppend DEF Arrive

\* The other job's calls do not concern the validator.
LEMMA OthersKept ==
    ASSUME LineInv, Books, NEW o \in Others, OtherCalls(o)
    PROVE  LineInv' /\ Books'
<1>0. UNCHANGED validatorVars /\ o \in Callers /\ o \notin Configs
  BY DEF OtherCalls
<1>1. Inside' = Inside
  BY <1>0 DEF validatorVars, Inside
<1>2. Books'
  BY <1>0, <1>1, SameBooks DEF Books, ResultOnce, validatorVars
<1>3. CASE Arrive(o)
  <2>1. LineInv'
    BY <1>0, <1>3, ArriveFact DEF LineInv, LineOK, validatorVars
  <2> QED BY <1>2, <2>1
<1>4. CASE Abort(o)
  <2>1. LineInv'
    BY <1>0, <1>4, AbortFact DEF LineInv, LineOK, validatorVars
  <2> QED BY <1>2, <2>1
<1> QED BY <1>3, <1>4 DEF OtherCalls

-----------------------------------------------------------------------------
(* A validation.                                                           *)

\* One that ends without a lookup, or after it: it may have found a result.
LEMMA FinishFact ==
    ASSUME Books, NEW c \in Configs, c \notin seen, given' = given,
           NEW code, Finish(c, code)
    PROVE  /\ task' = [task EXCEPT ![c] = "out"]
           /\ seen' \subseteq Configs /\ valid' \subseteq Configs
           /\ seen' \subseteq seen \cup {c}
           /\ ResultOnce'
BY DEF Finish, Books, ResultOnce

\* One that was not let in yet ends.
LEMMA EndsQueued ==
    ASSUME LineInv, Books, NEW c \in Configs, Seen(c) \/ NoLookup(c)
    PROVE  LineInv' /\ Books'
<1>0. /\ job = "batch" /\ job' = job /\ task[c] = "queued"
      /\ UNCHANGED <<line, asleep, country, given, asked>>
      /\ task' = [task EXCEPT ![c] = "out"]
      /\ task \in [Configs -> {"out", "queued", "acquire", "lookup"}]
  BY DEF Seen, NoLookup, Entering, Finish, limiterVars, Books
<1>1. LineInv'
  BY <1>0 DEF LineInv, LineOK
<1>2. Inside' = Inside /\ c \notin Inside
  BY <1>0 DEF Inside
<1>3. CASE Seen(c)
  <2>1. UNCHANGED <<seen, valid>>
    BY <1>3 DEF Seen
  <2> QED BY <1>0, <1>1, <1>2, <2>1, SameBooks DEF Books, ResultOnce
<1>4. CASE NoLookup(c)
  <2>1. PICK code : Finish(c, code)
    BY <1>4 DEF NoLookup
  <2>2. c \notin seen
    BY <1>4 DEF NoLookup
  <2>3. /\ seen' \subseteq Configs /\ valid' \subseteq Configs
        /\ seen' \subseteq seen \cup {c} /\ ResultOnce'
    BY <1>0, <2>1, <2>2, FinishFact
  <2>4. \A h : Cardinality(Askers(h))' = Cardinality(Askers(h))
    BY <1>2 DEF Askers
  <2>5. \A d \in Inside' : d \notin seen'
    BY <1>2, <2>3 DEF Books
  <2> QED BY <1>0, <1>1, <1>2, <2>3, <2>4, <2>5 DEF Books, LookupBound
<1> QED BY <1>3, <1>4

\* One enters and asks: there is a place, and it is counted among the askers.
LEMMA AskKept ==
    ASSUME LineInv, Books, NEW c \in Configs, Ask(c)
    PROVE  LineInv' /\ Books'
<1>0. /\ job = "batch" /\ job' = job /\ task[c] = "queued" /\ c \notin seen /\ c \in Callers
      /\ Cardinality(Inside) < MaxConcurrent
      /\ UNCHANGED <<country, given, seen, valid>>
      /\ task' = [task EXCEPT ![c] = "acquire"] /\ Arrive(c)
      /\ task \in [Configs -> {"out", "queued", "acquire", "lookup"}]
      /\ asked \in [Hosts -> Nat] /\ HostOf[c] \subseteq Hosts
  BY DEF Ask, Entering, Books
<1>1. PICK h \in HostOf[c] : country[h] = "unknown" /\ asked' = [asked EXCEPT ![h] = asked[h] + 1]
  BY DEF Ask
<1>2. h \in Hosts
  BY <1>0, <1>1
<1>3. LineInv'
  BY <1>0, ArriveFact DEF LineInv, LineOK
<1>4. Inside' = Inside \cup {c} /\ c \notin Inside
  BY <1>0 DEF Inside
<1>5. Cardinality(Inside') = Cardinality(Inside) + 1
  BY <1>4, Finite, FS_AddElement
<1>6. Cardinality(Inside') <= MaxConcurrent
  <2>1. Cardinality(Inside) \in Nat /\ MaxConcurrent \in Nat
    BY Finite
  <2> QED BY <1>0, <1>5, <2>1
<1>7. \A g \in Hosts : country[g] = "unknown" => asked'[g] = Cardinality(Askers(g)')
  <2> SUFFICES ASSUME NEW g \in Hosts, country[g] = "unknown"
               PROVE  asked'[g] = Cardinality(Askers(g)')
    OBVIOUS
  <2>1. asked[g] = Cardinality(Askers(g)) /\ IsFiniteSet(Askers(g))
    BY <1>0, Finite DEF Books
  <2>2. CASE g = h
    <3>1. Askers(g)' = Askers(g) \cup {c} /\ c \notin Askers(g)
      BY <1>1, <1>4, <2>2 DEF Askers
    <3>2. Cardinality(Askers(g)') = Cardinality(Askers(g)) + 1
      BY <2>1, <3>1, FS_AddElement
    <3> QED BY <1>0, <1>1, <1>2, <2>1, <2>2, <3>2
  <2>3. CASE g # h
    <3>1. g \notin HostOf[c]
      BY <1>0, <1>1, <2>3
    <3>2. Askers(g)' = Askers(g)
      BY <1>4, <3>1 DEF Askers
    <3> QED BY <1>0, <1>1, <1>2, <2>1, <2>3, <3>2
  <2> QED BY <2>2, <2>3
<1>8. Cardinality(Askers(h)') <= Cardinality(Inside')
  <2>1. IsFiniteSet(Inside')
    BY <1>4, Finite, FS_AddElement
  <2>2. Askers(h)' \in SUBSET (Inside')
    BY DEF Askers
  <2> QED BY <2>1, <2>2, FS_Subset
<1>9. LookupBound'
  <2>1. asked'[h] <= MaxConcurrent
    <3>1. asked'[h] = Cardinality(Askers(h)') /\ asked'[h] \in Nat
      BY <1>0, <1>1, <1>2, <1>7
    <3>2. Cardinality(Inside') \in Nat
      BY <1>5, Finite
    <3> QED BY <1>6, <1>8, <3>1, <3>2
  <2>2. \A g \in Hosts \ {h} : asked'[g] = asked[g]
    BY <1>0, <1>1
  <2> QED BY <2>1, <2>2 DEF LookupBound, Books
<1>10. Books'
  <2>1. asked' \in [Hosts -> Nat]
    BY <1>0, <1>1, <1>2
  <2>2. task' \in [Configs -> {"out", "queued", "acquire", "lookup"}]
    BY <1>0
  <2>3. \A d \in Inside' : d \notin seen'
    BY <1>0, <1>4 DEF Books
  <2>4. ResultOnce'
    BY <1>0 DEF Books, ResultOnce
  <2> QED BY <1>0, <1>6, <1>7, <1>9, <2>1, <2>2, <2>3, <2>4 DEF Books
<1> QED BY <1>3, <1>10

\* The set of those inside without one of them.
LEMMA OneLess ==
    ASSUME Books, NEW c \in Configs, task' = [task EXCEPT ![c] = "out"]
    PROVE  /\ Inside' = Inside \ {c}
           /\ Cardinality(Inside') <= MaxConcurrent
           /\ task' \in [Configs -> {"out", "queued", "acquire", "lookup"}]
<1>1. Inside' = Inside \ {c} /\ task' \in [Configs -> {"out", "queued", "acquire", "lookup"}]
  BY DEF Books, Inside
<1>2. Inside \ {c} \in SUBSET Inside
  OBVIOUS
<1>3. Cardinality(Inside \ {c}) <= Cardinality(Inside) /\ IsFiniteSet(Inside \ {c})
  BY <1>2, Finite, FS_Subset
<1>4. Cardinality(Inside \ {c}) \in Nat /\ Cardinality(Inside) \in Nat /\ MaxConcurrent \in Nat
  BY <1>3, Finite, FS_CardinalityType
<1>5. Cardinality(Inside) <= MaxConcurrent
  BY DEF Books
<1>6. Cardinality(Inside \ {c}) <= MaxConcurrent
  BY <1>3, <1>4, <1>5
<1> QED BY <1>1, <1>6

\* An answer: the one host of the config has a country from now on.
LEMMA AnswerKept ==
    ASSUME LineInv, Books, NEW c \in Configs, Answer(c)
    PROVE  LineInv' /\ Books'
<1>0. /\ job = "batch" /\ job' = job /\ task[c] = "lookup" /\ c \notin seen
      /\ UNCHANGED <<line, asleep, given, asked>>
      /\ task \in [Configs -> {"out", "queued", "acquire", "lookup"}]
      /\ country \in [Hosts -> {"unknown", "code", "null"}] /\ HostOf[c] \subseteq Hosts
  BY DEF Answer, limiterVars, Books, Inside
<1>1. PICK h \in HostOf[c], code \in {"code", "null"} :
         country' = [country EXCEPT ![h] = code] /\ Finish(c, code)
  BY DEF Answer
<1>2. /\ task' = [task EXCEPT ![c] = "out"]
      /\ seen' \subseteq Configs /\ valid' \subseteq Configs
      /\ seen' \subseteq seen \cup {c} /\ ResultOnce'
  BY <1>0, <1>1, FinishFact
<1>3. LineInv'
  BY <1>0, <1>2 DEF LineInv, LineOK
<1>4. /\ Inside' = Inside \ {c} /\ Cardinality(Inside') <= MaxConcurrent
      /\ task' \in [Configs -> {"out", "queued", "acquire", "lookup"}]
  BY <1>2, OneLess
<1>5. \A g \in Hosts : country'[g] = "unknown" => asked'[g] = Cardinality(Askers(g)')
  <2> SUFFICES ASSUME NEW g \in Hosts, country'[g] = "unknown"
               PROVE  asked'[g] = Cardinality(Askers(g)')
    OBVIOUS
  <2>1. g # h /\ country[g] = "unknown"
    BY <1>0, <1>1
  <2>2. g \notin HostOf[c]
    BY <1>1, <2>1
  <2>3. Askers(g)' = Askers(g)
    BY <1>4, <2>2 DEF Askers
  <2> QED BY <1>0, <2>1, <2>3 DEF Books
<1>6. \A d \in Inside' : d \notin seen'
  BY <1>2, <1>4 DEF Books
<1>7. country' \in [Hosts -> {"unknown", "code", "null"}]
  BY <1>0, <1>1
<1> QED BY <1>0, <1>2, <1>3, <1>4, <1>5, <1>6, <1>7 DEF Books, LookupBound

\* One ends because its batch was cancelled, wherever it stands.
LEMMA CancelledKept ==
    ASSUME LineInv, Books, NEW c \in Configs, Cancelled(c)
    PROVE  LineInv' /\ Books'
<1>0. /\ job = "cancelled" /\ job' = job /\ task' = [task EXCEPT ![c] = "out"]
      /\ UNCHANGED <<seen, country, valid, given, asked>>
      /\ task \in [Configs -> {"out", "queued", "acquire", "lookup"}]
  BY DEF Cancelled, Books
<1>1. Books'
  <2>1. /\ Inside' = Inside \ {c} /\ Cardinality(Inside') <= MaxConcurrent
        /\ task' \in [Configs -> {"out", "queued", "acquire", "lookup"}]
    BY <1>0, OneLess
  <2> QED BY <1>0, <2>1 DEF Books, LookupBound, ResultOnce
<1>2. CASE InLine(c)
  <2>1. Abort(c)
    BY <1>2 DEF Cancelled
  <2>2. LineInv'
    BY <1>0, <2>1, AbortFact DEF LineInv, LineOK
  <2> QED BY <1>1, <2>2
<1>3. CASE ~InLine(c)
  <2>1. UNCHANGED <<line, asleep>> /\ c \notin Range(line)
    BY <1>3, InLineRange DEF Cancelled, limiterVars, LineInv
  <2>2. LineInv'
    BY <1>0, <2>1 DEF LineInv, LineOK
  <2> QED BY <1>1, <2>2
<1> QED BY <1>2, <1>3

-----------------------------------------------------------------------------
(* The job.                                                                *)

\* A new validator, when no validation is left of the old one.
LEMMA FreshKept ==
    ASSUME LineInv, task \in [Configs -> {"out", "queued", "acquire", "lookup"}],
           \A c \in Configs : task[c] = "out",
           job' = "off", UNCHANGED <<line, asleep, task>>,
           Fresh(seen', country', valid', given', asked')
    PROVE  LineInv' /\ Books'
<1>1. LineInv'
  BY DEF LineInv, LineOK
<1>2. Inside' = {} /\ \A h : Askers(h)' = {}
  BY DEF Inside, Askers
<1>3. Cardinality(Inside') = 0 /\ \A h : Cardinality(Askers(h)') = 0
  BY <1>2, FS_EmptySet
<1>4. Cardinality(Inside') <= MaxConcurrent
  BY <1>3
<1>5. seen' = {} /\ valid' = {} /\ given' = {}
      /\ country' = [h \in Hosts |-> "unknown"] /\ asked' = [h \in Hosts |-> 0]
  BY DEF Fresh
<1>6. LookupBound' /\ ResultOnce'
  BY <1>5 DEF LookupBound, ResultOnce
<1>7. \A h \in Hosts : asked'[h] = Cardinality(Askers(h)')
  BY <1>3, <1>5
<1> QED BY <1>1, <1>2, <1>4, <1>5, <1>6, <1>7 DEF Books

LEMMA JobKept ==
    ASSUME LineInv, Books, Start \/ Batch \/ Outcomes \/ End \/ Cancel \/ Stopped
    PROVE  LineInv' /\ Books'
<1>0. task \in [Configs -> {"out", "queued", "acquire", "lookup"}]
  BY DEF Books
<1>1. CASE End \/ Stopped
  <2>1. \A c \in Configs : task[c] = "out"
    BY <1>1 DEF End, Stopped, Books
  <2> QED BY <1>0, <1>1, <2>1, FreshKept DEF End, Stopped, Leave, limiterVars
<1>2. CASE Start \/ Cancel
  <2>1. UNCHANGED <<line, asleep, task, seen, country, valid, given, asked>>
    BY <1>2 DEF Start, Cancel, limiterVars
  <2>2. Inside' = Inside
    BY <2>1 DEF Inside
  <2>3. LineInv'
    BY <2>1 DEF LineInv, LineOK
  <2> QED BY <1>0, <1>2, <2>1, <2>2, <2>3, SameBooks DEF Start, Cancel, Books, ResultOnce
<1>3. CASE Outcomes
  <2>1. UNCHANGED <<line, asleep, task, seen, country, asked>>
    BY <1>3 DEF Outcomes, limiterVars
  <2>2. Inside' = Inside
    BY <2>1 DEF Inside
  <2>3. LineInv'
    BY <2>1 DEF LineInv, LineOK
  <2>4. ResultOnce' /\ valid' \subseteq Configs /\ given' \subseteq Configs
    BY <1>3 DEF Outcomes, Books, ResultOnce
  <2> QED BY <1>0, <1>3, <2>1, <2>2, <2>3, <2>4, SameBooks DEF Outcomes
<1>4. CASE Batch
  <2>1. UNCHANGED <<line, asleep, seen, country, valid, given, asked>>
    BY <1>4 DEF Batch, limiterVars
  <2>2. \A c \in Configs : task[c] = "out" /\ task'[c] \in {"out", "queued"}
    BY <1>4 DEF Batch, Books
  <2>3. task' \in [Configs -> {"out", "queued", "acquire", "lookup"}]
    BY <1>4 DEF Batch
  <2>4. Inside' = Inside
    BY <2>2 DEF Inside
  <2>5. LineInv'
    BY <2>1, <2>2, <2>3 DEF LineInv, LineOK
  <2>6. job = "ready" /\ job' = "batch"
    BY <1>4 DEF Batch
  <2> QED BY <2>1, <2>3, <2>4, <2>5, <2>6, SameBooks DEF Books, ResultOnce
<1> QED BY <1>1, <1>2, <1>3, <1>4

-----------------------------------------------------------------------------
LEMMA InvInit == Init => LineInv /\ Books
<1> SUFFICES ASSUME Init PROVE LineInv /\ Books
  OBVIOUS
<1>0. /\ line = << >> /\ asleep = FALSE /\ job = "off"
      /\ task = [c \in Configs |-> "out"]
      /\ seen = {} /\ valid = {} /\ given = {}
      /\ country = [h \in Hosts |-> "unknown"] /\ asked = [h \in Hosts |-> 0]
  BY DEF Init, LimiterInit, Fresh
<1>1. LineInv
  <2>1. IsInjective(line) /\ Range(line) = {} /\ line \in Seq(Callers)
    BY <1>0 DEF IsInjective, Range
  <2> QED BY <1>0, <2>1 DEF LineInv, LineOK
<1>2. Inside = {} /\ \A h : Askers(h) = {}
  BY <1>0 DEF Inside, Askers
<1>3. Cardinality(Inside) = 0 /\ \A h : Cardinality(Askers(h)) = 0
  BY <1>2, FS_EmptySet
<1>4. Cardinality(Inside) <= MaxConcurrent
  BY <1>3
<1>5. LookupBound /\ ResultOnce
  BY <1>0 DEF LookupBound, ResultOnce
<1>6. \A h \in Hosts : asked[h] = Cardinality(Askers(h))
  BY <1>0, <1>3
<1>7. Books
  BY <1>0, <1>2, <1>4, <1>5, <1>6 DEF Books
<1> QED BY <1>1, <1>7

LEMMA InvNext == LineInv /\ Books /\ [Next]_vars => LineInv' /\ Books'
<1> SUFFICES ASSUME LineInv, Books, [Next]_vars PROVE LineInv' /\ Books'
  OBVIOUS
<1>1. ASSUME NEW c \in Configs, Validation(c) PROVE LineInv' /\ Books'
  BY <1>1, EndsQueued, AskKept, AnswerKept, CancelledKept DEF Validation
<1>2. CASE Time \/ UNCHANGED vars
  <2>1. UNCHANGED <<line, asleep, validatorVars>>
    BY <1>2 DEF Time, Tick, vars, limiterVars
  <2>2. UNCHANGED <<job, task, seen, country, valid, given, asked>>
    BY <2>1 DEF validatorVars
  <2>3. Inside' = Inside
    BY <2>2 DEF Inside
  <2>4. LineInv'
    BY <2>1, <2>2 DEF LineInv, LineOK
  <2> QED BY <2>2, <2>3, <2>4, SameBooks DEF Books, ResultOnce
<1> QED BY <1>1, <1>2, JobKept, OthersKept, LimiterKept DEF Next

(* The books of the validator are right through all batches of all jobs,   *)
(* whatever sleeps or is cancelled in the line (processor/validator.py:    *)
(* 93-176, core/utils.py:171-211).                                         *)
THEOREM ValidatorInvariant == Spec => []BatchInv
<1>1. LineInv /\ Books => BatchInv
  BY TwoParts
<1> QED BY <1>1, InvInit, InvNext, PTL DEF Spec

(* However many configs name a host, in however many batches, a job looks  *)
(* its country up at most as often as the semaphore has places             *)
(* (processor/validator.py:114-121).                                       *)
THEOREM LookupsBounded == Spec => []LookupBound
<1>1. BatchInv => LookupBound
  BY DEF BatchInv
<1> QED BY <1>1, ValidatorInvariant, PTL

(* No config comes out of two batches of a job (99-102, 124-138).          *)
THEOREM NoResultTwice == Spec => []ResultOnce
<1>1. BatchInv => ResultOnce
  BY DEF BatchInv
<1> QED BY <1>1, ValidatorInvariant, PTL

-----------------------------------------------------------------------------
(* The list of stamps.                                                     *)
HIDE ValidatorAssumption

\* A set of places that has with each of them all before it is an interval.
LEMMA DownwardClosed ==
    ASSUME NEW n \in Nat, NEW D \in SUBSET (1 .. n),
           \A k \in D : \A j \in 1 .. k : j \in D
    PROVE  /\ IsFiniteSet(D) /\ Cardinality(D) \in 0 .. n
           /\ D = 1 .. Cardinality(D)
<1>1. /\ IsFiniteSet(1 .. n) /\ Cardinality(1 .. n) = n
      /\ IsFiniteSet(D) /\ Cardinality(D) \in Nat /\ Cardinality(D) <= n
  <2>1. IsFiniteSet(1 .. n) /\ Cardinality(1 .. n) = n
    BY FS_Interval
  <2>2. IsFiniteSet(D) /\ Cardinality(D) <= Cardinality(1 .. n)
    BY <2>1, FS_Subset
  <2> QED BY <2>1, <2>2, FS_CardinalityType
<1> DEFINE c == Cardinality(D)
<1>2. c \in Nat /\ c <= n
  BY <1>1
<1>3. ASSUME NEW k \in D PROVE k \in 1 .. c
  <2>1. 1 .. k \in SUBSET D /\ k \in 1 .. n
    OBVIOUS
  <2>2. Cardinality(1 .. k) <= Cardinality(D)
    BY <1>1, <2>1, FS_Subset
  <2>3. Cardinality(1 .. k) = k
    BY <2>1, FS_Interval
  <2> QED BY <1>2, <2>1, <2>2, <2>3
<1> HIDE DEF c
<1>4. IsFiniteSet(1 .. c) /\ Cardinality(1 .. c) = c
  BY <1>2, FS_Interval
<1>5. D \in SUBSET (1 .. c)
  BY <1>3
<1>6. Cardinality(1 .. c) = Cardinality(D)
  BY <1>4 DEF c
<1>7. D = 1 .. c
  BY <1>4, <1>5, <1>6, FS_Subset
<1> QED BY <1>1, <1>2, <1>7 DEF c

\* What is kept of a sequence when the places to keep are an interval.
Slice(C, s, a, b, t) ==
    /\ t \in Seq(C) /\ Len(t) = b - a + 1
    /\ \A i \in 1 .. b - a + 1 : t[i] = s[a + i - 1]

LEMMA SelectInterval ==
    ASSUME NEW C, NEW s \in Seq(C), NEW a \in Nat \ {0}, NEW b \in Nat,
           b <= Len(s), a <= b + 1
    PROVE  Slice(C, s, a, b, Select(s, a .. b))
<1> DEFINE n == b - a + 1
<1>0. n \in Nat /\ a \in Int /\ b \in Int
  OBVIOUS
<1>1. Cardinality(a .. b) = n
  <2>1. Cardinality(a .. b) = IF a > b THEN 0 ELSE b - a + 1
    BY <1>0, FS_Interval
  <2> QED BY <2>1
<1>2. ASSUME NEW i \in 1 .. n PROVE Nth(a .. b, i) = a + i - 1
  <2>1. ASSUME NEW k \in a .. b PROVE Cardinality({j \in a .. b : j <= k}) = k - a + 1
    <3>1. {j \in a .. b : j <= k} = a .. k /\ k \in Int /\ a <= k
      OBVIOUS
    <3>2. Cardinality(a .. k) = k - a + 1
      BY <3>1, FS_Interval
    <3> QED BY <3>1, <3>2
  <2>2. a + i - 1 \in a .. b
    OBVIOUS
  <2>3. \A k \in a .. b : Cardinality({j \in a .. b : j <= k}) = i <=> k = a + i - 1
    BY <2>1, <2>2
  <2> QED BY <2>2, <2>3 DEF Nth
<1> DEFINE t == Select(s, a .. b)
<1>3. DOMAIN t = 1 .. n /\ \A i \in 1 .. n : t[i] = s[Nth(a .. b, i)]
  BY <1>1 DEF Select
<1>4. \A i \in 1 .. n : a + i - 1 \in 1 .. Len(s)
  OBVIOUS
<1>5. t = [i \in 1 .. n |-> t[i]]
  BY <1>1 DEF Select
<1> HIDE DEF n, t
<1>6. \A i \in 1 .. n : t[i] = s[a + i - 1] /\ t[i] \in C
  BY <1>2, <1>3, <1>4
<1>7. t \in [1 .. n -> C]
  BY <1>5, <1>6
<1>8. t \in Seq(C) /\ Len(t) = n
  BY <1>0, <1>7
<1> QED BY <1>6, <1>8 DEF n, t, Slice

\* Ages that do not grow: the oldest first.
Aged(s) == \A k, l \in 1 .. Len(s) : k < l => s[k] >= s[l]

\* Of a sorted list the pruned one lacks a beginning.
LEMMA YoungFact ==
    ASSUME NEW s \in Seq(0 .. Window), Aged(s)
    PROVE  \E m \in 0 .. Len(s) :
              /\ \A k \in 1 .. m : s[k] = Window
              /\ \A k \in m + 1 .. Len(s) : s[k] \in 0 .. Window - 1
              /\ Young(s) \in Seq(0 .. Window - 1) /\ Len(Young(s)) = Len(s) - m
              /\ \A i \in 1 .. Len(s) - m : Young(s)[i] = s[m + i]
<1> DEFINE n == Len(s)
           D == {k \in 1 .. n : s[k] = Window}
           m == Cardinality(D)
<1>0. /\ n \in Nat /\ DOMAIN s = 1 .. n /\ Window \in Nat \ {0}
      /\ \A k \in 1 .. n : s[k] \in 0 .. Window
  BY GeoRateLimiterAssumption
<1>1. \A k \in D : \A j \in 1 .. k : j \in D
  BY <1>0 DEF Aged
<1>2. m \in 0 .. n /\ D = 1 .. m
  <2>1. D \in SUBSET (1 .. n)
    OBVIOUS
  <2> HIDE DEF D
  <2> QED BY <1>0, <1>1, <2>1, DownwardClosed
<1>3. /\ \A k \in 1 .. m : s[k] = Window
      /\ \A k \in m + 1 .. n : s[k] \in 0 .. Window - 1
  <2> HIDE DEF m
  <2>1. \A k \in 1 .. n : k \in 1 .. m <=> s[k] = Window
    BY <1>2
  <2> QED BY <1>0, <1>2, <2>1
<1> HIDE DEF m, D
<1>4. {k \in DOMAIN s : s[k] < Window} = m + 1 .. n
  BY <1>0, <1>2, <1>3
<1>5. Young(s) = Select(s, m + 1 .. n)
  BY <1>4 DEF Young
<1> HIDE DEF n
<1>6. /\ Select(s, m + 1 .. n) \in Seq(0 .. Window)
      /\ Len(Select(s, m + 1 .. n)) = n - (m + 1) + 1
      /\ \A i \in 1 .. n - (m + 1) + 1 : Select(s, m + 1 .. n)[i] = s[(m + 1) + i - 1]
  <2>1. m + 1 \in Nat \ {0} /\ n <= Len(s) /\ m + 1 <= n + 1
    BY <1>0, <1>2
  <2> DEFINE a == m + 1
             W == 0 .. Window
  <2>2. s \in Seq(W) /\ a \in Nat \ {0} /\ n \in Nat /\ n <= Len(s) /\ a <= n + 1
    BY <1>0, <2>1
  <2> HIDE DEF a, W
  <2>3. Slice(W, s, a, n, Select(s, a .. n))
    BY <2>2, SelectInterval
  <2> QED BY <2>3 DEF a, W, Slice
<1>7. n - (m + 1) + 1 = n - m /\ \A i \in 1 .. n - m : (m + 1) + i - 1 = m + i /\ m + i \in m + 1 .. n
  BY <1>0, <1>2
<1>8. Len(Young(s)) = n - m /\ \A i \in 1 .. n - m : Young(s)[i] = s[m + i]
  BY <1>5, <1>6, <1>7
<1>9. Young(s) \in Seq(0 .. Window - 1)
  <2>1. \A i \in 1 .. n - m : Young(s)[i] \in 0 .. Window - 1
    BY <1>3, <1>7, <1>8
  <2>2. Young(s) \in Seq(0 .. Window)
    BY <1>5, <1>6
  <2> DEFINE t == Young(s)
             W == 0 .. Window - 1
  <2>3. t \in Seq(0 .. Window) /\ \A i \in 1 .. Len(t) : t[i] \in W
    BY <1>8, <2>1, <2>2
  <2> HIDE DEF t, W
  <2>4. t \in Seq(W)
    BY <2>3
  <2> QED BY <2>4 DEF t, W
<1> QED BY <1>2, <1>3, <1>8, <1>9 DEF n


-----------------------------------------------------------------------------
\* The invariant, of any two lists and any sleep: what the steps have to keep.
Aligned(r, s) ==
    /\ r \in Seq(0 .. Window - 1) /\ Aged(r)
    /\ s \in Seq(0 .. Window) /\ Aged(s) /\ Len(s) <= Limit
    /\ Len(r) - Len(s) <= Limit - 1
    /\ \A k \in 1 .. Len(s) : LET i == k + (Len(r) - Len(s))
                              IN  IF i >= 1 THEN r[i] = s[k] ELSE s[k] = Window

Sleeper(a, w, s) ==
    /\ w \in 0 .. Window + 1
    /\ a => s # << >> /\ (s[1] = Window \/ w + s[1] > Window)

LEMMA LimiterInvParts == LimiterInv <=> Aligned(recent, stamps) /\ Sleeper(asleep, wait, stamps)
BY DEF LimiterInv, Shift, StampsSorted, ClockOK, Aligned, Sleeper, Aged

\* The bounds that the runs check follow from the invariant.
LEMMA LimiterBounds == LimiterInv => RateBound /\ StampsSorted
<1> SUFFICES ASSUME LimiterInv PROVE RateBound /\ StampsSorted
  OBVIOUS
<1>1. Len(recent) \in Nat /\ Len(stamps) \in Nat /\ Limit \in Nat \ {0}
  BY GeoRateLimiterAssumption DEF LimiterInv, StampsSorted, ClockOK
<1>2. Len(stamps) <= Limit /\ Len(recent) - Len(stamps) <= Limit - 1
  BY DEF LimiterInv, StampsSorted, Shift
<1>3. RateBound
  BY <1>1, <1>2 DEF RateBound
<1> QED BY <1>3 DEF LimiterInv

\* A new call is the youngest.
LEMMA AppendAged ==
    ASSUME NEW W \in Nat \ {0}, NEW s \in Seq(0 .. W - 1), Aged(s)
    PROVE  /\ Append(s, 0) \in Seq(0 .. W - 1) /\ Aged(Append(s, 0))
           /\ Len(Append(s, 0)) = Len(s) + 1
           /\ Append(s, 0)[Len(s) + 1] = 0
           /\ \A i \in 1 .. Len(s) : Append(s, 0)[i] = s[i]
<1>1. /\ Append(s, 0) \in Seq(0 .. W - 1)
      /\ Len(Append(s, 0)) = Len(s) + 1 /\ Len(s) \in Nat
      /\ Append(s, 0)[Len(s) + 1] = 0
      /\ \A i \in 1 .. Len(s) : Append(s, 0)[i] = s[i] /\ s[i] >= 0
  OBVIOUS
<1> DEFINE t == Append(s, 0)
<1> HIDE DEF t
<1>2. ASSUME NEW k \in 1 .. Len(t), NEW l \in 1 .. Len(t), k < l PROVE t[k] >= t[l]
  <2>1. k \in 1 .. Len(s) /\ t[k] = s[k] /\ t[k] >= 0 /\ (l \in 1 .. Len(s) \/ l = Len(s) + 1)
    BY <1>1, <1>2 DEF t
  <2>2. CASE l = Len(s) + 1
    BY <1>1, <2>1, <2>2 DEF t
  <2>3. CASE l \in 1 .. Len(s)
    BY <1>1, <1>2, <2>1, <2>3 DEF Aged, t
  <2> QED BY <2>1, <2>2, <2>3
<1>3. Aged(t)
  BY <1>2 DEF Aged
<1> QED BY <1>1, <1>3 DEF t

\* Pruning takes away what the window has not.
LEMMA Pruned ==
    ASSUME NEW r, NEW s, Aligned(r, s)
    PROVE  /\ Aligned(r, Young(s))
           /\ Young(s) \in Seq(0 .. Window - 1)
           /\ Len(r) - Len(Young(s)) >= 0
<1>0. /\ r \in Seq(0 .. Window - 1) /\ Aged(r)
      /\ s \in Seq(0 .. Window) /\ Aged(s) /\ Len(s) <= Limit
      /\ Len(r) - Len(s) <= Limit - 1
      /\ Len(r) \in Nat /\ Len(s) \in Nat /\ Limit \in Nat \ {0} /\ Window \in Nat \ {0}
  BY GeoRateLimiterAssumption DEF Aligned
<1> DEFINE p == Len(r) - Len(s)
           y == Young(s)
<1>p. p \in Int /\ Len(r) = Len(s) + p /\ p <= Limit - 1
  BY <1>0
<1>1. \A k \in 1 .. Len(s) : IF k + p >= 1 THEN r[k + p] = s[k] ELSE s[k] = Window
  BY DEF Aligned
<1>2. PICK m \in 0 .. Len(s) :
              /\ \A k \in 1 .. m : s[k] = Window
              /\ \A k \in m + 1 .. Len(s) : s[k] \in 0 .. Window - 1
              /\ y \in Seq(0 .. Window - 1) /\ Len(y) = Len(s) - m
              /\ \A i \in 1 .. Len(s) - m : y[i] = s[m + i]
  BY <1>0, YoungFact
<1> HIDE DEF y, p
<1>3. \A i \in 1 .. Len(r) : r[i] \in 0 .. Window - 1
  BY <1>0, <1>p
<1>4. m + p <= 0 \/ m = 0
  <2> SUFFICES ASSUME m + p >= 1, m >= 1 PROVE FALSE
    BY <1>0, <1>p
  <2>1. m \in 1 .. Len(s) /\ m + p \in 1 .. Len(r)
    BY <1>0, <1>p
  <2>2. r[m + p] = s[m] /\ s[m] = Window
    BY <1>1, <1>2, <2>1
  <2> QED BY <1>0, <1>p, <1>3, <2>1, <2>2
<1>5. m + p >= 0
  <2> SUFFICES ASSUME m + p < 0 PROVE FALSE
    BY <1>0, <1>p
  <2>1. m + 1 \in m + 1 .. Len(s) /\ m + 1 \in 1 .. Len(s) /\ ~(m + 1 + p >= 1)
    BY <1>0, <1>p
  <2>2. s[m + 1] = Window
    BY <1>1, <2>1
  <2>3. s[m + 1] \in 0 .. Window - 1
    BY <1>2, <2>1
  <2> QED BY <1>0, <2>2, <2>3
<1>6. Len(r) - Len(y) = m + p /\ m + p <= Limit - 1 /\ Len(y) <= Limit
  BY <1>0, <1>p, <1>2, <1>4
<1>7. \A k \in 1 .. Len(y) : k + (m + p) >= 1 /\ r[k + (m + p)] = y[k]
  <2> TAKE k \in 1 .. Len(y)
  <2>1. k \in 1 .. Len(s) - m /\ m + k \in 1 .. Len(s) /\ (m + k) + p = k + (m + p)
        /\ k + (m + p) >= 1
    BY <1>0, <1>p, <1>2, <1>5
  <2> QED BY <1>1, <1>2, <2>1
<1>8. Aged(y)
  <2> SUFFICES ASSUME NEW k \in 1 .. Len(y), NEW l \in 1 .. Len(y), k < l PROVE y[k] >= y[l]
    BY DEF Aged
  <2>1. m + k \in 1 .. Len(s) /\ m + l \in 1 .. Len(s) /\ m + k < m + l
    BY <1>0, <1>2
  <2>2. s[m + k] >= s[m + l]
    BY <1>0, <2>1 DEF Aged
  <2> QED BY <1>2, <2>2
<1>9. y \in Seq(0 .. Window)
  BY <1>0, <1>p, <1>2
<1> QED BY <1>0, <1>p, <1>2, <1>5, <1>6, <1>7, <1>8, <1>9 DEF Aligned, y, p

\* One call more, in a list that has room for it and nothing old.
LEMMA Called ==
    ASSUME NEW r, NEW s, Aligned(r, s), s \in Seq(0 .. Window - 1),
           Len(s) < Limit, Len(r) - Len(s) >= 0
    PROVE  Aligned(Append(r, 0), Append(s, 0))
<1>0. /\ r \in Seq(0 .. Window - 1) /\ Aged(r) /\ Aged(s)
      /\ Len(r) - Len(s) <= Limit - 1
      /\ Len(r) \in Nat /\ Len(s) \in Nat /\ Limit \in Nat \ {0} /\ Window \in Nat \ {0}
  BY GeoRateLimiterAssumption DEF Aligned
<1> DEFINE p == Len(r) - Len(s)
           rr == Append(r, 0)
           ss == Append(s, 0)
<1>p. p \in Int /\ Len(r) = Len(s) + p /\ p <= Limit - 1 /\ p >= 0
  BY <1>0
<1>1. \A k \in 1 .. Len(s) : r[k + p] = s[k] /\ k + p \in 1 .. Len(r)
  BY <1>0, SMTT(30) DEF Aligned
<1>2. /\ rr \in Seq(0 .. Window - 1) /\ Aged(rr) /\ Len(rr) = Len(r) + 1 /\ rr[Len(r) + 1] = 0
      /\ \A i \in 1 .. Len(r) : rr[i] = r[i]
  BY <1>0, AppendAged
<1>3. /\ ss \in Seq(0 .. Window - 1) /\ Aged(ss) /\ Len(ss) = Len(s) + 1 /\ ss[Len(s) + 1] = 0
      /\ \A i \in 1 .. Len(s) : ss[i] = s[i]
  BY <1>0, AppendAged
<1> HIDE DEF rr, ss, p
<1>4. Len(rr) - Len(ss) = p
  BY <1>0, <1>p, <1>2, <1>3
<1>5. \A k \in 1 .. Len(ss) : rr[k + p] = ss[k] /\ k + p >= 1
  <2> TAKE k \in 1 .. Len(ss)
  <2>1. CASE k = Len(s) + 1
    <3>1. k + p = Len(r) + 1
      BY <1>0, <1>p, <2>1
    <3> QED BY <1>0, <1>p, <1>2, <1>3, <2>1, <3>1
  <2>2. CASE k \in 1 .. Len(s)
    BY <1>0, <1>p, <1>1, <1>2, <1>3, <2>2
  <2> QED BY <1>0, <1>p, <1>3, <2>1, <2>2
<1>6. ss \in Seq(0 .. Window)
  BY <1>0, <1>p, <1>3
<1>7. Len(ss) <= Limit
  BY <1>0, <1>3
<1>8. Aligned(rr, ss)
  BY <1>p, <1>2, <1>3, <1>4, <1>5, <1>6, <1>7 DEF Aligned
<1> QED BY <1>8 DEF rr, ss

\* A function on the first places is a sequence.
LEMMA AsSequence ==
    ASSUME NEW n \in Nat, NEW C, NEW t \in [1 .. n -> C]
    PROVE  t \in Seq(C) /\ Len(t) = n
OBVIOUS

\* A tick makes every age greater, up to a window.
LEMMA TickAligned ==
    ASSUME LimiterInv, Tick
    PROVE  Aligned(recent', stamps')
<1> DEFINE r == recent
           s == stamps
           o == [k \in DOMAIN r |-> Older(r[k])]
           p == Len(r) - Len(s)
<1>0. /\ r \in Seq(0 .. Window - 1) /\ Aged(r)
      /\ s \in Seq(0 .. Window) /\ Aged(s) /\ Len(s) <= Limit
      /\ Len(r) \in Nat /\ Len(s) \in Nat /\ Limit \in Nat \ {0} /\ Window \in Nat \ {0}
      /\ DOMAIN r = 1 .. Len(r) /\ DOMAIN s = 1 .. Len(s)
  BY LimiterInvParts, GeoRateLimiterAssumption DEF Aligned
<1>p. p \in Int /\ Len(r) = Len(s) + p /\ p <= Limit - 1
  BY <1>0, LimiterInvParts DEF Aligned
<1>1. \A k \in 1 .. Len(s) : IF k + p >= 1 THEN r[k + p] = s[k] ELSE s[k] = Window
  BY LimiterInvParts DEF Aligned
<1>2. /\ \A a \in 0 .. Window : Older(a) \in 0 .. Window
      /\ \A a, b \in 0 .. Window : a >= b => Older(a) >= Older(b)
      /\ Older(Window) = Window
  BY <1>0 DEF Older
<1>3. /\ stamps' = [k \in 1 .. Len(s) |-> Older(s[k])]
      /\ recent' = Young(o)
  BY <1>0 DEF Tick
<1>4. o = [k \in 1 .. Len(r) |-> Older(r[k])]
  BY <1>0
<1> DEFINE ss == stamps'
           rr == recent'
<1>5. /\ o \in Seq(0 .. Window) /\ Len(o) = Len(r)
      /\ \A k \in 1 .. Len(r) : o[k] = Older(r[k])
  <2>1. \A k \in 1 .. Len(r) : Older(r[k]) \in 0 .. Window
    BY <1>0, <1>2
  <2> HIDE DEF o
  <2>2. o \in [1 .. Len(r) -> 0 .. Window]
    BY <1>4, <2>1
  <2>3. \A k \in 1 .. Len(r) : o[k] = Older(r[k])
    BY <1>4
  <2> DEFINE W == 0 .. Window
             n == Len(r)
  <2>5. o \in [1 .. n -> W] /\ n \in Nat
    BY <1>0, <2>2
  <2> HIDE DEF W, n
  <2>6. o \in Seq(W) /\ Len(o) = n
    BY <2>5, AsSequence
  <2>4. o \in Seq(0 .. Window) /\ Len(o) = Len(r)
    BY <2>6 DEF W, n
  <2> QED BY <2>3, <2>4
<1>6. /\ ss \in Seq(0 .. Window) /\ Len(ss) = Len(s)
      /\ \A k \in 1 .. Len(s) : ss[k] = Older(s[k])
  <2>1. \A k \in 1 .. Len(s) : Older(s[k]) \in 0 .. Window
    BY <1>0, <1>2
  <2> DEFINE W == 0 .. Window
             n == Len(s)
  <2>2. ss \in [1 .. n -> W] /\ n \in Nat
    BY <1>0, <1>3, <2>1
  <2>3. \A k \in 1 .. Len(s) : ss[k] = Older(s[k])
    BY <1>3
  <2> HIDE DEF W, n, ss
  <2>4. ss \in Seq(W) /\ Len(ss) = n
    BY <2>2, AsSequence
  <2> QED BY <2>3, <2>4 DEF W, n
<1> HIDE DEF o, p
<1>7. Aged(o)
  <2> SUFFICES ASSUME NEW k \in 1 .. Len(r), NEW l \in 1 .. Len(r), k < l PROVE o[k] >= o[l]
    BY <1>5 DEF Aged
  <2>1. r[k] >= r[l] /\ r[k] \in 0 .. Window /\ r[l] \in 0 .. Window
    BY <1>0 DEF Aged
  <2> QED BY <1>2, <1>5, <2>1
<1>8. Aged(ss)
  <2> SUFFICES ASSUME NEW k \in 1 .. Len(s), NEW l \in 1 .. Len(s), k < l PROVE ss[k] >= ss[l]
    BY <1>6 DEF Aged
  <2>1. s[k] >= s[l] /\ s[k] \in 0 .. Window /\ s[l] \in 0 .. Window
    BY <1>0 DEF Aged
  <2> QED BY <1>2, <1>6, <2>1
<1>9. PICK m \in 0 .. Len(o) :
              /\ \A k \in 1 .. m : o[k] = Window
              /\ \A k \in m + 1 .. Len(o) : o[k] \in 0 .. Window - 1
              /\ Young(o) \in Seq(0 .. Window - 1) /\ Len(Young(o)) = Len(o) - m
              /\ \A i \in 1 .. Len(o) - m : Young(o)[i] = o[m + i]
  BY <1>5, <1>7, YoungFact
<1>10. /\ rr \in Seq(0 .. Window - 1) /\ Len(rr) = Len(r) - m
       /\ \A i \in 1 .. Len(r) - m : rr[i] = o[m + i]
  BY <1>3, <1>5, <1>9
<1>m. m \in 0 .. Len(r)
  BY <1>5
<1> HIDE DEF rr, ss
<1>11. Aged(rr)
  <2> SUFFICES ASSUME NEW k \in 1 .. Len(r) - m, NEW l \in 1 .. Len(r) - m, k < l PROVE rr[k] >= rr[l]
    BY <1>10 DEF Aged
  <2>1. m + k \in 1 .. Len(o) /\ m + l \in 1 .. Len(o) /\ m + k < m + l
    BY <1>0, <1>5, <1>m
  <2>2. o[m + k] >= o[m + l]
    BY <1>7, <2>1 DEF Aged
  <2> QED BY <1>10, <2>2
<1>12. Len(rr) - Len(ss) = p - m /\ p - m <= Limit - 1
  <2>1. Len(rr) = Len(r) - m /\ Len(ss) = Len(s)
    BY <1>6, <1>10
  <2>2. Len(r) - m - Len(s) = p - m /\ p - m <= Limit - 1
    BY <1>0, <1>p, <1>m
  <2> QED BY <2>1, <2>2
<1>13. ASSUME NEW k \in 1 .. Len(s)
       PROVE  IF k + (p - m) >= 1 THEN rr[k + (p - m)] = ss[k] ELSE ss[k] = Window
  <2>1. CASE k + (p - m) >= 1
    <3>1. k + p >= 1 /\ k + p \in 1 .. Len(r) /\ k + (p - m) \in 1 .. Len(r) - m
          /\ m + (k + (p - m)) = k + p
      BY <1>0, <1>p, <1>m, <2>1
    <3>2. rr[k + (p - m)] = o[k + p]
      BY <1>10, <3>1
    <3>3. o[k + p] = Older(s[k])
      BY <1>1, <1>5, <3>1
    <3> QED BY <1>6, <2>1, <3>2, <3>3
  <2>2. CASE ~(k + (p - m) >= 1) /\ k + p >= 1
    <3>1. k + p \in 1 .. m /\ k + p \in 1 .. Len(r)
      BY <1>0, <1>p, <1>m, <2>2
    <3>2. o[k + p] = Window /\ o[k + p] = Older(s[k])
      BY <1>1, <1>5, <1>9, <2>2, <3>1
    <3> QED BY <1>6, <2>2, <3>2
  <2>3. CASE ~(k + p >= 1)
    <3>1. ss[k] = Window
      BY <1>1, <1>2, <1>6, <2>3
    <3>2. ~(k + (p - m) >= 1)
      BY <1>p, <1>m, <2>3
    <3> QED BY <3>1, <3>2
  <2> QED BY <2>1, <2>2, <2>3
<1>14. Aligned(rr, ss)
  BY <1>0, <1>6, <1>8, <1>10, <1>11, <1>12, <1>13 DEF Aligned
<1> QED BY <1>14 DEF rr, ss

\* A sleeper has as long to sleep as its oldest stamp needs to be a window old.
LEMMA TickSleeper ==
    ASSUME LimiterInv, Tick
    PROVE  Sleeper(asleep', wait', stamps')
<1>0. /\ stamps \in Seq(0 .. Window) /\ Window \in Nat \ {0} /\ wait \in 0 .. Window + 1
      /\ asleep => stamps # << >> /\ (stamps[1] = Window \/ wait + stamps[1] > Window)
      /\ stamps' = [k \in 1 .. Len(stamps) |-> Older(stamps[k])]
      /\ wait' = IF wait > 0 THEN wait - 1 ELSE 0
      /\ asleep' = asleep
  BY LimiterInvParts, GeoRateLimiterAssumption DEF Aligned, Sleeper, Tick
<1>1. wait' \in 0 .. Window + 1
  BY <1>0
<1>2. ASSUME asleep PROVE stamps' # << >> /\ (stamps'[1] = Window \/ wait' + stamps'[1] > Window)
  <2>1. 1 \in 1 .. Len(stamps) /\ stamps[1] \in 0 .. Window
    BY <1>0, <1>2
  <2>2. stamps'[1] = Older(stamps[1]) /\ 1 \in DOMAIN stamps'
    BY <1>0, <2>1
  <2>5. stamps' # << >>
    BY <1>0, <2>1, <2>2
  <2>3. CASE stamps[1] = Window
    BY <1>0, <2>2, <2>3, <2>5 DEF Older
  <2>4. CASE stamps[1] < Window
    <3>1. stamps'[1] = stamps[1] + 1 /\ wait > 0 /\ wait' = wait - 1
      BY <1>0, <1>2, <2>1, <2>2, <2>4 DEF Older
    <3> QED BY <1>0, <1>2, <2>1, <2>2, <2>4, <2>5, <3>1
  <2> QED BY <1>0, <2>1, <2>2, <2>3, <2>4
<1> QED BY <1>0, <1>1, <1>2 DEF Sleeper

LEMMA LimiterInitially == LimiterInit => LimiterInv
<1> SUFFICES ASSUME LimiterInit PROVE LimiterInv
  OBVIOUS
<1>1. recent = << >> /\ stamps = << >> /\ wait = 0 /\ asleep = FALSE
  BY DEF LimiterInit
<1>2. Aligned(recent, stamps)
  BY <1>1, GeoRateLimiterAssumption DEF Aligned, Aged
<1>3. Sleeper(asleep, wait, stamps)
  BY <1>1, GeoRateLimiterAssumption DEF Sleeper
<1> QED BY <1>2, <1>3, LimiterInvParts

LEMMA LimiterKeeps == LimiterInv /\ [LimiterNext]_limiterVars => LimiterInv'
<1> SUFFICES ASSUME LimiterInv, [LimiterNext]_limiterVars PROVE LimiterInv'
  OBVIOUS
<1> USE GeoRateLimiterAssumption
<1>0. Aligned(recent, stamps) /\ Sleeper(asleep, wait, stamps)
  BY LimiterInvParts
<1>q. LimiterInv' <=> Aligned(recent', stamps') /\ Sleeper(asleep', wait', stamps')
  BY DEF LimiterInv, Shift, StampsSorted, ClockOK, Aligned, Sleeper, Aged
<1>1. CASE UNCHANGED limiterVars
  BY <1>0, <1>1, <1>q DEF limiterVars
<1>2. ASSUME NEW c \in Callers, Arrive(c) \/ Abort(c) PROVE LimiterInv'
  <2>1. UNCHANGED <<stamps, recent>>
    BY <1>2 DEF Arrive, Abort
  <2>2. (UNCHANGED <<asleep, wait>>) \/ (asleep' = FALSE /\ wait' = 0)
    BY <1>2 DEF Arrive, Abort
  <2>3. Sleeper(asleep', wait', stamps')
    BY <1>0, <2>1, <2>2 DEF Sleeper
  <2> QED BY <1>0, <1>q, <2>1, <2>3
<1>3. CASE Pass
  <2>1. /\ Aligned(recent, Young(stamps)) /\ Young(stamps) \in Seq(0 .. Window - 1)
        /\ Len(recent) - Len(Young(stamps)) >= 0
    BY <1>0, Pruned
  <2>2. Aligned(Append(recent, 0), Append(Young(stamps), 0))
    BY <1>3, <2>1, Called DEF Pass
  <2>3. Aligned(recent', stamps') /\ asleep' = FALSE /\ wait' = wait
    BY <1>3, <2>2 DEF Pass, Grant, Sleeper
  <2> QED BY <1>0, <1>q, <2>3 DEF Sleeper
<1>4. CASE Sleep
  <2>1. /\ Aligned(recent, Young(stamps)) /\ Young(stamps) \in Seq(0 .. Window - 1)
    BY <1>0, Pruned
  <2>2. Aligned(recent', stamps') /\ asleep' = TRUE /\ wait' = Window - stamps'[1] + 1
        /\ stamps' \in Seq(0 .. Window - 1) /\ Len(stamps') >= Limit
    BY <1>4, <2>1 DEF Sleep
  <2>3. Len(stamps') \in Nat /\ 1 \in 1 .. Len(stamps') /\ stamps'[1] \in 0 .. Window - 1
    BY <2>2
  <2> QED BY <1>q, <2>2, <2>3, SMTT(30) DEF Sleeper
<1>5. CASE Wake
  <2>1. stamps[1] = Window /\ stamps # << >> /\ stamps \in Seq(0 .. Window)
        /\ recent \in Seq(0 .. Window - 1)
    BY <1>0, <1>5 DEF Wake, Sleeper, Aligned
  <2>2. 1 \in 1 .. Len(stamps) /\ Len(recent) \in Nat /\ Len(stamps) \in Nat
    BY <2>1
  <2>3. Len(recent) - Len(stamps) < 0
    <3> SUFFICES ASSUME Len(recent) - Len(stamps) >= 0 PROVE FALSE
      BY <2>2
    <3> DEFINE i == 1 + (Len(recent) - Len(stamps))
    <3>1. i >= 1 /\ i \in 1 .. Len(recent)
      BY <2>2
    <3>2. recent[i] = stamps[1]
      BY <1>0, <2>2, <3>1 DEF Aligned
    <3>3. recent[i] \in 0 .. Window - 1
      BY <2>1, <3>1
    <3> QED BY <2>1, <3>2, <3>3
  <2>4. Len(recent) <= Limit - 1 /\ Aged(recent)
    BY <1>0, <2>2, <2>3 DEF Aligned
  <2> DEFINE e == << >>
  <2>5. Aligned(recent, e) /\ e \in Seq(0 .. Window - 1) /\ Len(e) = 0
    BY <2>1, <2>2, <2>4 DEF Aligned, Aged
  <2>6. Aligned(Append(recent, 0), Append(e, 0))
    <3> HIDE DEF e
    <3>1. Len(e) < Limit /\ Len(recent) - Len(e) >= 0
      BY <2>2, <2>5
    <3> QED BY <2>5, <3>1, Called
  <2>7. Aligned(recent', stamps') /\ asleep' = FALSE /\ wait' = wait
    BY <1>5, <2>6 DEF Wake, Grant
  <2> QED BY <1>0, <1>q, <2>7 DEF Sleeper
<1>6. CASE Tick
  BY <1>6, <1>q, TickAligned, TickSleeper
<1> QED BY <1>1, <1>2, <1>3, <1>4, <1>5, <1>6 DEF LimiterNext

-----------------------------------------------------------------------------
USE ValidatorAssumption

(* The limiter keeps its invariant on its own, whoever calls it and when:  *)
(* the list is sorted and no longer than the limit, it is the last window  *)
(* of calls but for what clear() dropped, and a sleeper will not wake      *)
(* before its oldest stamp is a window old (core/utils.py:171-211).        *)
THEOREM LimiterInvariant == LimiterSpec => []LimiterInv
BY LimiterInitially, LimiterKeeps, PTL DEF LimiterSpec

\* What the validator does is a step of the limiter, or none of its business.
LEMMA LimiterSteps == [Next]_vars => [LimiterNext]_limiterVars
<1> SUFFICES ASSUME [Next]_vars PROVE [LimiterNext]_limiterVars
  OBVIOUS
<1>1. CASE Start \/ Batch \/ Outcomes \/ End \/ Cancel \/ Stopped \/ UNCHANGED vars
  BY <1>1 DEF Start, Batch, Outcomes, End, Cancel, Stopped, Leave, vars
<1>2. ASSUME NEW c \in Configs, Validation(c) PROVE [LimiterNext]_limiterVars
  <2>1. c \in Callers
    OBVIOUS
  <2>2. CASE Ask(c)
    BY <2>1, <2>2 DEF Ask, LimiterNext
  <2>3. CASE Cancelled(c)
    BY <2>1, <2>3 DEF Cancelled, LimiterNext
  <2>4. CASE Seen(c) \/ NoLookup(c) \/ Answer(c)
    BY <2>4 DEF Seen, NoLookup, Answer
  <2> QED BY <1>2, <2>2, <2>3, <2>4 DEF Validation
<1>3. ASSUME NEW o \in Others, OtherCalls(o) PROVE [LimiterNext]_limiterVars
  <2>1. o \in Callers
    OBVIOUS
  <2> QED BY <1>3, <2>1 DEF OtherCalls, LimiterNext
<1>4. CASE LimiterStep
  BY <1>4 DEF LimiterStep, PassLimiter, SleepInLimiter, WakeInLimiter, LimiterNext
<1>5. CASE Time
  BY <1>5 DEF Time, LimiterNext
<1> QED BY <1>1, <1>2, <1>3, <1>4, <1>5 DEF Next

(* The validations use the limiter by its operations only: no batch, no    *)
(* answer and no cancelled job does to the lock, the sleeper or the list   *)
(* what acquire() would not (processor/validator.py:114-121).              *)
THEOREM ValidatorImplementsLimiter == Spec => LimiterSpec
<1>1. Init => LimiterInit
  BY DEF Init
<1> QED BY <1>1, LimiterSteps, PTL DEF Spec, LimiterSpec

(* So the invariant of the limiter holds with the validator as its caller. *)
THEOREM LimiterInvariantHere == Spec => []LimiterInv
BY LimiterInvariant, ValidatorImplementsLimiter, PTL

(* No minute sees 2 * calls_per_minute calls, in spite of the clear() that *)
(* forgets calls of the last minute (core/utils.py:171-195).               *)
THEOREM RateBounded == Spec => []RateBound
BY LimiterBounds, LimiterInvariantHere, PTL

(* The first stamp is the oldest, the list never outgrows the limit, and   *)
(* no sleep is longer than a window and its margin (179-193).              *)
THEOREM StampsInOrder == Spec => []StampsSorted
BY LimiterBounds, LimiterInvariantHere, PTL
=============================================================================
