-------------------------- MODULE ScrapeSources_proof --------------------------
(***************************************************************************)
(* Theorems about scrapes and the table of sources, for any sources,       *)
(* scrapes and retries: results of one source do not take the place of     *)
(* those of another, and seeding leaves an edited table alone.             *)
(***************************************************************************)
EXTENDS ScrapeSources, FiniteSetTheorems, TLAPS

USE ScrapeSourcesAssumption

-----------------------------------------------------------------------------
(* The table.                                                              *)

LEMMA AddKept ==
    ASSUME SourceTableOK, SourcesApart, NEW c \in Sources, AddScraperSource(c)
    PROVE  SourceTableOK' /\ SourcesApart'
BY DEF SourceTableOK, SourcesApart, AddScraperSource

LEMMA ToggleKept ==
    ASSUME SourceTableOK, SourcesApart, NEW c \in sources, ToggleScraperSource(c)
    PROVE  SourceTableOK' /\ SourcesApart'
BY DEF SourceTableOK, SourcesApart, ToggleScraperSource

-----------------------------------------------------------------------------
(* Plans.                                                                  *)
Apart(q) == \A i, k \in DOMAIN q : q[i].name = q[k].name => i = k

\* What is read from the table, or from the file, names no source twice.
LEMMA ReadApart ==
    ASSUME SourceTableOK, SourcesApart, NEW q \in ActiveSources
    PROVE  q \in Seq(Sources) /\ Apart(q)
<1> DEFINE n == Cardinality(active)
<1>1. active \subseteq Sources /\ active \subseteq sources
  BY DEF SourceTableOK
<1>2. n \in Nat
  BY <1>1, FS_Subset, FS_CardinalityType
<1>3. q \in [1 .. n -> active] /\ \A i, k \in 1 .. n : i # k => q[i] # q[k]
  BY DEF ActiveSources, SetToSeqs
<1> HIDE DEF n
<1>4. q \in Seq(Sources)
  BY <1>1, <1>2, <1>3
<1>5. ASSUME NEW i \in DOMAIN q, NEW k \in DOMAIN q, q[i].name = q[k].name PROVE i = k
  <2>1. i \in 1 .. n /\ k \in 1 .. n /\ q[i] \in sources /\ q[k] \in sources
    BY <1>1, <1>3
  <2>2. q[i] = q[k]
    BY <1>5, <2>1 DEF SourcesApart
  <2> QED BY <1>3, <2>1, <2>2
<1> QED BY <1>4, <1>5 DEF Apart

\* The rest of a plan, and the one that was its first.
LEMMA RestApart ==
    ASSUME NEW s \in Seq(Sources), Apart(s), s # << >>
    PROVE  /\ Head(s) \in Sources /\ Tail(s) \in Seq(Sources) /\ Apart(Tail(s))
           /\ \A i \in DOMAIN Tail(s) : Tail(s)[i].name # Head(s).name
           /\ \A i \in DOMAIN Tail(s) : \E k \in DOMAIN s : Tail(s)[i] = s[k]
           /\ 1 \in DOMAIN s /\ Head(s) = s[1]
<1>1. /\ DOMAIN s = 1 .. Len(s) /\ Len(s) \in Nat \ {0}
      /\ DOMAIN Tail(s) = 1 .. Len(s) - 1
      /\ \A i \in 1 .. Len(s) - 1 : Tail(s)[i] = s[i + 1]
      /\ Head(s) = s[1] /\ Tail(s) \in Seq(Sources) /\ s[1] \in Sources
  OBVIOUS
<1>2. \A i \in DOMAIN Tail(s) : i + 1 \in DOMAIN s /\ i + 1 # 1
  BY <1>1
<1>3. Apart(Tail(s))
  BY <1>1, <1>2, SMTT(30) DEF Apart
<1>4. \A i \in DOMAIN Tail(s) : Tail(s)[i].name # Head(s).name
  BY <1>1, <1>2 DEF Apart
<1> QED BY <1>1, <1>2, <1>3, <1>4

\* What is known of the plan of one scrape and of what it has been through.
Shape(p, q, f, r) ==
    /\ Apart(q)
    /\ \A i \in DOMAIN q, c \in f : q[i].name # c.name
    /\ p # "fetch" => q = << >> /\ f = {}
    /\ \A c \in f : r[c.name] = {c}

Typed ==
    /\ pc \in [Jobs -> {"idle", "read", "fetch"}]
    /\ plan \in [Jobs -> Seq(Sources)]
    /\ attempt \in [Jobs -> 0 .. Retries]
    /\ results \in [Jobs -> [Names -> SUBSET Sources]]
    /\ fetched \in [Jobs -> SUBSET Sources]

Scrapes == Typed /\ \A j \in Jobs : Shape(pc[j], plan[j], fetched[j], results[j])

\* Defaults are only added to a table that holds nothing else.
Seeding ==
    /\ phase \in {"down", "seeding", "up"}
    /\ seeding \in Seq(ToSet(Defaults))
    /\ phase # "seeding" => seeding = << >>
    /\ seeding # << >> => sources \subseteq ToSet(Defaults) /\ active = sources

Inv == SourceTableOK /\ SourcesApart /\ Seeding /\ Scrapes

LEMMA DefaultsAreSources ==
    ToSet(Defaults) \subseteq Sources /\ Defaults \in Seq(ToSet(Defaults)) /\ Apart(Defaults)
BY DEF ToSet, Apart

LEMMA InvImplies == Inv => SourcesInv /\ ResultsKept
<1> SUFFICES ASSUME Inv PROVE SourcesInv /\ ResultsKept
  OBVIOUS
<1>1. seeding \in Seq(Sources)
  BY DefaultsAreSources DEF Inv, Seeding
<1>2. TypeOK
  BY <1>1 DEF Inv, Seeding, Scrapes, Typed, TypeOK
<1>3. ResultsKept /\ \A j \in Jobs : PlanShape(j)
  BY DEF Inv, Scrapes, Shape, Apart, ResultsKept, PlanShape
<1> QED BY <1>2, <1>3 DEF Inv, SourcesInv

-----------------------------------------------------------------------------
(* Scrapes.                                                                *)

\* A step of one scrape is right when what it leaves of it is.
LEMMA OneScrape ==
    ASSUME Scrapes, NEW j \in Jobs,
           NEW p \in {"idle", "read", "fetch"}, pc' = [pc EXCEPT ![j] = p],
           NEW q \in Seq(Sources), plan' = [plan EXCEPT ![j] = q],
           NEW a \in 0 .. Retries, attempt' = [attempt EXCEPT ![j] = a],
           NEW r \in [Names -> SUBSET Sources], results' = [results EXCEPT ![j] = r],
           NEW f \in SUBSET Sources, fetched' = [fetched EXCEPT ![j] = f],
           Shape(p, q, f, r)
    PROVE  Scrapes'
<1>1. Typed'
  BY DEF Scrapes, Typed
<1>2. ASSUME NEW k \in Jobs PROVE Shape(pc'[k], plan'[k], fetched'[k], results'[k])
  BY DEF Scrapes, Typed
<1> QED BY <1>1, <1>2 DEF Scrapes

LEMMA NoResultsTyped == NoResults \in [Names -> SUBSET Sources]
BY DEF NoResults

\* The state of a scrape that is not changed.
LEMMA Same ==
    ASSUME Scrapes, NEW j \in Jobs
    PROVE  /\ pc[j] \in {"idle", "read", "fetch"} /\ plan[j] \in Seq(Sources)
           /\ attempt[j] \in 0 .. Retries /\ results[j] \in [Names -> SUBSET Sources]
           /\ fetched[j] \in SUBSET Sources
           /\ pc = [pc EXCEPT ![j] = pc[j]] /\ plan = [plan EXCEPT ![j] = plan[j]]
           /\ attempt = [attempt EXCEPT ![j] = attempt[j]]
           /\ results = [results EXCEPT ![j] = results[j]]
           /\ fetched = [fetched EXCEPT ![j] = fetched[j]]
           /\ Shape(pc[j], plan[j], fetched[j], results[j])
BY DEF Scrapes, Typed

LEMMA ForgetKept ==
    ASSUME Scrapes, NEW j \in Jobs, Forget(j)
    PROVE  Scrapes'
<1>1. /\ Shape("idle", << >>, {}, NoResults) /\ << >> \in Seq(Sources) /\ 0 \in 0 .. Retries
      /\ "idle" \in {"idle", "read", "fetch"} /\ {} \in SUBSET Sources
  BY DEF Shape, Apart
<1>2. /\ pc' = [pc EXCEPT ![j] = "idle"] /\ plan' = [plan EXCEPT ![j] = << >>]
      /\ attempt' = [attempt EXCEPT ![j] = 0] /\ results' = [results EXCEPT ![j] = NoResults]
      /\ fetched' = [fetched EXCEPT ![j] = {}]
  BY DEF Forget
<1> QED BY <1>1, <1>2, OneScrape, NoResultsTyped, Zenon

LEMMA BeginKept ==
    ASSUME Scrapes, NEW j \in Jobs, Begin(j)
    PROVE  Scrapes'
<1>1. Shape("read", plan[j], fetched[j], results[j])
  BY Same DEF Begin, Shape
<1>2. /\ pc' = [pc EXCEPT ![j] = "read"]
      /\ UNCHANGED <<plan, attempt, results, fetched>>
  BY DEF Begin
<1> QED BY <1>1, <1>2, Same, OneScrape

LEMMA ReadKept ==
    ASSUME SourceTableOK, SourcesApart, Scrapes, NEW j \in Jobs, ReadSources(j)
    PROVE  Scrapes'
<1>1. PICK q \in ActiveSources \cup {Defaults} : plan' = [plan EXCEPT ![j] = q]
  BY DEF ReadSources
<1>2. q \in Seq(Sources) /\ Apart(q)
  BY <1>1, ReadApart, DefaultsAreSources
<1>3. /\ pc' = [pc EXCEPT ![j] = "fetch"] /\ pc[j] = "read"
      /\ UNCHANGED <<attempt, results, fetched>>
  BY DEF ReadSources
<1>4. fetched[j] = {}
  BY <1>3, Same DEF Shape
<1>5. Shape("fetch", q, fetched[j], results[j])
  BY <1>2, <1>4 DEF Shape
<1> QED BY <1>1, <1>2, <1>3, <1>5, Same, OneScrape

LEMMA RecordKept ==
    ASSUME Scrapes, NEW j \in Jobs, pc[j] = "fetch", plan[j] # << >>, Record(j), pc' = pc
    PROVE  Scrapes'
<1> DEFINE c == Head(plan[j])
           q == Tail(plan[j])
           f == fetched[j] \cup {c}
           r == [results[j] EXCEPT ![c.name] = {c}]
<1>0. /\ plan[j] \in Seq(Sources) /\ results[j] \in [Names -> SUBSET Sources]
      /\ fetched[j] \in SUBSET Sources
      /\ Apart(plan[j]) /\ \A d \in fetched[j] : results[j][d.name] = {d}
      /\ \A i \in DOMAIN plan[j], d \in fetched[j] : plan[j][i].name # d.name
  BY Same DEF Shape
<1>1. /\ c \in Sources /\ q \in Seq(Sources) /\ Apart(q)
      /\ \A i \in DOMAIN q : q[i].name # c.name
      /\ \A i \in DOMAIN q : \E k \in DOMAIN plan[j] : q[i] = plan[j][k]
      /\ 1 \in DOMAIN plan[j] /\ c = plan[j][1]
  BY <1>0, RestApart
<1>2. /\ plan' = [plan EXCEPT ![j] = q] /\ fetched' = [fetched EXCEPT ![j] = f]
      /\ results' = [results EXCEPT ![j] = r] /\ attempt' = [attempt EXCEPT ![j] = 0]
  BY Same DEF Record
<1>3. f \in SUBSET Sources /\ r \in [Names -> SUBSET Sources] /\ c.name \in Names
  BY <1>0, <1>1 DEF Names
<1> HIDE DEF c, q
<1>4. \A d \in f : r[d.name] = {d}
  <2> SUFFICES ASSUME NEW d \in f PROVE r[d.name] = {d}
    OBVIOUS
  <2>1. CASE d = c
    BY <1>0, <1>3, <2>1
  <2>2. CASE d \in fetched[j]
    <3>1. d.name # c.name /\ d.name \in Names
      BY <1>0, <1>1, <2>2 DEF Names
    <3> QED BY <1>0, <2>2, <3>1
  <2> QED BY <2>1, <2>2
<1>5. \A i \in DOMAIN q, d \in f : q[i].name # d.name
  <2> SUFFICES ASSUME NEW i \in DOMAIN q, NEW d \in f PROVE q[i].name # d.name
    OBVIOUS
  <2>1. PICK k \in DOMAIN plan[j] : q[i] = plan[j][k]
    BY <1>1
  <2> QED BY <1>0, <1>1, <2>1
<1> HIDE DEF f, r
<1>6. Shape("fetch", q, f, r)
  BY <1>1, <1>4, <1>5 DEF Shape
<1>7. pc' = [pc EXCEPT ![j] = "fetch"] /\ 0 \in 0 .. Retries
  BY Same
<1> QED BY <1>1, <1>2, <1>3, <1>6, <1>7, OneScrape

LEMMA ScrapeKept ==
    ASSUME SourceTableOK, SourcesApart, Scrapes, NEW j \in Jobs,
           Begin(j) \/ Scrape(j) \/ Cancel(j)
    PROVE  Scrapes'
<1>1. CASE FetchOk(j)
  BY <1>1, RecordKept DEF FetchOk
<1>2. CASE FetchFails(j)
  <2>1. CASE attempt[j] < Retries
    <3>1. /\ attempt' = [attempt EXCEPT ![j] = attempt[j] + 1]
          /\ UNCHANGED <<pc, plan, results, fetched>>
      BY <1>2, <2>1 DEF FetchFails
    <3>2. attempt[j] \in 0 .. Retries /\ attempt[j] + 1 \in 0 .. Retries
      BY <2>1, Same
    <3>3. attempt' \in [Jobs -> 0 .. Retries]
      BY <3>1, <3>2 DEF Scrapes, Typed
    <3> QED BY <3>1, <3>3 DEF Scrapes, Typed
  <2>2. CASE ~(attempt[j] < Retries)
    BY <1>2, <2>2, RecordKept DEF FetchFails
  <2> QED BY <2>1, <2>2
<1>3. CASE Return(j) \/ Cancel(j)
  BY <1>3, ForgetKept DEF Return, Cancel
<1> QED BY <1>1, <1>2, <1>3, BeginKept, ReadKept DEF Scrape

-----------------------------------------------------------------------------
LEMMA IdleScrapes ==
    ASSUME ScrapesIdle
    PROVE  Scrapes
<1>1. Typed
  BY NoResultsTyped DEF ScrapesIdle, Typed
<1>2. \A j \in Jobs : Shape(pc[j], plan[j], fetched[j], results[j])
  BY DEF ScrapesIdle, Shape, Apart
<1> QED BY <1>1, <1>2 DEF Scrapes

LEMMA InvInit == Init => Inv
<1> SUFFICES ASSUME Init PROVE Inv
  OBVIOUS
<1>1. SourceTableOK /\ SourcesApart
  BY DEF Init, SourceTableInit, SourceTableOK, SourcesApart
<1>2. Seeding
  BY DEF Init, Seeding
<1> QED BY <1>1, <1>2, IdleScrapes DEF Init, Inv

\* What leaves the scrapes as they are.
LEMMA ScrapesSame ==
    ASSUME Scrapes, UNCHANGED jobVars
    PROVE  Scrapes'
BY DEF Scrapes, Typed, jobVars

\* The seeding, and the one step that it changes the table in.
LEMMA SeedOneFact ==
    ASSUME Inv, SeedOne
    PROVE  /\ SourceTableOK' /\ SourcesApart' /\ Seeding'
           /\ sources \subseteq ToSet(Defaults) /\ active = sources
<1>0. /\ phase = "seeding" /\ seeding # << >> /\ seeding \in Seq(ToSet(Defaults))
      /\ sources \subseteq ToSet(Defaults) /\ active = sources
      /\ seeding' = Tail(seeding) /\ phase' = phase
  BY DEF Inv, Seeding, SeedOne
<1>1. Head(seeding) \in ToSet(Defaults) /\ Tail(seeding) \in Seq(ToSet(Defaults))
  <2> DEFINE D == ToSet(Defaults)
  <2>1. seeding \in Seq(D) /\ seeding # << >>
    BY <1>0
  <2> HIDE DEF D
  <2>2. Head(seeding) \in D /\ Tail(seeding) \in Seq(D)
    BY <2>1
  <2> QED BY <2>2 DEF D
<1>2. SourceTableOK' /\ SourcesApart'
  BY <1>1, AddKept, DefaultsAreSources DEF Inv, SeedOne
<1>3. sources' \subseteq ToSet(Defaults) /\ active' = sources'
  <2> DEFINE D == ToSet(Defaults)
             c == Head(seeding)
  <2>1. c \in D /\ sources \subseteq D /\ active = sources
    BY <1>0, <1>1
  <2>2. \/ UNCHANGED <<sources, active>>
        \/ sources' = sources \cup {c} /\ active' = active \cup {c}
    BY DEF SeedOne, AddScraperSource
  <2> HIDE DEF D, c
  <2>3. sources' \subseteq D /\ active' = sources'
    BY <2>1, <2>2
  <2> QED BY <2>3 DEF D
<1>4. Seeding'
  <2> DEFINE D == ToSet(Defaults)
  <2>1. seeding' \in Seq(D) /\ phase' = "seeding" /\ sources' \subseteq D /\ active' = sources'
    BY <1>0, <1>1, <1>3
  <2>2. Seeding' <=> /\ phase' \in {"down", "seeding", "up"}
                     /\ seeding' \in Seq(D)
                     /\ phase' # "seeding" => seeding' = << >>
                     /\ seeding' # << >> => sources' \subseteq D /\ active' = sources'
    BY DEF Seeding, ToSet
  <2> HIDE DEF D
  <2> QED BY <2>1, <2>2
<1> QED BY <1>0, <1>2, <1>4

LEMMA InvNext == Inv /\ [Next]_vars => Inv'
<1> SUFFICES ASSUME Inv, [Next]_vars PROVE Inv'
  OBVIOUS
<1>0. SourceTableOK /\ SourcesApart /\ Seeding /\ Scrapes
  BY DEF Inv
<1>1. CASE PostInit
  <2>1. Seeding'
    BY <1>0, <1>1, DefaultsAreSources DEF PostInit, Seeding, SourceTableOK, tableVars
  <2> QED BY <1>0, <1>1, <2>1, ScrapesSame DEF PostInit, tableVars, Inv, SourceTableOK, SourcesApart
<1>2. CASE SeedOne
  BY <1>0, <1>2, SeedOneFact, ScrapesSame DEF SeedOne, Inv
<1>3. CASE SeedEnds
  BY <1>0, <1>3, ScrapesSame DEF SeedEnds, tableVars, Inv, SourceTableOK, SourcesApart, Seeding
<1>4. CASE AdminAdds
  <2>1. SourceTableOK' /\ SourcesApart'
    BY <1>0, <1>4, AddKept DEF AdminAdds
  <2>2. Seeding'
    BY <1>0, <1>4 DEF AdminAdds, Seeding
  <2> QED BY <1>0, <1>4, <2>1, <2>2, ScrapesSame DEF AdminAdds, Inv
<1>5. CASE AdminToggles
  <2>1. SourceTableOK' /\ SourcesApart'
    BY <1>0, <1>5, ToggleKept DEF AdminToggles
  <2>2. Seeding'
    BY <1>0, <1>5 DEF AdminToggles, Seeding
  <2> QED BY <1>0, <1>5, <2>1, <2>2, ScrapesSame DEF AdminToggles, Inv
<1>6. ASSUME NEW j \in Jobs, Begin(j) \/ Scrape(j) \/ Cancel(j) PROVE Inv'
  <2>1. UNCHANGED <<sources, active, phase, seeding>>
    BY <1>6 DEF Begin, Scrape, Cancel, ReadSources, FetchOk, FetchFails, Return, tableVars
  <2>2. Scrapes'
    BY <1>0, <1>6, ScrapeKept
  <2> QED BY <1>0, <2>1, <2>2 DEF Inv, SourceTableOK, SourcesApart, Seeding
<1>7. CASE Crash
  <2>1. ScrapesIdle'
    BY <1>7 DEF Crash, ScrapesIdle, NoResults
  <2>2. Scrapes'
    BY <2>1, IdleScrapes, PTL
  <2> QED BY <1>0, <1>7, <2>2 DEF Crash, tableVars, Inv, SourceTableOK, SourcesApart, Seeding
<1>8. CASE UNCHANGED vars
  BY <1>0, <1>8, ScrapesSame DEF vars, tableVars, Inv, SourceTableOK, SourcesApart, Seeding
<1> QED BY <1>1, <1>2, <1>3, <1>4, <1>5, <1>6, <1>7, <1>8 DEF Next

(* Names stay apart in the table and in every plan, whatever admins add at *)
(* whatever moment (crud.py:409-444, base.py:284-347).                     *)
THEOREM SourcesInvariant == Spec => []SourcesInv
<1>1. Inv => SourcesInv
  BY InvImplies
<1> QED BY <1>1, InvInit, InvNext, PTL DEF Spec

(* A scrape loses no result to another source of the same name             *)
(* (base.py:334).                                                          *)
THEOREM NoResultLost == Spec => []ResultsKept
<1>1. Inv => ResultsKept
  BY InvImplies
<1> QED BY <1>1, InvInit, InvNext, PTL DEF Spec

(* Seeding changes only a table in which nobody has changed anything       *)
(* (main.py:55-90).                                                        *)
THEOREM SeedingIsFirst == Spec => SeedsUntouchedTable
<1> DEFINE A == phase = "seeding" /\ sources' # sources =>
                   sources \subseteq ToSet(Defaults) /\ active = sources
<1>1. ASSUME Inv, [Next]_vars PROVE [A]_vars
  <2>1. CASE SeedOne
    BY <1>1, <2>1, SeedOneFact
  <2>2. CASE ~SeedOne
    <3>1. \/ phase # "seeding" \/ sources' = sources
      BY <1>1, <2>2 DEF Next, vars, tableVars, PostInit, SeedEnds, AdminAdds, AdminToggles,
          Begin, Scrape, Cancel, ReadSources, FetchOk, FetchFails, Return, Crash
    <3> QED BY <3>1
  <2> QED BY <2>1, <2>2
<1>2. Spec => []Inv
  BY InvInit, InvNext, PTL DEF Spec
<1>3. Spec => [][A]_vars
  BY <1>1, <1>2, PTL DEF Spec
<1> QED BY <1>3 DEF SeedsUntouchedTable
=============================================================================
