---------------------------- MODULE ScrapeSources ----------------------------
(***************************************************************************)
(* Where a scrape gets its sources from, and how it goes through them:     *)
(* seed_default_sources (main.py:55), the admin's edits while scrapes run  *)
(* (admin.py), and TelegramChannelScraper.scrape_all (base.py:265) with    *)
(* the retries of its fetches.  Two scrapes may run at the same time, one  *)
(* for each job (main.py:182, 194).  The statistics a scrape leaves in the *)
(* rows are left out: no module the process loads reads them.              *)
(***************************************************************************)
EXTENDS SourceTable, Naturals, Sequences, FiniteSets, SequencesExt

CONSTANTS Listed,    \* Sources in the order of the queries: type, name
          Defaults,  \* the lists of sources.py, one after the other
          Jobs,      \* scrapes that may run at the same time
          Retries,   \* of a fetch: 3 (base.py:65, subscription.py:55)
          DbErrors   \* whether the read of the sources may fail

ASSUME ScrapeSourcesAssumption ==
    /\ IsFiniteSet(Sources)
    /\ Listed \in Seq(Sources) /\ ToSet(Listed) = Sources
    /\ Defaults \in Seq(Sources) /\ Defaults # << >>
    /\ \A i, k \in DOMAIN Defaults :
         Defaults[i].name = Defaults[k].name \/ Defaults[i].url = Defaults[k].url => i = k
    /\ Retries \in Nat
    /\ DbErrors \in BOOLEAN

VARIABLES phase,     \* of the process
          seeding,   \* defaults that seed_default_sources has still to add
          pc,        \* where each scrape stands
          plan,      \* sources a scrape has still to fetch, in order
          attempt,   \* failed attempts to fetch the first of them
          results,   \* names with an entry in the results, and whose it is
          fetched    \* history: the sources this scrape has been through

tableVars == <<sources, active>>
jobVars == <<pc, plan, attempt, results, fetched>>
vars == <<tableVars, phase, seeding, jobVars>>

Names == {c.name : c \in Sources}

TypeOK ==
    /\ SourceTableOK
    /\ phase \in {"down", "seeding", "up"}
    /\ seeding \in Seq(Sources)
    /\ pc \in [Jobs -> {"idle", "read", "fetch"}]
    /\ plan \in [Jobs -> Seq(Sources)]
    /\ attempt \in [Jobs -> 0 .. Retries]
    /\ results \in [Jobs -> [Names -> SUBSET Sources]]
    /\ fetched \in [Jobs -> SUBSET Sources]

NoResults == [n \in Names |-> {}]

ScrapesIdle ==
    /\ pc = [j \in Jobs |-> "idle"]
    /\ plan = [j \in Jobs |-> << >>]
    /\ attempt = [j \in Jobs |-> 0]
    /\ results = [j \in Jobs |-> NoResults]
    /\ fetched = [j \in Jobs |-> {}]

Init ==
    /\ SourceTableInit
    /\ phase = "down" /\ seeding = << >>
    /\ ScrapesIdle

-----------------------------------------------------------------------------
\* Mutant: the rows of the table are not looked at.
SeedAlways ==
    /\ phase = "down"
    /\ phase' = "seeding"
    /\ seeding' = Defaults
    /\ UNCHANGED <<tableVars, jobVars>>

(* post_init: seed_default_sources adds nothing to a table with a row.     *)
PostInit ==
    /\ phase = "down"
    /\ phase' = "seeding"
    /\ seeding' = IF sources = {} THEN Defaults ELSE << >>
    /\ UNCHANGED <<tableVars, jobVars>>

(* One commit for each default source.                                     *)
SeedOne ==
    /\ phase = "seeding" /\ seeding # << >>
    /\ AddScraperSource(Head(seeding))
    /\ seeding' = Tail(seeding)
    /\ UNCHANGED <<phase, jobVars>>

(* Done, or "Default sources seed failed": the process goes on either way. *)
SeedEnds ==
    /\ phase = "seeding"
    /\ phase' = "up"
    /\ seeding' = << >>
    /\ UNCHANGED <<tableVars, jobVars>>

(* The two ways an admin edits the table: the answer to a question for a   *)
(* channel or a link (admin.py:600, 623), a source's button (admin.py:451).*)
AdminAdds ==
    /\ phase = "up"
    /\ \E c \in Sources : AddScraperSource(c)
    /\ UNCHANGED <<phase, seeding, jobVars>>
AdminToggles ==
    /\ phase = "up"
    /\ \E c \in sources : ToggleScraperSource(c)
    /\ UNCHANGED <<phase, seeding, jobVars>>

-----------------------------------------------------------------------------
Begin(j) ==
    /\ phase = "up" /\ pc[j] = "idle"
    /\ pc' = [pc EXCEPT ![j] = "read"]
    /\ UNCHANGED <<tableVars, phase, seeding, plan, attempt, results, fetched>>

\* ORDER BY source_type, name
Before(c, d) == \E i, k \in DOMAIN Listed : i < k /\ Listed[i] = c /\ Listed[k] = d
ActiveSources ==
    {q \in SetToSeqs(active) : \A i, k \in DOMAIN q : i < k => Before(q[i], q[k])}

(* The active sources are read once; without any, or when the read fails,  *)
(* the lists of the file are scraped.                                      *)
ReadSources(j) ==
    /\ pc[j] = "read"
    /\ pc' = [pc EXCEPT ![j] = "fetch"]
    /\ plan' \in {[plan EXCEPT ![j] = IF read = << >> THEN Defaults ELSE read] :
                    read \in ActiveSources \cup (IF DbErrors THEN {<< >>} ELSE {})}
    /\ UNCHANGED <<tableVars, phase, seeding, attempt, results, fetched>>

\* The first source is done: results[source.name] is set, on to the next.
Record(j) ==
    LET c == Head(plan[j]) IN
    /\ results' = [results EXCEPT ![j][c.name] = {c}]
    /\ fetched' = [fetched EXCEPT ![j] = @ \cup {c}]
    /\ plan' = [plan EXCEPT ![j] = Tail(@)]
    /\ attempt' = [attempt EXCEPT ![j] = 0]

FetchOk(j) ==
    /\ pc[j] = "fetch" /\ plan[j] # << >>
    /\ Record(j)
    /\ UNCHANGED <<tableVars, phase, seeding, pc>>

\* Mutant: after the last attempt the source is tried all over again.
RetryForever(j) ==
    /\ pc[j] = "fetch" /\ plan[j] # << >>
    /\ attempt' = [attempt EXCEPT ![j] = IF @ < Retries THEN @ + 1 ELSE 0]
    /\ UNCHANGED <<tableVars, phase, seeding, pc, plan, results, fetched>>

(* An attempt failed: another one after the pause, or, after the last, an  *)
(* empty list for the source (base.py:252) and the next source.            *)
FetchFails(j) ==
    /\ pc[j] = "fetch" /\ plan[j] # << >>
    /\ IF attempt[j] < Retries
       THEN /\ attempt' = [attempt EXCEPT ![j] = @ + 1]
            /\ UNCHANGED <<plan, results, fetched>>
       ELSE Record(j)
    /\ UNCHANGED <<tableVars, phase, seeding, pc>>

Forget(j) ==
    /\ pc' = [pc EXCEPT ![j] = "idle"]
    /\ plan' = [plan EXCEPT ![j] = << >>]
    /\ attempt' = [attempt EXCEPT ![j] = 0]
    /\ results' = [results EXCEPT ![j] = NoResults]
    /\ fetched' = [fetched EXCEPT ![j] = {}]

(* scrape_all returns its results to scraper_job.                          *)
Return(j) ==
    /\ pc[j] = "fetch" /\ plan[j] = << >>
    /\ Forget(j)
    /\ UNCHANGED <<tableVars, phase, seeding>>

(* CancelledError is no Exception: it leaves scrape_all.                   *)
Cancel(j) ==
    /\ pc[j] # "idle"
    /\ Forget(j)
    /\ UNCHANGED <<tableVars, phase, seeding>>

(* The process ends, in the middle of the seeding or of a scrape.          *)
Crash ==
    /\ phase # "down"
    /\ phase' = "down" /\ seeding' = << >>
    /\ pc' = [j \in Jobs |-> "idle"]
    /\ plan' = [j \in Jobs |-> << >>]
    /\ attempt' = [j \in Jobs |-> 0]
    /\ results' = [j \in Jobs |-> NoResults]
    /\ fetched' = [j \in Jobs |-> {}]
    /\ UNCHANGED tableVars

Scrape(j) == ReadSources(j) \/ FetchOk(j) \/ FetchFails(j) \/ Return(j)

Next ==
    \/ PostInit \/ SeedOne \/ SeedEnds
    \/ AdminAdds \/ AdminToggles
    \/ \E j \in Jobs : Begin(j) \/ Scrape(j) \/ Cancel(j)
    \/ Crash

Spec == Init /\ [][Next]_vars

(* Requests end within their timeouts, pauses end, the loop runs the job.  *)
FairSpec == Spec /\ \A j \in Jobs : WF_vars(Scrape(j))

-----------------------------------------------------------------------------
(* Whatever admins add, at whatever moment, and however sources fail: a    *)
(* scrape returns an entry for every source it went through, and no entry  *)
(* was overwritten by that of another source (base.py:334).                *)
ResultsKept ==
    \A j \in Jobs : \A c \in fetched[j] : results[j][c.name] = {c}

(* The inductive invariant behind it: names and urls are apart in the      *)
(* table and in every plan, and what is planned has not been fetched.      *)
PlanShape(j) ==
    /\ \A i, k \in DOMAIN plan[j] : plan[j][i].name = plan[j][k].name => i = k
    /\ \A i \in DOMAIN plan[j], c \in fetched[j] : plan[j][i].name # c.name
    /\ pc[j] # "fetch" => plan[j] = << >> /\ fetched[j] = {}
SourcesInv == TypeOK /\ SourcesApart /\ ResultsKept /\ \A j \in Jobs : PlanShape(j)

(* Seeding goes on only in a table nobody has edited: after a crash in its *)
(* middle, the next process leaves the part that was committed, and what   *)
(* admins made of it, alone (main.py:67).                                  *)
SeedsUntouchedTable ==
    [][ phase = "seeding" /\ sources' # sources =>
          sources \subseteq ToSet(Defaults) /\ active = sources ]_vars

(* A scrape that has read its sources ends, however many of them fail:     *)
(* otherwise max_instances=1 would keep every later scrape from starting.  *)
ScrapeEnds == \A j \in Jobs : pc[j] = "fetch" ~> pc[j] = "idle"
=============================================================================
