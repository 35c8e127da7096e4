----------------------------- MODULE SourceTable -----------------------------
(***************************************************************************)
(* The table scraper_sources (models.py:139) and what crud.py does to it.  *)
(* A source is a record with at least a name and a url; is_active is the   *)
(* membership in `active`.  add_scraper_source and toggle_scraper_source   *)
(* are the only writers: remove_scraper_source has no caller.              *)
(***************************************************************************)
CONSTANT Sources   \* the sources somebody may name: [name, url]

VARIABLES sources,   \* the sources that have a row
          active     \* those of them with is_active

SourceTableOK == sources \subseteq Sources /\ active \subseteq sources

SourceTableInit == sources = {} /\ active = {}

\* Mutant: only the url is looked up.
AddUnlessUrlTaken(c) ==
    IF \E d \in sources : d.url = c.url
    THEN UNCHANGED <<sources, active>>
    ELSE sources' = sources \cup {c} /\ active' = active \cup {c}

(* add_scraper_source: "duplicate_url", "duplicate_name" or "added".       *)
AddScraperSource(c) ==
    IF \E d \in sources : d.url = c.url \/ d.name = c.name
    THEN UNCHANGED <<sources, active>>
    ELSE sources' = sources \cup {c} /\ active' = active \cup {c}

(* toggle_scraper_source.                                                  *)
ToggleScraperSource(c) ==
    /\ c \in sources
    /\ active' = IF c \in active THEN active \ {c} ELSE active \cup {c}
    /\ UNCHANGED sources

(* The table has no constraint on names (models.py:156), yet scrape_all    *)
(* keys its results by name (base.py:334): every way into the table must   *)
(* keep names apart, as well as urls.                                      *)
SourcesApart ==
    \A c, d \in sources : c.name = d.name \/ c.url = d.url => c = d
=============================================================================
