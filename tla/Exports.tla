-------------------------------- MODULE Exports --------------------------------
(***************************************************************************)
(* The two answers of the admin dialogue that make a file of stored        *)
(* configs (app/handlers/admin.py:698, 838): measure the newest and export *)
(* the best, or put clean IPs into the newest.  Jobs save rows meanwhile.  *)
(*                                                                         *)
(* created_at is set by the server (models.py:101), once for the rows of a *)
(* commit: "newest first" leaves their order open.  is_valid is never set  *)
(* to anything but True.                                                   *)
(***************************************************************************)
EXTENDS PerfTester, IpRotation, SequencesExt, Selection

CONSTANTS Incoming,   \* the sets of rows that jobs save, commit by commit
          Text,       \* the text of a row, as it is exported
          Host,       \* column host
          Ips,        \* addresses that may be in clean_ips
          RowLimit,   \* rows measured at most (500, admin.py:757)
          TopCounts,  \* answers accepted to the first question (100 .. 1000)
          Counts      \* config_count_per_ip (1 .. 20)

ASSUME ExportsAssumption ==
    /\ Incoming \in Seq(SUBSET Rows)
    /\ \A i, k \in 1 .. Len(Incoming) : i # k => Incoming[i] \cap Incoming[k] = {}
    /\ RowLimit \in Nat \ {0} /\ TopCounts \subseteq Nat \ {0} /\ Counts \subseteq Nat \ {0}
    /\ \A r \in Rows \ Json : Host[r] = extract_host(Text[r])
    /\ Serverless = {r \in Rows : Host[r] = NoHost /\ extract_host(Text[r]) = NoHost}
    /\ \A r \in Rows : Text[r] \in [scheme : {Text[r].scheme}, lower : BOOLEAN,
                                   server : {Text[r].server}, lossy : BOOLEAN, rest : {Text[r].rest}]
    /\ \A r \in Json : Text[r].scheme \notin Schemes
    /\ IsFiniteSet(Ips) /\ NoHost \notin Ips

VARIABLES saved,  \* commits that have taken place
          clean   \* the export of the second answer that is being sent, if any

vars == <<perfVars, saved, clean>>

NoExport == [ips |-> << >>, base |-> << >>, count |-> 0, lines |-> << >>]

Init == PerfInit /\ saved = 0 /\ clean = NoExport

Least(a, b) == IF a < b THEN a ELSE b

CommitOf(r) == CHOOSE k \in 1 .. Len(Incoming) : r \in Incoming[k]

Table == UNION {Incoming[k] : k \in 1 .. saved}

\* ORDER BY created_at DESC LIMIT n
NewestFirst(rows, n) ==
    {SubSeq(q, 1, Least(n, Len(q))) : q \in
        {p \in SetToSeqs(rows) :
            \A i, k \in 1 .. Len(p) : i < k => CommitOf(p[i]) >= CommitOf(p[k])}}

\* An update is handled when the one before it is done.
Free == phase = "off" /\ clean = NoExport

-----------------------------------------------------------------------------
\* A job commits a batch (ScraperJob).
Save ==
    /\ saved < Len(Incoming)
    /\ saved' = saved + 1
    /\ UNCHANGED <<perfVars, clean>>

(* Answer to awaiting_white_perf_count: the newest valid rows are measured.*)
(* Without rows there is nothing but a reply.                              *)
AnswerPerfCount(n) ==
    /\ Free
    /\ Table # {}
    /\ \E rows \in NewestFirst(Table, RowLimit) : Evaluate(rows, n)
    /\ UNCHANGED <<saved, clean>>

(* export_perf_results_to_txt: the links of those that are alive.          *)
Report == Select(best, {p \in DOMAIN best : tally[best[p]].alive})

\* Mutant: rows without host are taken for rows whose host is not clean.
BaseWithNull(ips, k) ==
    {r \in Table : /\ CommitOf(r) > k
                   /\ detect_protocol(Text[r]) # "trojan"
                   /\ Host[r] \notin Range(ips)}

(* The rows of the second query, of which the first k commits are older    *)
(* than 24 hours.  NULL NOT IN (...) is not true: no row without host.     *)
Base(ips, k) ==
    {r \in Table : /\ CommitOf(r) > k
                   /\ detect_protocol(Text[r]) # "trojan"
                   /\ Host[r] # NoHost /\ Host[r] \notin Range(ips)}

(* Answer to awaiting_ip_count: the newest clean IPs in the newest base    *)
(* configs, without trojan links; if either is missing, a reply only.      *)
AnswerIpCount(count) ==
    /\ Free
    /\ \E ips \in SetToAllKPermutations(Ips) \ {<< >>}, k \in 0 .. saved :
         \E base \in NewestFirst(Base(ips, k), count) \ {<< >>} :
            LET texts == [i \in 1 .. Len(base) |-> Text[base[i]]]
                all   == apply_ips_to_configs(ips, texts, count)
                lines == Select(all, {p \in DOMAIN all : detect_protocol(all[p]) # "trojan"})
            IN  /\ lines # << >>
                /\ clean' = [ips |-> ips, base |-> base, count |-> count, lines |-> lines]
    /\ UNCHANGED <<perfVars, saved>>

\* The file was sent.
CleanSent ==
    /\ clean # NoExport
    /\ clean' = NoExport
    /\ UNCHANGED <<perfVars, saved>>

\* The process ends; the table stays.
Crash ==
    /\ ~Free
    /\ Gone
    /\ clean' = NoExport
    /\ UNCHANGED saved

Evaluation == (Collect \/ CollectRaises \/ Forget \/ \E r \in Rows : Measure(r)) /\ UNCHANGED <<saved, clean>>

Next ==
    \/ Save \/ CleanSent \/ Crash \/ Evaluation
    \/ \E n \in TopCounts : AnswerPerfCount(n)
    \/ \E count \in Counts : AnswerIpCount(count)

Spec == Init /\ [][Next]_vars

FairSpec ==
    /\ Spec
    /\ \A r \in Rows : WF_vars(Measure(r) /\ UNCHANGED <<saved, clean>>)
    /\ WF_vars((Collect \/ CollectRaises \/ Forget) /\ UNCHANGED <<saved, clean>>)

-----------------------------------------------------------------------------
(* The exported file has the alive configs with the best scores, as many   *)
(* as were asked for or there are, the best first: no dead one takes the   *)
(* place of an alive one, and no slower one that of a faster               *)
(* (white_configs_perf_tester.py:443-445, admin.py:782).                   *)
ReportIsBest ==
    phase = "done" =>
        LET alive == {r \in Range(chosen) : tally[r].alive}
        IN  /\ Len(Report) = Least(top, Cardinality(alive))
            /\ Range(Report) \subseteq alive /\ IsInjective(Report)
            /\ \A i, k \in 1 .. Len(Report) :
                  i < k => Score(tally[Report[i]]) >= Score(tally[Report[k]])
            /\ \A r \in Range(Report), q \in alive \ Range(Report) :
                  Score(tally[r]) >= Score(tally[q])

(* Whatever texts the table holds, an exported link has one of the chosen  *)
(* IPs for its server and is no trojan link; but a vmess link that only    *)
(* the lenient decoder reads goes out as it was stored (admin.py:887-900,  *)
(* ip_manager.py:139, 189).                                                *)
CleanHostsOnly ==
    \A line \in Range(clean.lines) :
        /\ detect_protocol(line) # "trojan"
        /\ line.scheme \in Schemes /\ ~line.lossy => line.server \in Range(clean.ips)

\* Lines of a config with an IP, and configs of which they may be.
Uses(ip, r)  == Cardinality({k \in 1 .. Len(clean.lines) :
                   clean.lines[k] = apply_ip(Text[r], ip)})
Twins(ip, r) == Cardinality({k \in 1 .. Len(clean.base) :
                   apply_ip(Text[clean.base[k]], ip) = apply_ip(Text[r], ip)})

(* Each of the IPs gets as many lines as were asked for, and within them   *)
(* no base config comes up more than once more often than another; the     *)
(* lines of configs that differ in their server only look the same         *)
(* (ip_manager.py:182-192).                                                *)
EvenRotation ==
    /\ Len(clean.lines) = Len(clean.ips) * clean.count
    /\ \A ip \in Range(clean.ips), r \in Range(clean.base) :
          Replaceable(Text[r]) =>
             /\ Uses(ip, r) >= Twins(ip, r) * (clean.count \div Len(clean.base))
             /\ Uses(ip, r) <= Twins(ip, r) * ((clean.count - 1) \div Len(clean.base) + 1)
=============================================================================
