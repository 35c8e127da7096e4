------------------------------- MODULE Dialogues -------------------------------
(***************************************************************************)
(* The conversations of the bot (app/handlers).  A button that asks for    *)
(* something leaves a key in the user_data of who pressed it; the next     *)
(* text of that user goes to the first handler, in the order of the code,  *)
(* whose key is there.  Only that handler, back_main and the end of the    *)
(* process remove the key.  Every keyboard ever sent can still be pressed. *)
(*                                                                         *)
(* The updates of all users are handled one after the other (main.py:247   *)
(* sets no concurrent_updates), so a handler is one step, but for the two  *)
(* that send a text to many users.  user_data is lost when the process     *)
(* ends, the tables are not, updates that wait are dropped (main.py:303).  *)
(***************************************************************************)
EXTENDS Registry, SourceTable, Naturals, Sequences, FiniteSets

CONSTANTS Legacy,    \* ids in admins.json, if there is such a file
          MaxKeys    \* bound: keys in all user_data together

ASSUME DialoguesAssumption ==
    /\ IsFiniteSet(Users)
    /\ Legacy \subseteq Users
    /\ MaxKeys \in Nat

VARIABLES up,          \* whether the process runs
          user_data,   \* the keys each user's user_data holds
          sending,     \* a handler is sending a text to many users
          left,        \* those it has still to come to
          got          \* history: how often the text reached each user

peopleVars == <<users, admins, vips>>
sendVars == <<sending, left, got>>
vars == <<peopleVars, cleanIps, sources, active, up, user_data, sendVars>>

\* What a text may answer, in the order in which the handlers look for it:
\* user.py:285, then admin.py from line 502 on.
Priority == <<"awaiting_count", "awaiting_admin_id", "awaiting_remove_admin",
              "awaiting_vip_id", "awaiting_vip_remove", "awaiting_ip_single",
              "awaiting_ip_bulk", "awaiting_scraper_tg", "awaiting_scraper_sub",
              "broadcast_mode", "vip_broadcast_mode", "awaiting_white_perf_count",
              "awaiting_config_count", "awaiting_ip_count">>

TextKeys == {Priority[k] : k \in DOMAIN Priority}
Keys == TextKeys \cup {"awaiting_clean_ip", "country", "config_count_per_ip"}

TypeOK ==
    /\ RegistryOK /\ SourceTableOK
    /\ up \in BOOLEAN
    /\ user_data \in [Users -> SUBSET Keys]
    /\ sending \in BOOLEAN
    /\ left \subseteq Users
    /\ got \in [Users -> 0 .. 1]

Unsent == [u \in Users |-> 0]

Init ==
    /\ RegistryInit /\ SourceTableInit
    /\ up = FALSE
    /\ user_data = [u \in Users |-> {}]
    /\ sending = FALSE /\ left = {} /\ got = Unsent

\* Mutant: other updates are handled while a text is being sent.
ServingAlways == up

\* The handler of the next update may start.
Serving == up /\ ~sending

KeyCount == Cardinality({p \in Users \X Keys : p[2] \in user_data[p[1]]})

Keep(u, keys) ==
    /\ keys \subseteq user_data[u] \/ KeyCount < MaxKeys
    /\ user_data' = [user_data EXCEPT ![u] = @ \cup keys]
Drop(u, keys) == user_data' = [user_data EXCEPT ![u] = @ \ keys]

-----------------------------------------------------------------------------
(* post_init: migrate_admins_json adds every id of the file that is there, *)
(* one commit each, and leaves the file where it is.                       *)
PostInit ==
    /\ ~up
    /\ up' = TRUE
    /\ \E ids \in SUBSET (Legacy \ {Owner}) : admins' = admins \cup ids
    /\ UNCHANGED <<users, vips, cleanIps, sources, active, user_data, sendVars>>

Crash ==
    /\ up
    /\ up' = FALSE
    /\ user_data' = [u \in Users |-> {}]
    /\ sending' = FALSE /\ left' = {} /\ got' = Unsent
    /\ UNCHANGED <<peopleVars, cleanIps, sources, active>>

(* /start                                                                  *)
StartCommand(u) ==
    /\ Serving
    /\ UpsertUser(u)
    /\ UNCHANGED <<admins, vips, cleanIps, sources, active, up, user_data, sendVars>>

-----------------------------------------------------------------------------
(* Buttons.  Those that only show something are left out.                  *)
Press(u) ==
    /\ Serving
    /\ UNCHANGED <<peopleVars, cleanIps, sources, active, up, sendVars>>

MenuCustom(u)   == Press(u) /\ Keep(u, {"awaiting_count"})
Country(u)      == Press(u) /\ Keep(u, {"country"})
MenuProtocol(u) == Press(u) /\ Drop(u, {"country"})

\* Mutant: only the questions of the menus and what was chosen are removed.
BackMainPops(u) == Press(u) /\ Drop(u, Keys \ {"awaiting_ip_count"})

BackMain(u) == Press(u) /\ Drop(u, Keys)

(* admin_callback: the questions of the admin's menus.                     *)
Ask(u, questions) ==
    /\ IsAdmin(u)
    /\ \E q \in questions : Press(u) /\ Keep(u, {q})

AdminPanel(u) ==
    \/ IsOwner(u) /\ Ask(u, {"awaiting_admin_id"})
    \/ Ask(u, {"awaiting_remove_admin", "broadcast_mode"})
WhiteConfigsMenu(u) == Ask(u, {"awaiting_white_perf_count"})
VipPanel(u) == Ask(u, {"awaiting_vip_id", "awaiting_vip_remove", "vip_broadcast_mode"})
CleanIpMenu(u) ==
    Ask(u, {"awaiting_ip_single", "awaiting_ip_bulk", "awaiting_clean_ip", "awaiting_config_count"})
ScraperMenu(u) == Ask(u, {"awaiting_scraper_tg", "awaiting_scraper_sub"})

(* scraper_toggle_source.                                                  *)
ToggleSource(u) ==
    /\ Serving /\ IsAdmin(u)
    /\ \E c \in sources : ToggleScraperSource(c)
    /\ UNCHANGED <<peopleVars, cleanIps, up, user_data, sendVars>>

-----------------------------------------------------------------------------
(* Texts.  A key is removed before anything else is looked at.             *)
Asked(u) == {k \in DOMAIN Priority : Priority[k] \in user_data[u]}
IsNext(u, q) == \E k \in Asked(u) : Priority[k] = q /\ \A i \in Asked(u) : k <= i

Answer(u, questions) ==
    /\ Serving
    /\ \E q \in questions : IsNext(u, q) /\ Drop(u, {q})
    /\ UNCHANGED up

AnswerChangesNothing(u, questions) ==
    /\ Answer(u, questions)
    /\ UNCHANGED <<peopleVars, cleanIps, sources, active, sendVars>>

(* Answers that change no table, however they end: they are served from    *)
(* the stored configs.                                                     *)
AnswerCount(u)     == AnswerChangesNothing(u, {"awaiting_count"})
AnswerPerfCount(u) == AnswerChangesNothing(u, {"awaiting_white_perf_count"})
AnswerIpCount(u)   == AnswerChangesNothing(u, {"awaiting_ip_count"})

(* What any other answer may come to: no right to give it (any more), not  *)
(* a number, out of range, a name or a link that is refused, a failing     *)
(* query.                                                                  *)
AnswerRejected(u) ==
    AnswerChangesNothing(u, TextKeys \
        {"awaiting_count", "awaiting_white_perf_count", "awaiting_ip_count"})

AnswerAdmin(u) ==
    /\ IsOwner(u)
    /\ \E x \in Users :
         \/ Answer(u, {"awaiting_admin_id"}) /\ AddAdmin(x)
         \/ Answer(u, {"awaiting_remove_admin"}) /\ RemoveAdmin(x)
    /\ UNCHANGED <<users, vips, cleanIps, sources, active, sendVars>>

\* Mutant: who was allowed to press the button may answer.
AnswerVipUnchecked(u) ==
    /\ \E x \in Users :
         \/ Answer(u, {"awaiting_vip_id"}) /\ AddVip(x)
         \/ Answer(u, {"awaiting_vip_remove"}) /\ RemoveVip(x)
    /\ UNCHANGED <<users, admins, cleanIps, sources, active, sendVars>>

AnswerVip(u) ==
    /\ IsAdmin(u)
    /\ \E x \in Users :
         \/ Answer(u, {"awaiting_vip_id"}) /\ AddVip(x)
         \/ Answer(u, {"awaiting_vip_remove"}) /\ RemoveVip(x)
    /\ UNCHANGED <<users, admins, cleanIps, sources, active, sendVars>>

(* The right to add addresses is checked with the button only.             *)
AnswerIps(u) ==
    /\ \/ Answer(u, {"awaiting_ip_single"}) /\ \E ip \in Ips : AddCleanIps({ip})
       \/ Answer(u, {"awaiting_ip_bulk"}) /\ AddCleanIps(Ips)
    /\ UNCHANGED <<peopleVars, sources, active, sendVars>>

AnswerSource(u) ==
    /\ IsAdmin(u)
    /\ Answer(u, {"awaiting_scraper_tg", "awaiting_scraper_sub"})
    /\ \E c \in Sources : AddScraperSource(c)
    /\ UNCHANGED <<peopleVars, cleanIps, sendVars>>

(* The first of two numbers: it is kept, and the second one is asked for.  *)
AnswerConfigCount(u) ==
    /\ Serving /\ IsAdmin(u)
    /\ IsNext(u, "awaiting_config_count")
    /\ KeyCount < MaxKeys
    /\ user_data' = [user_data EXCEPT ![u] =
           (@ \ {"awaiting_config_count"}) \cup {"config_count_per_ip", "awaiting_ip_count"}]
    /\ UNCHANGED <<peopleVars, cleanIps, sources, active, up, sendVars>>

(* handle_document.  The key stays when the document is refused or cannot  *)
(* be fetched; it goes with an import that ends half-way.                  *)
Document(u) ==
    /\ Serving /\ IsAdmin(u)
    /\ "awaiting_clean_ip" \in user_data[u]
    /\ \E ips \in SUBSET Ips : ImportCleanIps(ips)
    /\ Drop(u, {"awaiting_clean_ip"})
    /\ UNCHANGED <<peopleVars, sources, active, up, sendVars>>

-----------------------------------------------------------------------------
(* A text for all users, or for the VIPs: the ids are read once, then the  *)
(* handler goes through them.                                              *)
AnswerBroadcast(u) ==
    /\ IsAdmin(u)
    /\ \/ Answer(u, {"broadcast_mode"}) /\ left' = users
       \/ Answer(u, {"vip_broadcast_mode"}) /\ left' = vips
    /\ sending' = TRUE
    /\ UNCHANGED <<got, peopleVars, cleanIps, sources, active>>

Sent(x) ==
    /\ sending /\ x \in left
    /\ left' = left \ {x}
    /\ got' = [got EXCEPT ![x] = @ + 1]
    /\ UNCHANGED <<sending, peopleVars, cleanIps, sources, active, up, user_data>>

(* The user is counted as failed.  A request that timed out may have been  *)
(* carried out.                                                            *)
SendFails(x) ==
    /\ sending /\ x \in left
    /\ left' = left \ {x}
    /\ got' \in {got, [got EXCEPT ![x] = @ + 1]}
    /\ UNCHANGED <<sending, peopleVars, cleanIps, sources, active, up, user_data>>

\* Mutant: the handler goes on until everybody was reached.
AllReached ==
    /\ sending /\ \A x \in users : got[x] = 1
    /\ sending' = FALSE
    /\ got' = Unsent
    /\ UNCHANGED <<left, peopleVars, cleanIps, sources, active, up, user_data>>

AllSent ==
    /\ sending /\ left = {}
    /\ sending' = FALSE
    /\ got' = Unsent
    /\ UNCHANGED <<left, peopleVars, cleanIps, sources, active, up, user_data>>

-----------------------------------------------------------------------------
Button(u) == MenuCustom(u) \/ Country(u) \/ MenuProtocol(u) \/ BackMain(u)
               \/ AdminPanel(u) \/ WhiteConfigsMenu(u) \/ VipPanel(u) \/ CleanIpMenu(u)
               \/ ScraperMenu(u) \/ ToggleSource(u)
Text(u) == AnswerCount(u) \/ AnswerPerfCount(u) \/ AnswerIpCount(u)
             \/ AnswerRejected(u) \/ AnswerAdmin(u) \/ AnswerVip(u) \/ AnswerIps(u)
             \/ AnswerSource(u) \/ AnswerConfigCount(u) \/ AnswerBroadcast(u)
Send == (\E x \in Users : Sent(x) \/ SendFails(x)) \/ AllSent

Next ==
    \/ PostInit \/ Crash
    \/ \E u \in Users : StartCommand(u) \/ Button(u) \/ Text(u) \/ Document(u)
    \/ Send

Spec == Init /\ [][Next]_vars

(* A request ends, by an answer or a timeout, and so does the pause.       *)
FairSpec == Spec /\ WF_vars(Send)

-----------------------------------------------------------------------------
Answered(u, questions) == (user_data[u] \ user_data'[u]) \cap questions # {}

(* Whatever buttons were pressed, by whom and when: only the owner's answer*)
(* makes or unmakes an admin, and VIPs, sources and texts to many change or*)
(* start only with the answer of somebody who is an admin at that moment,  *)
(* though the question may have been put before the right was taken away   *)
(* (admin.py:504, 539, 603, 650).                                          *)
ChangesByRight ==
    [][ /\ up /\ admins' # admins =>
             Answered(Owner, {"awaiting_admin_id", "awaiting_remove_admin"})
        /\ vips' # vips =>
             \E u \in Users : IsAdmin(u) /\ Answered(u, {"awaiting_vip_id", "awaiting_vip_remove"})
        /\ sources' # sources =>
             \E u \in Users : IsAdmin(u) /\ Answered(u, {"awaiting_scraper_tg", "awaiting_scraper_sub"})
        /\ sending' /\ ~sending =>
             \E u \in Users : IsAdmin(u) /\ Answered(u, {"broadcast_mode", "vip_broadcast_mode"})
      ]_vars

(* The number that ip_count needs is there whenever it is asked for, after *)
(* any sequence of buttons and texts in between: its default of 1 is never *)
(* used (admin.py:855).                                                    *)
IpCountHasConfigCount ==
    \A u \in Users : "awaiting_ip_count" \in user_data[u] => "config_count_per_ip" \in user_data[u]

(* A text goes at most once to each user, and only to users and VIPs that  *)
(* are registered, although sending takes many steps and may fail.         *)
OnceEach ==
    /\ \A x \in Users : got[x] <= 1
    /\ \A x \in left : sending /\ got[x] = 0
    /\ left \subseteq users \/ left \subseteq vips

(* The inductive invariant behind them.                                    *)
DialogueInv ==
    /\ TypeOK
    /\ IpCountHasConfigCount
    /\ OnceEach
    /\ ~sending => got = Unsent

(* The bot answers nobody while a text is being sent to many; it gets to   *)
(* the end however many of them fail.                                      *)
SendingEnds == sending ~> ~sending
=============================================================================
