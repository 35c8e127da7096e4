---------------------------- MODULE Dialogues_proof ----------------------------
(***************************************************************************)
(* Theorems about Dialogues, for any users, sources and bounds.  A step is *)
(* looked at three times: for what it does to user_data, to the tables,    *)
(* and to the text being sent to many.                                     *)
(***************************************************************************)
EXTENDS Dialogues, TLAPS

USE RegistryAssumption, DialoguesAssumption

\* The keys a text may answer, one by one.
LEMMA TextKeysFact ==
    TextKeys = {"awaiting_count", "awaiting_admin_id", "awaiting_remove_admin",
                "awaiting_vip_id", "awaiting_vip_remove", "awaiting_ip_single",
                "awaiting_ip_bulk", "awaiting_scraper_tg", "awaiting_scraper_sub",
                "broadcast_mode", "vip_broadcast_mode", "awaiting_white_perf_count",
                "awaiting_config_count", "awaiting_ip_count"}
<1>1. DOMAIN Priority = 1 .. 14
  BY DEF Priority
<1>2. /\ Priority[1] = "awaiting_count" /\ Priority[2] = "awaiting_admin_id"
      /\ Priority[3] = "awaiting_remove_admin" /\ Priority[4] = "awaiting_vip_id"
      /\ Priority[5] = "awaiting_vip_remove" /\ Priority[6] = "awaiting_ip_single"
      /\ Priority[7] = "awaiting_ip_bulk" /\ Priority[8] = "awaiting_scraper_tg"
      /\ Priority[9] = "awaiting_scraper_sub" /\ Priority[10] = "broadcast_mode"
      /\ Priority[11] = "vip_broadcast_mode" /\ Priority[12] = "awaiting_white_perf_count"
      /\ Priority[13] = "awaiting_config_count" /\ Priority[14] = "awaiting_ip_count"
  BY DEF Priority
<1>3. \A k \in 1 .. 14 : k \in {1, 2, 3, 4, 5, 6, 7, 8, 9, 10, 11, 12, 13, 14}
  OBVIOUS
<1>4. QED
  BY <1>1, <1>2, <1>3 DEF TextKeys

\* A handler removes the one key it answers, and starts only between sends.
LEMMA AnswerFact ==
    ASSUME NEW u \in Users, NEW questions, Answer(u, questions)
    PROVE  /\ ~sending /\ up /\ up' = up
           /\ \E q \in questions : /\ q \in user_data[u]
                                   /\ user_data' = [user_data EXCEPT ![u] = @ \ {q}]
BY DEF Answer, IsNext, Asked, Drop, Serving

-----------------------------------------------------------------------------
(* What the handlers of one user do to user_data.                          *)
KeyAdded(u) == \E q \in Keys \ {"awaiting_ip_count"} :
    user_data' = [user_data EXCEPT ![u] = @ \cup {q}]
KeyRemoved(u) == \E q \in Keys \ {"config_count_per_ip"} :
    user_data' = [user_data EXCEPT ![u] = @ \ {q}]
AllRemoved(u) == user_data' = [user_data EXCEPT ![u] = @ \ Keys]
CountKept(u) == user_data' = [user_data EXCEPT ![u] =
    (@ \ {"awaiting_config_count"}) \cup {"config_count_per_ip", "awaiting_ip_count"}]
DataStep(u) == KeyAdded(u) \/ KeyRemoved(u) \/ AllRemoved(u) \/ CountKept(u)

\* An answer removes one key, and never the number kept for later.
LEMMA AnswerData ==
    ASSUME NEW u \in Users, NEW questions \in SUBSET TextKeys, Answer(u, questions)
    PROVE  KeyRemoved(u)
BY AnswerFact, TextKeysFact DEF KeyRemoved, Keys

\* A button adds a key other than awaiting_ip_count, or removes some.
LEMMA ButtonData ==
    ASSUME NEW u \in Users, Button(u)
    PROVE  DataStep(u) \/ UNCHANGED user_data
<1>1. ASSUME NEW questions \in SUBSET (Keys \ {"awaiting_ip_count"}), Ask(u, questions)
      PROVE  KeyAdded(u)
  BY <1>1 DEF Ask, Keep, KeyAdded
<1>2. CASE MenuCustom(u)
  BY <1>2, TextKeysFact DEF MenuCustom, Keep, KeyAdded, DataStep, Keys
<1>3. CASE Country(u)
  BY <1>3 DEF Country, Keep, KeyAdded, DataStep, Keys
<1>4. CASE MenuProtocol(u)
  BY <1>4 DEF MenuProtocol, Drop, KeyRemoved, DataStep, Keys
<1>5. CASE BackMain(u)
  BY <1>5 DEF BackMain, Drop, AllRemoved, DataStep
<1>6. CASE AdminPanel(u)
  BY <1>1, <1>6, TextKeysFact DEF AdminPanel, DataStep, Keys
<1>7. CASE WhiteConfigsMenu(u)
  BY <1>1, <1>7, TextKeysFact DEF WhiteConfigsMenu, DataStep, Keys
<1>8. CASE VipPanel(u)
  BY <1>1, <1>8, TextKeysFact DEF VipPanel, DataStep, Keys
<1>9. CASE CleanIpMenu(u)
  BY <1>1, <1>9, TextKeysFact DEF CleanIpMenu, DataStep, Keys
<1>10. CASE ScraperMenu(u)
  BY <1>1, <1>10, TextKeysFact DEF ScraperMenu, DataStep, Keys
<1>11. CASE ToggleSource(u)
  BY <1>11 DEF ToggleSource
<1>12. QED
  BY <1>2, <1>3, <1>4, <1>5, <1>6, <1>7, <1>8, <1>9, <1>10, <1>11 DEF Button

\* Texts and documents remove one key; only the answer to config_count
\* adds awaiting_ip_count, and with it the number it needs.
LEMMA TextData ==
    ASSUME NEW u \in Users, Text(u) \/ Document(u)
    PROVE  DataStep(u)
<1>1. CASE \/ AnswerCount(u) \/ AnswerPerfCount(u) \/ AnswerIpCount(u)
           \/ AnswerRejected(u)
  BY <1>1, AnswerData, TextKeysFact DEF AnswerCount, AnswerPerfCount, AnswerIpCount, AnswerRejected,
         AnswerChangesNothing, DataStep
<1>2. CASE AnswerAdmin(u)
  BY <1>2, AnswerData, TextKeysFact DEF AnswerAdmin, DataStep
<1>3. CASE AnswerVip(u)
  BY <1>3, AnswerData, TextKeysFact DEF AnswerVip, DataStep
<1>4. CASE AnswerIps(u) \/ AnswerSource(u)
  BY <1>4, AnswerData, TextKeysFact DEF AnswerIps, AnswerSource, DataStep
<1>5. CASE AnswerBroadcast(u)
  BY <1>5, AnswerData, TextKeysFact DEF AnswerBroadcast, DataStep
<1>6. CASE AnswerConfigCount(u)
  BY <1>6 DEF AnswerConfigCount, CountKept, DataStep
<1>7. CASE Document(u)
  BY <1>7 DEF Document, Drop, KeyRemoved, DataStep, Keys
<1>8. QED
  BY <1>1, <1>2, <1>3, <1>4, <1>5, <1>6, <1>7 DEF Text

\* Every step, as far as user_data is concerned.
LEMMA StepData ==
    ASSUME [Next]_vars
    PROVE  \/ UNCHANGED user_data
           \/ user_data' = [u \in Users |-> {}]
           \/ \E u \in Users : DataStep(u)
<1>1. CASE Send
  BY <1>1 DEF Send, Sent, SendFails, AllSent
<1>2. CASE PostInit \/ Crash \/ (\E u \in Users : StartCommand(u)) \/ UNCHANGED vars
  BY <1>2 DEF PostInit, Crash, StartCommand, vars
<1>3. QED
  BY <1>1, <1>2, ButtonData, TextData DEF Next

DataOK == user_data \in [Users -> SUBSET Keys]

\* No such step leaves awaiting_ip_count without config_count_per_ip: the
\* number is removed by back_main and by the end of the process only, and
\* they remove everything.
LEMMA DataPreserved ==
    ASSUME DataOK, IpCountHasConfigCount, [Next]_vars
    PROVE  DataOK' /\ IpCountHasConfigCount'
<1>1. CASE UNCHANGED user_data
  BY <1>1 DEF DataOK, IpCountHasConfigCount
<1>2. CASE user_data' = [u \in Users |-> {}]
  BY <1>2 DEF DataOK, IpCountHasConfigCount
<1>3. ASSUME NEW u \in Users, DataStep(u)
      PROVE  DataOK' /\ IpCountHasConfigCount'
  <2>1. CASE KeyAdded(u)
    BY <2>1 DEF KeyAdded, DataOK, IpCountHasConfigCount
  <2>2. CASE KeyRemoved(u)
    BY <2>2 DEF KeyRemoved, DataOK, IpCountHasConfigCount
  <2>3. CASE AllRemoved(u)
    BY <2>3 DEF AllRemoved, DataOK, IpCountHasConfigCount, Keys
  <2>4. CASE CountKept(u)
    BY <2>4, TextKeysFact DEF CountKept, DataOK, IpCountHasConfigCount, Keys
  <2>5. QED
    BY <1>3, <2>1, <2>2, <2>3, <2>4 DEF DataStep
<1>4. QED
  BY <1>1, <1>2, <1>3, StepData

-----------------------------------------------------------------------------
TablesOK == RegistryOK /\ SourceTableOK

\* Every step keeps the tables well typed.
LEMMA TablesPreserved ==
    ASSUME TablesOK, [Next]_vars
    PROVE  TablesOK'
<1> USE DEF TablesOK, RegistryOK, SourceTableOK
<1>1. CASE PostInit
  BY <1>1 DEF PostInit
<1>2. CASE Crash \/ Send \/ UNCHANGED vars
  BY <1>2 DEF Crash, Send, Sent, SendFails, AllSent, vars, peopleVars
<1>3. ASSUME NEW u \in Users, StartCommand(u)
      PROVE  TablesOK'
  BY <1>3 DEF StartCommand, UpsertUser
<1>4. ASSUME NEW u \in Users, Button(u)
      PROVE  TablesOK'
  <2>1. CASE Press(u)
    BY <2>1 DEF Press, peopleVars
  <2>2. CASE ToggleSource(u)
    BY <2>2 DEF ToggleSource, ToggleScraperSource, peopleVars
  <2>3. QED
    BY <1>4, <2>1, <2>2 DEF Button, MenuCustom, Country, MenuProtocol, BackMain,
           AdminPanel, WhiteConfigsMenu, VipPanel, CleanIpMenu, ScraperMenu, Ask
<1>5. ASSUME NEW u \in Users, Text(u) \/ Document(u)
      PROVE  TablesOK'
  <2>1. CASE \/ AnswerCount(u) \/ AnswerPerfCount(u) \/ AnswerIpCount(u)
             \/ AnswerRejected(u) \/ AnswerConfigCount(u) \/ AnswerBroadcast(u)
    BY <2>1 DEF AnswerCount, AnswerPerfCount, AnswerIpCount, AnswerRejected,
           AnswerChangesNothing, AnswerConfigCount, AnswerBroadcast, peopleVars
  <2>2. CASE AnswerAdmin(u)
    BY <2>2 DEF AnswerAdmin, AddAdmin, RemoveAdmin
  <2>3. CASE AnswerVip(u)
    BY <2>3 DEF AnswerVip, AddVip, RemoveVip
  <2>4. CASE AnswerIps(u)
    BY <2>4 DEF AnswerIps, AddCleanIps, peopleVars
  <2>5. CASE AnswerSource(u)
    BY <2>5 DEF AnswerSource, AddScraperSource, peopleVars
  <2>6. CASE Document(u)
    BY <2>6 DEF Document, ImportCleanIps, peopleVars
  <2>7. QED
    BY <1>5, <2>1, <2>2, <2>3, <2>4, <2>5, <2>6 DEF Text
<1>6. QED
  BY <1>1, <1>2, <1>3, <1>4, <1>5 DEF Next

-----------------------------------------------------------------------------
(* While a text is being sent only sending goes on: so nobody can leave    *)
(* users or vips before the text comes to him.                             *)
SendOK ==
    /\ sending \in BOOLEAN
    /\ left \subseteq Users
    /\ got \in [Users -> 0 .. 1]
    /\ OnceEach
    /\ ~sending => got = Unsent

\* No handler starts in the middle of a send, and most leave it alone.
LEMMA HandlerBetweenSends ==
    ASSUME NEW u \in Users, StartCommand(u) \/ Button(u) \/ Text(u) \/ Document(u)
    PROVE  ~sending /\ up /\ up' = up /\ (UNCHANGED sendVars \/ AnswerBroadcast(u))
<1>1. CASE StartCommand(u) \/ Document(u)
  BY <1>1 DEF StartCommand, Document, Serving
<1>2. CASE Button(u)
  <2>1. Press(u) \/ ToggleSource(u)
    BY <1>2 DEF Button, MenuCustom, Country, MenuProtocol, BackMain,
         AdminPanel, WhiteConfigsMenu, VipPanel, CleanIpMenu, ScraperMenu, Ask
  <2>2. QED
    BY <2>1 DEF Press, ToggleSource, Serving
<1>3. CASE Text(u)
  <2>1. CASE AnswerConfigCount(u)
    BY <2>1 DEF AnswerConfigCount, Serving
  <2>2. CASE \/ AnswerCount(u) \/ AnswerPerfCount(u) \/ AnswerIpCount(u)
             \/ AnswerRejected(u)
    BY <2>2, AnswerFact DEF AnswerCount, AnswerPerfCount, AnswerIpCount, AnswerRejected,
         AnswerChangesNothing
  <2>3. CASE AnswerAdmin(u) \/ AnswerVip(u) \/ AnswerIps(u) \/ AnswerSource(u)
    BY <2>3, AnswerFact DEF AnswerAdmin, AnswerVip, AnswerIps, AnswerSource
  <2>4. CASE AnswerBroadcast(u)
    BY <2>4, AnswerFact DEF AnswerBroadcast
  <2>5. QED
    BY <1>3, <2>1, <2>2, <2>3, <2>4 DEF Text
<1>4. QED
  BY <1>1, <1>2, <1>3

\* The state when nothing is being sent.
LEMMA NothingSent ==
    ASSUME NEW g, g = Unsent
    PROVE  g \in [Users -> 0 .. 1] /\ \A x \in Users : g[x] <= 1
<1>1. Unsent \in [Users -> 0 .. 1]
  BY DEF Unsent
<1>2. g \in [Users -> 0 .. 1]
  BY <1>1
<1>3. QED
  BY <1>2

\* Every step keeps to it: sending comes once to each in left, everything
\* else starts when left is empty.
LEMMA SendPreserved ==
    ASSUME TablesOK, SendOK, [Next]_vars
    PROVE  SendOK'
<1> USE DEF SendOK, OnceEach
<1>1. CASE PostInit
  BY <1>1 DEF PostInit, sendVars, Unsent
<1>2. CASE Crash
  BY <1>2, NothingSent DEF Crash, Unsent
<1>3. CASE UNCHANGED vars
  BY <1>3 DEF vars, peopleVars, sendVars, Unsent
<1>4. ASSUME NEW x \in Users, Sent(x) \/ SendFails(x)
      PROVE  SendOK'
  <2>1. /\ sending /\ x \in left /\ got[x] = 0 /\ left' = left \ {x}
        /\ UNCHANGED <<sending, users, vips>>
    BY <1>4 DEF Sent, SendFails, peopleVars
  <2>2. got' = got \/ got' = [got EXCEPT ![x] = 1]
    BY <1>4, <2>1 DEF Sent, SendFails
  <2>3. QED
    BY <2>1, <2>2 DEF Unsent
<1>5. CASE AllSent
  BY <1>5, NothingSent DEF AllSent, Unsent
<1>6. ASSUME NEW u \in Users, StartCommand(u) \/ Button(u) \/ Text(u) \/ Document(u)
      PROVE  SendOK'
  <2>1. CASE UNCHANGED sendVars
    <3>1. ~sending /\ left = {} /\ got = Unsent
      BY <1>6, HandlerBetweenSends
    <3>2. QED
      BY <2>1, <3>1 DEF sendVars, Unsent
  <2>2. CASE AnswerBroadcast(u)
    <3>1. ~sending /\ got = Unsent
      BY <1>6, HandlerBetweenSends
    <3>2. left' \in {users', vips'} /\ sending' = TRUE /\ got' = got
      BY <2>2 DEF AnswerBroadcast, peopleVars
    <3>3. TablesOK'
      BY <1>6, TablesPreserved DEF Next
    <3>4. QED
      BY <3>1, <3>2, <3>3 DEF Unsent, TablesOK, RegistryOK
  <2>3. QED
    BY <1>6, <2>1, <2>2, HandlerBetweenSends
<1>7. QED
  BY <1>1, <1>2, <1>3, <1>4, <1>5, <1>6 DEF Next, Send

-----------------------------------------------------------------------------
\* Only the start and the end of the process change up.
LEMMA UpPreserved ==
    ASSUME up \in BOOLEAN, [Next]_vars
    PROVE  up' \in BOOLEAN
<1>1. CASE PostInit \/ Crash \/ Send \/ UNCHANGED vars
  BY <1>1 DEF PostInit, Crash, Send, Sent, SendFails, AllSent, vars
<1>2. ASSUME NEW u \in Users, StartCommand(u) \/ Button(u) \/ Text(u) \/ Document(u)
      PROVE  up' \in BOOLEAN
  BY <1>2, HandlerBetweenSends
<1>3. QED
  BY <1>1, <1>2 DEF Next

\* The invariant, put together from what the lemmas above preserve.
LEMMA InvParts ==
    DialogueInv <=> /\ up \in BOOLEAN /\ DataOK /\ IpCountHasConfigCount
                    /\ TablesOK /\ SendOK
BY DEF DialogueInv, TypeOK, DataOK, TablesOK, SendOK

(* The inductive invariant: types, the two keys of the configs_per_ip      *)
(* dialogue (admin.py:828) and the state of a text to many (admin.py:650). *)
THEOREM DialogueInvariant == Spec => []DialogueInv
<1>1. Init => DialogueInv
  <2>1. Init => SendOK
    BY NothingSent DEF Init, SendOK, OnceEach
  <2>2. Init => up \in BOOLEAN /\ DataOK /\ IpCountHasConfigCount /\ TablesOK
    BY DEF Init, RegistryInit, SourceTableInit, DataOK, TablesOK, RegistryOK,
         SourceTableOK, IpCountHasConfigCount
  <2>3. QED
    BY <2>1, <2>2, InvParts
<1>2. DialogueInv /\ [Next]_vars => DialogueInv'
  <2> SUFFICES ASSUME DialogueInv, [Next]_vars
               PROVE  DialogueInv'
    OBVIOUS
  <2>1. /\ up \in BOOLEAN /\ DataOK /\ IpCountHasConfigCount /\ TablesOK /\ SendOK
    BY InvParts
  <2>2. up' \in BOOLEAN
    BY <2>1, UpPreserved
  <2>3. DataOK' /\ IpCountHasConfigCount'
    BY <2>1, DataPreserved
  <2>4. TablesOK'
    BY <2>1, TablesPreserved
  <2>5. SendOK'
    BY <2>1, SendPreserved
  <2>6. QED
    BY <2>2, <2>3, <2>4, <2>5 DEF DialogueInv, TypeOK, DataOK, TablesOK, SendOK
<1>3. QED
  BY <1>1, <1>2, PTL DEF Spec

(* user_data holds known keys only, the tables known ids only, whatever    *)
(* buttons and texts come in which order.                                  *)
THEOREM DialogueTypes == Spec => []TypeOK
<1>1. DialogueInv => TypeOK
  BY DEF DialogueInv
<1>2. QED
  BY <1>1, DialogueInvariant, PTL

(* A text to many (admin.py:650) comes at most once to each user, and only *)
(* to those registered when it was sent, for any number of users.          *)
THEOREM TextReachesOnce == Spec => []OnceEach
<1>1. DialogueInv => OnceEach
  BY DEF DialogueInv
<1>2. QED
  BY <1>1, DialogueInvariant, PTL

(* The default of 1 in admin.py:855 is never used: who is asked for        *)
(* ip_count has the other number, for any number of users and keys.        *)
THEOREM SecondNumberAfterFirst == Spec => []IpCountHasConfigCount
<1>1. DialogueInv => IpCountHasConfigCount
  BY DEF DialogueInv
<1>2. QED
  BY <1>1, DialogueInvariant, PTL

-----------------------------------------------------------------------------
\* A question that a handler took up is no longer there when it is done.
LEMMA AnsweredFact ==
    ASSUME DataOK, NEW u \in Users, NEW questions, Answer(u, questions)
    PROVE  Answered(u, questions)
BY AnswerFact DEF Answered, DataOK

RightKept ==
    /\ up /\ admins' # admins =>
         Answered(Owner, {"awaiting_admin_id", "awaiting_remove_admin"})
    /\ vips' # vips =>
         \E u \in Users : IsAdmin(u) /\ Answered(u, {"awaiting_vip_id", "awaiting_vip_remove"})
    /\ sources' # sources =>
         \E u \in Users : IsAdmin(u) /\ Answered(u, {"awaiting_scraper_tg", "awaiting_scraper_sub"})
    /\ sending' /\ ~sending =>
         \E u \in Users : IsAdmin(u) /\ Answered(u, {"broadcast_mode", "vip_broadcast_mode"})

\* Which handlers change what, one after the other.
LEMMA StepByRight ==
    ASSUME DialogueInv, [Next]_vars
    PROVE  RightKept
<1> DataOK /\ sending \in BOOLEAN
  BY DEF DialogueInv, TypeOK, DataOK
<1> USE DEF RightKept
<1>1. ASSUME UNCHANGED <<admins, vips, sources>>, sending' => sending
      PROVE  RightKept
  BY <1>1
<1>2. CASE PostInit
  BY <1>2 DEF PostInit, sendVars
<1>3. CASE Crash \/ Send \/ UNCHANGED vars
  BY <1>3, <1>1 DEF Crash, Send, Sent, SendFails, AllSent, vars, peopleVars, sendVars
<1>4. ASSUME NEW u \in Users, StartCommand(u) \/ Document(u)
      PROVE  RightKept
  BY <1>4, <1>1 DEF StartCommand, Document, peopleVars, sendVars
<1>5. ASSUME NEW u \in Users, Button(u)
      PROVE  RightKept
  <2>1. Press(u) \/ ToggleSource(u)
    BY <1>5 DEF Button, MenuCustom, Country, MenuProtocol, BackMain,
         AdminPanel, WhiteConfigsMenu, VipPanel, CleanIpMenu, ScraperMenu, Ask
  <2>2. QED
    BY <2>1, <1>1 DEF Press, ToggleSource, ToggleScraperSource, peopleVars, sendVars
<1>6. ASSUME NEW u \in Users, Text(u)
      PROVE  RightKept
  <2>1. CASE \/ AnswerCount(u) \/ AnswerPerfCount(u) \/ AnswerIpCount(u)
             \/ AnswerRejected(u) \/ AnswerIps(u) \/ AnswerConfigCount(u)
    BY <2>1, <1>1 DEF AnswerCount, AnswerPerfCount, AnswerIpCount, AnswerRejected,
           AnswerChangesNothing, AnswerIps, AnswerConfigCount, peopleVars, sendVars
  <2>2. CASE AnswerAdmin(u)
    <3>1. u = Owner /\ UNCHANGED <<vips, sources, sending>>
      BY <2>2 DEF AnswerAdmin, IsOwner, sendVars
    <3>2. \E q \in {"awaiting_admin_id", "awaiting_remove_admin"} : Answer(u, {q})
      BY <2>2 DEF AnswerAdmin
    <3>3. Answered(u, {"awaiting_admin_id", "awaiting_remove_admin"})
      BY <3>2, AnsweredFact DEF Answered
    <3>4. QED
      BY <3>1, <3>3
  <2>3. CASE AnswerVip(u)
    <3>1. IsAdmin(u) /\ UNCHANGED <<admins, sources, sending>>
      BY <2>3 DEF AnswerVip, sendVars
    <3>2. \E q \in {"awaiting_vip_id", "awaiting_vip_remove"} : Answer(u, {q})
      BY <2>3 DEF AnswerVip
    <3>3. Answered(u, {"awaiting_vip_id", "awaiting_vip_remove"})
      BY <3>2, AnsweredFact DEF Answered
    <3>4. QED
      BY <3>1, <3>3
  <2>4. CASE AnswerSource(u)
    BY <2>4, AnsweredFact DEF AnswerSource, peopleVars, sendVars
  <2>5. CASE AnswerBroadcast(u)
    <3>1. IsAdmin(u) /\ UNCHANGED <<admins, vips, sources>>
      BY <2>5 DEF AnswerBroadcast, peopleVars
    <3>2. \E q \in {"broadcast_mode", "vip_broadcast_mode"} : Answer(u, {q})
      BY <2>5 DEF AnswerBroadcast
    <3>3. Answered(u, {"broadcast_mode", "vip_broadcast_mode"})
      BY <3>2, AnsweredFact DEF Answered
    <3>4. QED
      BY <3>1, <3>3
  <2>6. QED
    BY <1>6, <2>1, <2>2, <2>3, <2>4, <2>5 DEF Text
<1>7. QED
  BY <1>2, <1>3, <1>4, <1>5, <1>6 DEF Next

(* Admins, VIPs, sources and texts to many change or start only with the   *)
(* answer of somebody who has the right when he answers (admin.py:504, 539,*)
(* 603, 650).                                                              *)
THEOREM TablesChangeByRight == Spec => ChangesByRight
<1>1. DialogueInv /\ [Next]_vars => [RightKept]_vars
  BY StepByRight
<1>2. QED
  BY <1>1, DialogueInvariant, PTL DEF Spec, ChangesByRight, RightKept
=============================================================================
