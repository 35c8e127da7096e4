------------------------------- MODULE Registry -------------------------------
(***************************************************************************)
(* What crud.py does to the tables of people and addresses: users, admins, *)
(* vip_users and clean_ips.  Each operator is one function of crud.py, or  *)
(* one transaction of it, as it changes the table it works on.  Only what  *)
(* decides something is kept: names, start counts and dates are not.       *)
(***************************************************************************)
CONSTANTS Users,   \* telegram ids
          Owner,   \* owner_id of the settings
          Ips      \* addresses an admin may send

ASSUME RegistryAssumption == Owner \in Users

VARIABLES users,     \* ids with a row in users
          admins,    \* ids with a row in admins
          vips,      \* ids with a row in vip_users
          cleanIps   \* addresses with a row in clean_ips

RegistryOK ==
    /\ users \subseteq Users
    /\ admins \subseteq Users
    /\ vips \subseteq Users
    /\ cleanIps \subseteq Ips

RegistryInit == users = {} /\ admins = {} /\ vips = {} /\ cleanIps = {}

(* auth.py: the owner is an admin without a row.                           *)
IsOwner(u) == u = Owner
IsAdmin(u) == IsOwner(u) \/ u \in admins

(* upsert_user and bump_user_start.                                        *)
UpsertUser(u) == users' = users \cup {u}

AddAdmin(u)    == admins' = admins \cup {u}
RemoveAdmin(u) == admins' = admins \ {u}

AddVip(u)    == vips' = vips \cup {u}
RemoveVip(u) == vips' = vips \ {u}

(* One commit for each address: when one fails, those before it stay.      *)
AddCleanIps(ips) == \E stored \in SUBSET ips : cleanIps' = cleanIps \cup stored

(* delete_old_clean_ips, whichever rows are five days old, then the adds.  *)
ImportCleanIps(ips) ==
    \E old \in SUBSET cleanIps, stored \in SUBSET ips :
        cleanIps' = (cleanIps \ old) \cup stored
=============================================================================
