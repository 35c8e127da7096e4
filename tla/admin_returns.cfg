\* A removed admin whose id is in admins.json, through a restart.
SPECIFICATION RemovalSpec
CONSTANTS
    Users = {owner, ann}
    Owner = owner
    Ips = {ip}
    Sources <- MCSources
    Legacy = {ann}
    MaxKeys = 1
INVARIANTS RemovalIsFinal
