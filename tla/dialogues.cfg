\* The owner and one more user, an old admins.json, any two keys at a time.
SPECIFICATION FairSpec
CONSTANTS
    Users = {owner, ann}
    Owner = owner
    Ips = {ip}
    Sources <- MCSources
    Legacy = {ann}
    MaxKeys = 2
INVARIANTS IpCountHasConfigCount OnceEach DialogueInv
PROPERTIES ChangesByRight SendingEnds
