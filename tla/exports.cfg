\* One row of each kind, two measured at a time, two clean IPs.
SPECIFICATION FairSpec
CONSTANTS
    vless = vless
    plain = plain
    json = json
    vmess = vmess
    trojan = trojan
    bare = bare
    server = server
    ip1 = ip1
    ip2 = ip2
    NoHost = NoHost
    Rows = {vless, plain, json, vmess, trojan, bare}
    Json = {json}
    Serverless = {bare}
    MaxConcurrency = 2
    Rounds = 3
    Latencies = {100, 700}
    Incoming <- MCIncoming
    Text <- MCText
    Host <- MCHost
    Ips = {ip1, ip2}
    RowLimit = 3
    TopCounts = {1, 2}
    Counts = {1, 4}
INVARIANTS NoLeftovers EachRowOnce ReportIsBest CleanHostsOnly EvenRotation
PROPERTIES NothingStartsAfterFailure EvaluationEnds
