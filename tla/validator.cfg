\* A job whose configs share a host, and another job that calls the limiter.
SPECIFICATION FairSpec
CONSTANTS
    a = a
    b = b
    nohost = nohost
    host = host
    Configs = {a, b, nohost}
    Others = {o1}
    Hosts = {host}
    HostOf <- MCHostOf
    Callers <- MCCallers
    MaxConcurrent = 2
    Limit = 2
    Window = 3
INVARIANTS BatchInv RateBound StampsSorted LookupBound ResultOnce
PROPERTIES BatchEnds EveryoneServed
