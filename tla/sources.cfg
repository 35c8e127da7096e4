\* Two scrapes, two default sources and one more, a fetch with one retry.
SPECIFICATION FairSpec
CONSTANTS
    Sources <- MCSources
    Listed <- MCListed
    Defaults <- MCDefaults
    Jobs = {initial, scheduled}
    Retries = 1
    DbErrors = TRUE
INVARIANTS SourcesInv ResultsKept
PROPERTIES SeedsUntouchedTable ScrapeEnds
