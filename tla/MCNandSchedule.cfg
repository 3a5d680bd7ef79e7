\* Three ways, so that a way leaves a list from its middle; as many bad answers
\* as it takes to use up the retries of a read.
SPECIFICATION FairSpec
CONSTANTS
    NumWays = 3
    RetryLimit = 1
    None = None
    Kinds <- Requests
    MaxReqs = 2
    MaxFaults = 2
INVARIANTS
    WaysListed
PROPERTIES
    CommandsWellTimed
    CompletedForReal
    RetriesExact
    ImplementsQueues
CHECK_DEADLOCK FALSE
