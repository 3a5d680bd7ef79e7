\* Six events of the host and the link, for a host that lags or not and a link
\* that is steady or not: enough for two sessions, or for a reset past the limit.
SPECIFICATION FairSpec
CONSTANTS
    Queues = {q1}
    RstLimit = 1
    MaxEvents = 6
    MaxWork = 1
INVARIANTS
    SessionsSound
    ReadyIsServed
PROPERTIES
    HostRequestsSucceed
CHECK_DEADLOCK FALSE
