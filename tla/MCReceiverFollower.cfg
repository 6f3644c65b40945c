CONSTANTS
    a1 = a1
    v1 = v1
    v2 = v2
    bad = bad
    Accounts <- MCAccounts
    AbiVersions <- MCAbiVersions
    BadAbi = bad
    BlockOps <- MCBlockOpsBad
    MaxBlock = 3
    MaxForks = 1
    MaxRestarts = 0
    MaxInFlight = 1
    ExporterWillAck = TRUE
    MaxUnconfirmed = 2
    RowSubscribers = TRUE
    AbiSubscribers = TRUE
    ExporterSlowdown = TRUE
    MaxQueueSize = 0
    MaxEvents = 2
    UIntMod <- MCUIntMod
    AcksBlockEvents = TRUE
    ReceiverKeepsUp = TRUE
    ConsumerReadsReason = FALSE
    Dependents <- MCDependents

SPECIFICATION Spec


\* After a close the receiver does not reconnect (spec.md 4.1); with the
\* restart bound spent and the server chain at its bound, the system stops.
CHECK_DEADLOCK FALSE
PROPERTY FollowerSpec
INVARIANT AbiCacheCoherent
INVARIANT StoreFollowsAccepted
INVARIANT ConsumerSeesBranchDeltas
INVARIANT DependentsStartedFirst
