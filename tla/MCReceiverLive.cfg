CONSTANTS
    a1 = a1
    v1 = v1
    v2 = v2
    bad = bad
    Accounts <- MCAccounts
    AbiVersions <- MCAbiVersions
    BadAbi = bad
    BlockOps <- MCBlockOps
    MaxBlock = 4
    MaxForks = 0
    MaxRestarts = 1
    MaxInFlight = 1
    ExporterWillAck = TRUE
    MaxUnconfirmed = 2
    RowSubscribers = TRUE
    AbiSubscribers = TRUE
    ExporterSlowdown = FALSE
    MaxQueueSize = 100
    MaxEvents = 2
    UIntMod <- MCUIntMod
    AcksBlockEvents = FALSE
    ReceiverKeepsUp = TRUE
    ConsumerReadsReason = TRUE
    Dependents <- MCDependentsOne

SPECIFICATION FairSpec


\* After a close the receiver does not reconnect (spec.md 4.1); with the
\* restart bound spent and the server chain at its bound, the system stops.
CHECK_DEADLOCK FALSE
PROPERTY CatchesUp
PROPERTY ReceiverLaunches
PROPERTY FollowerSpec
INVARIANT ConsumerSeesBranchDeltas
