CONSTANTS
    a1 = a1
    v1 = v1
    v2 = v2
    bad = bad
    Accounts <- MCAccounts
    AbiVersions <- MCAbiVersions
    BadAbi = bad
    BlockOps <- MCBlockOpsNone
    MaxBlock = 3
    MaxForks = 1
    MaxRestarts = 0
    MaxInFlight = 1
    ExporterWillAck = TRUE
    MaxUnconfirmed = 2
    RowSubscribers = FALSE
    AbiSubscribers = FALSE
    ExporterSlowdown = FALSE
    MaxQueueSize = 100
    MaxEvents = 2
    UIntMod <- MCUIntMod
    AcksBlockEvents = TRUE
    ReceiverKeepsUp = TRUE
    ConsumerReadsReason = FALSE
    Dependents <- MCDependentsNone

SPECIFICATION FairSpec


\* After a close the receiver does not reconnect (spec.md 4.1); with the
\* restart bound spent and the server chain at its bound, the system stops.
CHECK_DEADLOCK FALSE
PROPERTY CatchesUp
