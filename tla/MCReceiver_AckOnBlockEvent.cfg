CONSTANTS
    a1 = a1
    v1 = v1
    v2 = v2
    bad = bad
    Accounts <- MCAccounts
    AbiVersions <- MCAbiVersions
    BadAbi = bad
    BlockOps <- MCBlockOps
    MaxBlock = 3
    MaxForks = 0
    MaxRestarts = 1
    MaxInFlight = 1
    ExporterWillAck = TRUE
    MaxUnconfirmed = 2
    RowSubscribers = TRUE
    AbiSubscribers = TRUE
    ExporterSlowdown = FALSE
    MaxQueueSize = 100
    MaxEvents = 4
    UIntMod <- MCUIntMod
    AcksBlockEvents = TRUE
    ReceiverKeepsUp = TRUE
    ConsumerReadsReason = TRUE
    Dependents <- MCDependentsNone

SPECIFICATION Spec


\* After a close the receiver does not reconnect (spec.md 4.1); with the
\* restart bound spent and the server chain at its bound, the system stops.
CHECK_DEADLOCK FALSE
INVARIANT ConsumerSeesBranchDeltas
