SPECIFICATION Spec
CONSTANTS
    Keys = {1, 2, 3}
    Absent = Absent
    LegacyMarker = LegacyMarker
    Corrupt = Corrupt
    Processes = {p1}
    Nobody = Nobody
    Retention = 1
    MaxTime = 3
    MaxSequence = 4
    InitialValues <- OldFile
INVARIANTS
    QueueOrdersUnique
    OpenFileIsReadable
    PendingOrderIsTotal
    QueueFollowsDiscovery
PROPERTIES
    DiscoveryIsStable
    ForgetReversesDiscovery
    ImplementsLedger
