SPECIFICATION Spec
CONSTANTS
    Keys = {1, 2}
    Absent = Absent
    LegacyMarker = LegacyMarker
    Corrupt = Corrupt
    Processes = {p1}
    Nobody = Nobody
    Retention = 1
    MaxTime = 2
    MaxSequence = 4
    InitialValues <- LegacyPendingFile
PROPERTIES
    ForgetReversesDiscovery
