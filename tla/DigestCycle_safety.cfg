SPECIFICATION Spec
CONSTANTS
    Keys = {1, 2}
    Undated = {2}
    Absent = Absent
    LegacyMarker = LegacyMarker
    Corrupt = Corrupt
    Processes = {service, command}
    Services = {service}
    Nobody = Nobody
    Year <- YearOf
    Retention = 1
    MaxTime = 3
    MaxSequence = 3
    MaxFaults = 2
INVARIANTS
    UndeliveredStayPending
    CopiesAreAccountedFor
    OneSoundOneButton
PROPERTIES
    NoRepeatWithinRetention
    ImplementsOutbox
