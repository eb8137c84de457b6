SPECIFICATION FairSpec
CONSTANTS
    Keys = {1, 2}
    Undated = {2}
    Absent = Absent
    LegacyMarker = LegacyMarker
    Corrupt = Corrupt
    Processes = {service, command}
    Services = {service}
    Nobody = Nobody
    Year <- YearOf
    Retention = 1
    MaxTime = 1
    MaxSequence = 2
    MaxFaults = 1
PROPERTIES
    EventuallySettled
    ButtonReturns
