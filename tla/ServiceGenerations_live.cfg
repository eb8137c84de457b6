SPECIFICATION FairSpec
CONSTANTS
    a = a
    b = b
    alone = alone
    both = both
    later = later
    other = other
    Chats = {a, b}
    Snapshots = {alone, both}
    Invalid = Invalid
    Recipients <- RecipientsOf
    RunOnStartup <- StartupOf
    Unpreparable = {}
    Initial = alone
    Tasks = {t1}
    Free = Free
    MaxGenerations = 3
    MaxEdits = 2
PROPERTIES
    StopEnds
    ShutdownEnds
    SettingsConverge
