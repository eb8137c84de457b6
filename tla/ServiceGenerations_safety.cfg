SPECIFICATION Spec
CONSTANTS
    a = a
    b = b
    alone = alone
    both = both
    later = later
    other = other
    Chats = {a, b}
    Snapshots = {alone, both, other}
    Invalid = Invalid
    Recipients <- RecipientsOf
    RunOnStartup <- StartupOf
    Unpreparable = {other}
    Initial = alone
    Tasks = {t1, t2, t3}
    Free = Free
    MaxGenerations = 3
    MaxEdits = 2
SYMMETRY TaskSymmetry
INVARIANTS
    OneDigestPerChat
    OnlyCurrentSettingsRun
    GreetedOnce
PROPERTIES
    NoAdmissionWhileWaiting
