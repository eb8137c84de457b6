SPECIFICATION Spec
CONSTANTS
    Names <- SomeNames
    SafeNames = {"a", "A", "b", "x"}
    Folded <- FoldCase
    Normal <- Canonical
    DefaultFile <- DefaultFiles
    Default = Default
    Files = {"first", "second"}
    FormFields <- Fields
    Accepted <- Values
    Encodable = {"v", "w", "7", "14", "1"}
    Words = {"new", "old"}
    LastDays = "lday"
    Week = "7"
    Unset = Unset
    Cases <- AllCases
INVARIANTS
    NoSharedStateFile
    SourcesAsConfigured
    ExitStatusTells
