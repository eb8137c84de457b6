SPECIFICATION Spec
CONSTANTS
    Sizes <- SomeSizes
    MaxListings = 4
    Limits = {1, 2, 4, 7}
    ByteLimit = 13
    BlockLimit = 5
    Header <- HeaderSize
    Summary <- SummarySize
    Notice <- NoticeSize
    SectionBreak <- BreakSize
    Separator <- RuleSize
INVARIANTS
    MessagesFit
    ListingsSentOnceInOrder
    FailuresAreTold
    FewestMessages
