CONSTANTS
    u = u
    v = v
    URLs <- SomeURLs
    NoURL = NoURL
    Paragraphs <- SomeParagraphs
    Unreadable = Unreadable
    Pages = 2
    MaxRetries = 2
    MaxListings = 2
SPECIFICATION Spec
INVARIANTS
    EveryListingAccountedFor
    FirstPageWins
    FailsOnlyWithEveryPage
    EveryTextInItsField
PROPERTIES
    NothingAfterCancellation
