SPECIFICATION Spec
CONSTANTS
    Listings <- SomeListings
    Limits = {2, 4, 5, 6, 8}
    ByteLimit = 15
INVARIANTS
    LongestPrefixButAtLimit
    RejectedOnlyIfNothingFits
PROPERTIES
    SearchHalves
