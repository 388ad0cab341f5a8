CONSTANTS
    Modules = 2
    Files = 3
    Limit = 2
    Workers = 2
    Listings <- MCListings
    Contents <- MCContents
SPECIFICATION FairSpec
PROPERTIES Promised Answered
CHECK_DEADLOCK FALSE
