SPECIFICATION MatchingSpec
CONSTANTS
    Paths <- MCPaths
    Specs <- MCSpecs
    Messages <- MCMessages
    Deletions <- MCDeletions
    Patterns <- MCPatterns
    Strings <- MCStrings
    MaxNodes = 4
    MaxDeletions = 2
    MaxMessages = 1
CHECK_DEADLOCK FALSE
INVARIANTS ListIsTable DeletionIsComplete UndefinedExplained CalledAsRegistered MatcherIsGlob
PROPERTIES ListingIsTable
