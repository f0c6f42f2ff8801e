SPECIFICATION MatchingSpec
CONSTANTS
    Paths <- MCPaths
    Specs <- MCSpecs
    Messages <- MCMessages
    Deletions <- MCDeletions
    Patterns = {}
    Strings = {}
    MaxNodes = 2
    MaxDeletions = 0
    MaxMessages = 1
CHECK_DEADLOCK FALSE
INVARIANTS ArgvAsDocumented
