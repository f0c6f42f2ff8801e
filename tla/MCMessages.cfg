SPECIFICATION BundleSpec
CONSTANTS
    Hosts <- MCHosts
    PointerSize = 4
    Arguments <- MCArguments
    Lists <- MCLists
    Paths <- MCPaths
    PathAt <- MCPathAt
    MaxArgs = 3
    MaxDoublings = 4
    MaxBundled = 5
    BundledArgs = 1
INVARIANTS BuffersHold AddTells RoundTrip DamageShows HostsAgree BundleWhole FreedOnce
