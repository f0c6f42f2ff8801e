SPECIFICATION Spec
CONSTANTS
    s1 = s1
    s2 = s2
    a1 = a1
    a2 = a2
    None = None
    Fds <- MCFds
    Servers <- MCServers
    Addresses <- MCAddresses
    ServerProtocols = {"udp", "tcp"}
    AddressProtocols = {"udp", "tcp", "unix"}
    Tries = 2
    Ttls <- MCTtls
SYMMETRY Symmetric
INVARIANTS OneOwner ThroughItsSocket ErrnumTells TtlExplained
