SPECIFICATION Spec
CONSTANTS
    Size = 4
    Lists <- MCLists
    MaxDisturbed = 2
INVARIANTS SnapshotIsWhole
PROPERTIES AlwaysRenewed
