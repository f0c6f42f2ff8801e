SPECIFICATION Spec
CONSTANTS
    Cells <- Ring
    Order <- InTurn
    Habitats <- Neighbourhoods
    WeightLists <- SomeWeights
    Seeds <- OneSeed
    Adds = {0, 2}
    Rates = {1, 2}
    One = 3
    NaN = NaN
    Grain = 2
    MaxFrames = 4
CHECK_DEADLOCK FALSE
INVARIANTS SweepInv TriggerIsMax NaNOnlyFromZeroWeights
PROPERTIES SweepIsSynchronous
