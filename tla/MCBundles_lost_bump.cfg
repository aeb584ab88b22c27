\* A pass may be cut off between a change of the bundles and the bump.
SPECIFICATION Spec
CONSTANTS
    SpokeMax = 2
    SlotMax = 0
    Names = {a}
    Ids = {d1}
    Bases = {b1}
    Mtus = {m1}
    Bins = {w1}
    MaxVersion = 4
    FailAt <- FailAnywhere
    NoRow = NoRow
    NoBundle = NoBundle
    NoSettings = NoSettings
    NoClient = NoClient
SYMMETRY IdSymmetry
INVARIANT UpToDate
