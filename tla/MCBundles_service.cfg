\* Everything may fail anywhere, under fairness; no symmetry, it is unsound for liveness.
SPECIFICATION FairSpec
CONSTANTS
    SpokeMax = 2
    SlotMax = 0
    Names = {a}
    Ids = {d1, d2}
    Bases = {b1}
    Mtus = {m1}
    Bins = {w1}
    MaxVersion = 3
    FailAt <- FailAnywhere
    NoRow = NoRow
    NoBundle = NoBundle
    NoSettings = NoSettings
    NoClient = NoClient
INVARIANTS TypeOK SameVersionSameBundle OldBundleWorks
PROPERTY CatchesUp
