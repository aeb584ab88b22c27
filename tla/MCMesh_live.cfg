\* Failures, and a wg show that fails unnoticed, under fairness; no symmetry, it is unsound for liveness.
SPECIFICATION FairSpec
CONSTANTS
    SpokeMax = 2
    SlotMax = 0
    Names = {a}
    Ids = {d1}
    Bases = {b1}
    Mtus = {m1}
    Bins = {w1}
    FailAt <- FailUnnoticed
    Stranger = Stranger
    NoSlot = NoSlot
    NoRow = NoRow
    NoLink = NoLink
    NoSettings = NoSettings
PROPERTY MeshConverges
