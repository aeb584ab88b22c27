\* The removed client and the new one of its slot, or two clients; failures a
\* report names, crashes and reboots.
SPECIFICATION Spec
CONSTANTS
    SpokeMax = 2
    SlotMax = 1
    Names = {a, b}
    Ids = {d1, d2}
    Bases = {b1}
    Mtus = {m1}
    Bins = {w1}
    FailAt <- FailReported
    Stranger = Stranger
    NoSlot = NoSlot
    NoRow = NoRow
    NoLink = NoLink
    NoSettings = NoSettings
SYMMETRY IdSymmetry
INVARIANTS TypeOK FailureContained OkIsApplied
PROPERTY WorkingSpokesUntouched
