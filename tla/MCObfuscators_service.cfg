\* The service, and obfmesh-ctl while it is stopped; crashes outside the two windows.
SPECIFICATION Spec
CONSTANTS
    SpokeMax = 2
    c1 = c1
    c2 = c2
    c3 = c3
    Confs = {c1, c3}
    Base <- MCBase
    Bins = {b1, b2}
    Pids = {p1, p2, p3}
    Svc = svc
    Clis = {ctl}
    Overlap = FALSE
    CrashAt <- CrashOutside
    FailAt <- FailBefore
    NoPid = NoPid
    NoConf = NoConf
    NoProc = NoProc
    NoSettings = NoSettings
SYMMETRY PidSymmetry
INVARIANTS Reachable FreshConfig TeardownLeavesNothing
PROPERTIES StopJustified ServesSpokes
