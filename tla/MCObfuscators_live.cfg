\* The service alone under fairness; no symmetry, it is unsound for liveness.
SPECIFICATION FairSpec
CONSTANTS
    SpokeMax = 2
    c1 = c1
    c2 = c2
    c3 = c3
    Confs = {c1, c3}
    Base <- MCBase
    Bins = {b1}
    Pids = {p1, p2, p3}
    Svc = svc
    Clis = {}
    Overlap = FALSE
    CrashAt <- CrashOutside
    FailAt <- FailStarting
    NoPid = NoPid
    NoConf = NoConf
    NoProc = NoProc
    NoSettings = NoSettings
INVARIANTS Reachable AtMostOne
PROPERTY Converges
