\* obfmesh-ctl reconcile next to the running service; nobody is killed.
SPECIFICATION Spec
CONSTANTS
    SpokeMax = 1
    c1 = c1
    c2 = c2
    c3 = c3
    Confs = {c1}
    Base <- MCBase
    Bins = {b1}
    Pids = {p1, p2, p3}
    Svc = svc
    Clis = {ctl}
    Overlap = TRUE
    CrashAt <- CrashNowhere
    FailAt <- FailNowhere
    NoPid = NoPid
    NoConf = NoConf
    NoProc = NoProc
    NoSettings = NoSettings
SYMMETRY PidSymmetry
PROPERTY SupervisorStartsMissing
