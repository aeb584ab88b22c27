\* Two port bases that overlap, one to three spokes: the ports of two settings are equal,
\* overlap, contain each other or are disjoint.  Everything may fail for a while.
SPECIFICATION FairSpec
CONSTANTS
    SpokeMax = 3
    Bases = {1024, 1025}
    ApiPort = 8080
    BaseRules = {forward, nat}
    FailAt <- FailAnyhow
INVARIANTS TypeOK WantedOpen NothingForgotten
PROPERTIES WantedStaysOpen PortsOpen
