\* The service and one obfmesh-ctl, one reader, OBFMESH_STOP_PROCESSES=1, files of every
\* release, under fairness.
SPECIFICATION FairSpec
CONSTANTS
    Procs = {svc, ctl}
    Svc = svc
    Nobody = Nobody
    Readers = {x1}
    Statements <- AllStatements
    Repeatable = {3}
    Broken = TRUE
    StopProcesses = TRUE
    StartLimitBurst = 2
INVARIANTS TypeOK SchemaIsVersion NobodyClashes StopLeavesNothing
PROPERTIES SettingsOnce Serves StatusAnswered
