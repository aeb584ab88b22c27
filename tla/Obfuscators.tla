----------------------------- MODULE Obfuscators -----------------------------
(***************************************************************************)
(* The obfuscator processes of the spokes and everyone who starts, stops   *)
(* and supervises them: class Orchestrator of src/server/obfmesh/          *)
(* orchestrator.py, run by the service (supervisor thread, API requests,   *)
(* start-up) and by obfmesh-ctl (cli.py) as a process of its own.          *)
(*                                                                         *)
(* A manager is one operating-system process with an Orchestrator in it.   *)
(* Inside a manager every pass (reconcile, check, teardown) runs under one *)
(* RLock, so a manager is one sequential control flow.  Nothing is locked  *)
(* between managers: their steps interleave, and share the pid files, the  *)
(* config files and the processes themselves.                              *)
(*                                                                         *)
(* Abstracted: the content of a config file is one value of Confs (key,    *)
(* masking and port base together); the interface, peer, route and firewall*)
(* steps of a pass are the single fact that they may fail before the       *)
(* obfuscator of the spoke is reached; the length of a pause is the fact   *)
(* that it is over or not.                                                 *)
(***************************************************************************)
EXTENDS Naturals

CONSTANTS
    SpokeMax,   \* highest spoke number
    Confs,      \* what a config file can say
    Base,       \* Base[c]: the port base in c; spoke i listens on Base[c] + i
    Bins,       \* paths of the obfuscator binary
    Pids,       \* process ids the kernel hands out
    Svc,        \* the service
    Clis,       \* obfmesh-ctl processes
    Overlap,    \* whether managers run at the same time, or obfmesh-ctl only
                \* while the service is stopped
    CrashAt,    \* the points of a pass at which a manager may be killed
    FailAt,     \* the points of a pass at which an exception may be raised
    NoPid, NoConf, NoProc, NoSettings

ASSUME SpokeMaxAssumption == SpokeMax \in Nat \ {0}
ASSUME BaseAssumption == Base \in [Confs -> Nat]
ASSUME NullAssumption == /\ NoPid \notin Pids
                         /\ NoConf \notin Confs
                         /\ NoProc \notin [spoke: Nat, bin: Bins, conf: Confs \cup {NoConf}]
                         /\ Svc \notin Clis
ASSUME OverlapAssumption == Overlap \in BOOLEAN

Spokes == 1 .. SpokeMax
Mgrs == {Svc} \cup Clis
Settings == [n: Spokes, conf: Confs, bin: Bins]

VARIABLES
    db,         \* the settings row
    pending,    \* a committed change whose reconcile() has not begun
    proc,       \* the live obfuscators by pid; conf = NoConf while starting up
    pidfile,    \* /run/obfmesh/obf{i}.pid
    conffile,   \* /etc/obfmesh/obf{i}.conf
    procs,      \* Orchestrator._procs of each manager
    waiting,    \* spokes of Orchestrator._backoff whose pause is not over
    pc, mode, cur,   \* where in which pass a manager is, and at which spoke
    snap,       \* the settings its pass has read
    chg,        \* config_changed of _reconcile_obfuscator
    new         \* the pid returned by Popen, not yet in _procs

machine == <<proc, pidfile, conffile>>
control == <<pc, mode, cur, snap, chg, new>>
vars == <<db, pending, machine, procs, waiting, control>>

Proc == [spoke: Spokes, bin: Bins, conf: Confs \cup {NoConf}]
Labels == {"down", "idle", "spoke", "look", "stop", "unlink", "clear",
           "start", "spawn", "settle", "record", "end"}
Modes == {"none", "reconcile", "check", "teardown"}

TypeOK ==
    /\ db \in Settings
    /\ pending \in BOOLEAN
    /\ proc \in [Pids -> Proc \cup {NoProc}]
    /\ pidfile \in [Spokes -> Pids \cup {NoPid}]
    /\ conffile \in [Spokes -> Confs \cup {NoConf}]
    /\ procs \in [Mgrs -> [Spokes -> Pids \cup {NoPid}]]
    /\ waiting \in SUBSET Spokes
    /\ pc \in [Mgrs -> Labels]
    /\ mode \in [Mgrs -> Modes]
    /\ cur \in [Mgrs -> Spokes]
    /\ snap \in [Mgrs -> Settings \cup {NoSettings}]
    /\ chg \in [Mgrs -> BOOLEAN]
    /\ new \in [Mgrs -> Pids \cup {NoPid}]

Init ==
    /\ db \in Settings
    /\ pending = FALSE
    /\ proc = [p \in Pids |-> NoProc]
    /\ pidfile = [i \in Spokes |-> NoPid]
    /\ conffile = [i \in Spokes |-> NoConf]
    /\ procs = [m \in Mgrs |-> [i \in Spokes |-> NoPid]]
    /\ waiting = {}
    /\ pc = [m \in Mgrs |-> "down"]
    /\ mode = [m \in Mgrs |-> "none"]
    /\ cur = [m \in Mgrs |-> 1]
    /\ snap = [m \in Mgrs |-> NoSettings]
    /\ chg = [m \in Mgrs |-> FALSE]
    /\ new = [m \in Mgrs |-> NoPid]

-----------------------------------------------------------------------------
(* Processes *)

Alive(p) == p \in Pids /\ proc[p] # NoProc
Running(p) == Alive(p) /\ proc[p].conf # NoConf
Port(c, i) == Base[c] + i

\* A pid is not handed out again while its process lives or a manager has it
\* in memory (an unreaped child keeps its pid).  A pid that only a pid file
\* still names can come back as another process.
FreePids == {p \in Pids : /\ ~Alive(p)
                          /\ \A m \in Mgrs : new[m] # p /\ \A i \in Spokes : procs[m][i] # p}

\* Mutant: the command line is not looked at.
AdoptableAnyone(i) == IF Alive(pidfile[i]) THEN pidfile[i] ELSE NoPid

\* _adopt: the process the pid file names, if it lives and its command line
\* has the config path of this spoke in it.  Pruning a pid file that names
\* nothing of the kind leaves exactly this value in it.
Adoptable(i) ==
    IF Alive(pidfile[i]) /\ proc[pidfile[i]].spoke = i THEN pidfile[i] ELSE NoPid

\* self._procs.get(index), else _adopt(index), and the pid file after it.
Tracked(m, i) == IF procs[m][i] # NoPid THEN procs[m][i] ELSE Adoptable(i)
PidfileAfter(m, i) == IF procs[m][i] # NoPid THEN pidfile[i] ELSE Adoptable(i)

\* The obfuscator reads its config and binds its port, or exits at once.
ComeUp(p) ==
    LET i == proc[p].spoke
        c == conffile[i]
        taken == \E q \in Pids : Running(q) /\ Port(proc[q].conf, proc[q].spoke) = Port(c, i)
    IN  /\ Alive(p) /\ ~Running(p)
        /\ proc' = [proc EXCEPT ![p] =
                        IF c = NoConf \/ taken THEN NoProc ELSE [@ EXCEPT !.conf = c]]
        /\ UNCHANGED <<db, pending, pidfile, conffile, procs, waiting, control>>

Die(p) ==
    /\ Alive(p)
    /\ proc' = [proc EXCEPT ![p] = NoProc]
    /\ UNCHANGED <<db, pending, pidfile, conffile, procs, waiting, control>>

-----------------------------------------------------------------------------
(* A pass: where it begins, how it moves on, how it ends *)

Goto(m, l) == pc' = [pc EXCEPT ![m] = l]

\* The loops run over settings.spoke_indexes when checking, and over every
\* number up to SPOKE_MAX when reconciling or tearing down.
Last(m) == IF mode[m] = "check" THEN snap[m].n ELSE SpokeMax

\* On to the next spoke, or out of the loop.
Advance(m) ==
    IF cur[m] < Last(m)
    THEN Goto(m, "spoke") /\ cur' = [cur EXCEPT ![m] = @ + 1]
    ELSE Goto(m, "end") /\ cur' = cur

Begin(m, kind, settings) ==
    /\ Goto(m, "spoke")
    /\ mode' = [mode EXCEPT ![m] = kind]
    /\ cur' = [cur EXCEPT ![m] = 1]
    /\ snap' = [snap EXCEPT ![m] = settings]
    /\ UNCHANGED <<db, machine, procs, waiting, chg, new>>

MayStart(m) == pc[m] = "down" /\ (Overlap \/ \A k \in Mgrs : pc[k] = "down")

\* The service starts with a reconcile(), before its supervisor thread.  After
\* a crash systemd waits RestartSec: what was starting up has bound or died.
StartService ==
    /\ MayStart(Svc)
    /\ \A p \in Pids : Alive(p) => Running(p)
    /\ Begin(Svc, "reconcile", db)
    /\ pending' = FALSE

\* reconcile() for an API request, or because its period is over.
BeginReconcile ==
    /\ pc[Svc] = "idle"
    /\ Begin(Svc, "reconcile", db)
    /\ pending' = FALSE

\* The settings cannot be read: reconcile() returns its report at once.
SettingsUnavailable ==
    /\ "begin" \in FailAt
    /\ pc[Svc] = "idle" \/ MayStart(Svc)
    /\ Goto(Svc, "idle")
    /\ pending' = FALSE
    /\ UNCHANGED <<db, machine, procs, waiting, mode, cur, snap, chg, new>>

\* A tick of the supervisor thread.
BeginCheck ==
    /\ pc[Svc] = "idle"
    /\ Begin(Svc, "check", db)
    /\ UNCHANGED pending

\* Shutdown with OBFMESH_STOP_PROCESSES=1.  Without it a shutdown is a crash
\* between two passes: nothing is stopped.
Shutdown ==
    /\ pc[Svc] = "idle"
    /\ Begin(Svc, "teardown", NoSettings)
    /\ UNCHANGED pending

RunReconcile(m) ==
    /\ m \in Clis /\ MayStart(m)
    /\ Begin(m, "reconcile", db)
    /\ UNCHANGED pending

RunTeardown(m) ==
    /\ m \in Clis /\ MayStart(m)
    /\ Begin(m, "teardown", NoSettings)
    /\ UNCHANGED pending

\* What a manager had in memory is gone with it.
Forget(m) ==
    /\ procs' = [procs EXCEPT ![m] = [i \in Spokes |-> NoPid]]
    /\ waiting' = IF m = Svc THEN {} ELSE waiting
    /\ pending' = IF m = Svc THEN FALSE ELSE pending

Rest(m) ==
    /\ mode' = [mode EXCEPT ![m] = "none"]
    /\ cur' = [cur EXCEPT ![m] = 1]
    /\ snap' = [snap EXCEPT ![m] = NoSettings]
    /\ chg' = [chg EXCEPT ![m] = FALSE]
    /\ new' = [new EXCEPT ![m] = NoPid]

\* The lock is released; a command, and a service that is shutting down, exit.
EndPass(m) ==
    /\ pc[m] = "end"
    /\ Rest(m)
    /\ IF m = Svc /\ mode[m] # "teardown"
       THEN Goto(m, "idle") /\ UNCHANGED <<procs, waiting, pending>>
       ELSE Goto(m, "down") /\ Forget(m)
    /\ UNCHANGED <<db, machine>>

\* A live process this manager alone knows of: between Popen and the pid file,
\* and from a pid file that could not be written until the process ends.
Unrecorded(m) ==
    \E p \in Pids : /\ Alive(p)
                    /\ new[m] = p \/ \E i \in Spokes : procs[m][i] = p
                    /\ pidfile[proc[p].spoke] # p

\* KillMode=process and start_new_session: the obfuscators outlive the manager.
Crash(m) ==
    /\ pc[m] \in CrashAt /\ pc[m] # "down"
    /\ Unrecorded(m) => "unrecorded" \in CrashAt
    /\ Goto(m, "down")
    /\ Rest(m)
    /\ Forget(m)
    /\ UNCHANGED <<db, machine>>

\* A reboot ends every process; /run is empty after it, /etc is not.
Reboot ==
    /\ proc' = [p \in Pids |-> NoProc]
    /\ pidfile' = [i \in Spokes |-> NoPid]
    /\ procs' = [m \in Mgrs |-> [i \in Spokes |-> NoPid]]
    /\ waiting' = {}
    /\ pending' = FALSE
    /\ pc' = [m \in Mgrs |-> "down"]
    /\ mode' = [m \in Mgrs |-> "none"]
    /\ cur' = [m \in Mgrs |-> 1]
    /\ snap' = [m \in Mgrs |-> NoSettings]
    /\ chg' = [m \in Mgrs |-> FALSE]
    /\ new' = [m \in Mgrs |-> NoPid]
    /\ UNCHANGED <<db, conffile>>

\* PATCH /api/settings commits its row first and reconciles after.
PatchSettings ==
    /\ pc[Svc] # "down"
    /\ \E s \in Settings \ {db} : db' = s
    /\ pending' = TRUE
    /\ UNCHANGED <<machine, procs, waiting, control>>

BackoffOver(i) ==
    /\ i \in waiting
    /\ waiting' = waiting \ {i}
    /\ UNCHANGED <<db, pending, machine, procs, control>>

-----------------------------------------------------------------------------
(* reconcile(): a spoke that is wanted *)

Wanted(m) == mode[m] = "reconcile" /\ cur[m] <= snap[m].n

\* An exception of RECOVERABLE before the obfuscator of the spoke is reached.
SpokeFails(m) ==
    /\ "spoke" \in FailAt
    /\ pc[m] = "spoke" /\ Wanted(m)
    /\ Advance(m)
    /\ UNCHANGED <<db, pending, machine, procs, waiting, mode, snap, chg, new>>

WriteConfig(m) ==
    /\ pc[m] = "spoke" /\ Wanted(m)
    /\ conffile' = [conffile EXCEPT ![cur[m]] = snap[m].conf]
    /\ chg' = [chg EXCEPT ![m] = conffile[cur[m]] # snap[m].conf]
    /\ Goto(m, "look")
    /\ UNCHANGED <<db, pending, proc, pidfile, procs, waiting, mode, cur, snap, new>>

\* Mutant: a rewritten config file does not restart a live obfuscator.
LookIgnoresConfig(m) ==
    LET i == cur[m]
        t == Tracked(m, i)
    IN  /\ pc[m] = "look"
        /\ procs' = [procs EXCEPT ![m][i] = t]
        /\ pidfile' = [pidfile EXCEPT ![i] = PidfileAfter(m, i)]
        /\ chg' = [chg EXCEPT ![m] = FALSE]
        /\ IF Alive(t) THEN Advance(m) ELSE Goto(m, "start") /\ cur' = cur
        /\ UNCHANGED <<db, pending, proc, conffile, waiting, mode, snap, new>>

\* Adopt if nothing is tracked; then leave alone, restart or start.
Look(m) ==
    LET i == cur[m]
        t == Tracked(m, i)
    IN  /\ pc[m] = "look"
        /\ procs' = [procs EXCEPT ![m][i] = t]
        /\ pidfile' = [pidfile EXCEPT ![i] = PidfileAfter(m, i)]
        /\ chg' = [chg EXCEPT ![m] = FALSE]
        /\ \/ ~Alive(t) /\ Goto(m, "start") /\ cur' = cur
           \/ /\ Alive(t)
              /\ IF chg[m] \/ proc[t].bin # snap[m].bin
                 THEN Goto(m, "stop") /\ cur' = cur
                 ELSE Advance(m)
        /\ UNCHANGED <<db, pending, proc, conffile, waiting, mode, snap, new>>

-----------------------------------------------------------------------------
(* _teardown_spoke(): a spoke that is not wanted; teardown_processes() *)

Unwanted(m) == mode[m] = "teardown" \/ (mode[m] = "reconcile" /\ cur[m] > snap[m].n)

\* Mutant: only what this manager has started itself is stopped.
TearDownOwn(m) ==
    LET i == cur[m]
        t == procs[m][i]
    IN  /\ pc[m] = "spoke" /\ Unwanted(m)
        /\ IF t # NoPid THEN Goto(m, "stop") /\ cur' = cur
           ELSE IF mode[m] = "reconcile" THEN Goto(m, "clear") /\ cur' = cur
           ELSE Advance(m)
        /\ UNCHANGED <<db, pending, machine, procs, waiting, mode, snap, chg, new>>

TearDown(m) ==
    LET i == cur[m]
        t == Tracked(m, i)
    IN  /\ pc[m] = "spoke" /\ Unwanted(m)
        /\ procs' = [procs EXCEPT ![m][i] = t]
        /\ pidfile' = [pidfile EXCEPT ![i] = PidfileAfter(m, i)]
        /\ IF t # NoPid THEN Goto(m, "stop") /\ cur' = cur
           ELSE IF mode[m] = "reconcile" THEN Goto(m, "clear") /\ cur' = cur
           ELSE Advance(m)
        /\ UNCHANGED <<db, pending, proc, conffile, waiting, mode, snap, chg, new>>

\* The backoff record and the config file of an unwanted spoke.
Clear(m) ==
    /\ pc[m] = "clear"
    /\ waiting' = IF m = Svc THEN waiting \ {cur[m]} ELSE waiting
    /\ conffile' = [conffile EXCEPT ![cur[m]] = NoConf]
    /\ Advance(m)
    /\ UNCHANGED <<db, pending, proc, pidfile, procs, mode, snap, chg, new>>

-----------------------------------------------------------------------------
(* _check_processes() *)

\* Mutant: the supervisor looks at _procs only and does not adopt.
CheckSpokeNoAdopt(m) ==
    LET i == cur[m]
        t == procs[m][i]
    IN  /\ pc[m] = "spoke" /\ mode[m] = "check"
        /\ \/ Alive(t) /\ Advance(m) /\ UNCHANGED <<procs, pidfile, waiting>>
           \/ /\ ~Alive(t)
              /\ procs' = [procs EXCEPT ![m][i] = NoPid]
              /\ pidfile' = [pidfile EXCEPT ![i] = NoPid]
              /\ waiting' = waiting \cup {i}
              /\ IF i \in waiting THEN Advance(m) ELSE Goto(m, "start") /\ cur' = cur
        /\ UNCHANGED <<db, pending, proc, conffile, mode, snap, chg, new>>

CheckSpoke(m) ==
    LET i == cur[m]
        t == Tracked(m, i)
    IN  /\ pc[m] = "spoke" /\ mode[m] = "check"
        /\ \/ /\ Alive(t)
              /\ procs' = [procs EXCEPT ![m][i] = t]
              /\ Advance(m)
              /\ UNCHANGED <<pidfile, waiting>>
           \/ /\ ~Alive(t)
              /\ procs' = [procs EXCEPT ![m][i] = NoPid]
              /\ pidfile' = [pidfile EXCEPT ![i] = NoPid]
              /\ waiting' = waiting \cup {i}
              /\ IF i \in waiting THEN Advance(m) ELSE Goto(m, "start") /\ cur' = cur
        /\ UNCHANGED <<db, pending, proc, conffile, mode, snap, chg, new>>

-----------------------------------------------------------------------------
(* _stop_obfuscator(): signal and wait, then the pid file *)

\* Mutant: the process is signalled and not waited for.
StopNoWait(m) ==
    /\ pc[m] = "stop"
    /\ procs' = [procs EXCEPT ![m][cur[m]] = NoPid]
    /\ Goto(m, "unlink")
    /\ UNCHANGED <<db, pending, machine, waiting, mode, cur, snap, chg, new>>

Stop(m) ==
    LET t == procs[m][cur[m]]
    IN  /\ pc[m] = "stop"
        /\ procs' = [procs EXCEPT ![m][cur[m]] = NoPid]
        /\ proc' = IF Alive(t) THEN [proc EXCEPT ![t] = NoProc] ELSE proc
        /\ Goto(m, "unlink")
        /\ UNCHANGED <<db, pending, pidfile, conffile, waiting, mode, cur, snap, chg, new>>

Unlink(m) ==
    /\ pc[m] = "unlink"
    /\ pidfile' = [pidfile EXCEPT ![cur[m]] = NoPid]
    /\ IF Wanted(m) THEN Goto(m, "start") /\ cur' = cur
       ELSE IF mode[m] = "reconcile" THEN Goto(m, "clear") /\ cur' = cur
       ELSE Advance(m)
    /\ UNCHANGED <<db, pending, proc, conffile, procs, waiting, mode, snap, chg, new>>

-----------------------------------------------------------------------------
(* _start_obfuscator() *)

\* No binary, or one that does not know the masking, or Popen failed.
StartFails(m) ==
    /\ pc[m] \in {"start", "spawn"} /\ pc[m] \in FailAt
    /\ Advance(m)
    /\ UNCHANGED <<db, pending, machine, procs, waiting, mode, snap, chg, new>>

\* A process the pid file names is taken instead of starting a second one.
StartAdopts(m) ==
    LET i == cur[m]
    IN  /\ pc[m] = "start"
        /\ pidfile' = [pidfile EXCEPT ![i] = Adoptable(i)]
        /\ \/ /\ Adoptable(i) # NoPid
              /\ procs' = [procs EXCEPT ![m][i] = Adoptable(i)]
              /\ Advance(m)
           \/ /\ Adoptable(i) = NoPid
              /\ Goto(m, "spawn")
              /\ UNCHANGED <<procs, cur>>
        /\ UNCHANGED <<db, pending, proc, conffile, waiting, mode, snap, chg, new>>

Spawn(m) ==
    /\ pc[m] = "spawn"
    /\ \E p \in FreePids :
         /\ proc' = [proc EXCEPT ![p] = [spoke |-> cur[m], bin |-> snap[m].bin, conf |-> NoConf]]
         /\ new' = [new EXCEPT ![m] = p]
    /\ Goto(m, "settle")
    /\ UNCHANGED <<db, pending, pidfile, conffile, procs, waiting, mode, cur, snap, chg>>

\* Mutant: the fresh process is not entered in _procs.
SettleUntracked(m) ==
    /\ pc[m] = "settle"
    /\ new' = [new EXCEPT ![m] = NoPid]
    /\ \/ ~Alive(new[m]) /\ Advance(m)
       \/ Running(new[m]) /\ Goto(m, "record") /\ cur' = cur
    /\ UNCHANGED <<db, pending, machine, procs, waiting, mode, snap, chg>>

\* START_SETTLE is long enough for the process to bind or to die.
Settle(m) ==
    /\ pc[m] = "settle"
    /\ new' = [new EXCEPT ![m] = NoPid]
    /\ \/ /\ ~Alive(new[m])
          /\ Advance(m)
          /\ UNCHANGED procs
       \/ /\ Running(new[m])
          /\ procs' = [procs EXCEPT ![m][cur[m]] = new[m]]
          /\ Goto(m, "record") /\ cur' = cur
    /\ UNCHANGED <<db, pending, machine, waiting, mode, snap, chg>>

Record(m) ==
    /\ pc[m] = "record"
    /\ pidfile' = [pidfile EXCEPT ![cur[m]] = procs[m][cur[m]]]
    /\ Advance(m)
    /\ UNCHANGED <<db, pending, proc, conffile, procs, waiting, mode, snap, chg, new>>

\* The pid file is truncated before it is written: a failed write leaves nothing.
RecordFails(m) ==
    /\ pc[m] = "record" /\ "record" \in FailAt
    /\ pidfile' = [pidfile EXCEPT ![cur[m]] = NoPid]
    /\ Advance(m)
    /\ UNCHANGED <<db, pending, proc, conffile, procs, waiting, mode, snap, chg, new>>

-----------------------------------------------------------------------------

Step(m) ==
    \/ WriteConfig(m) \/ Look(m) \/ TearDown(m) \/ Clear(m) \/ CheckSpoke(m)
    \/ Stop(m) \/ Unlink(m) \/ StartAdopts(m) \/ Spawn(m) \/ Settle(m) \/ Record(m)
    \/ EndPass(m)

Fail(m) == SpokeFails(m) \/ StartFails(m) \/ RecordFails(m)

\* What the environment does to the system, and people to the environment.
Disturb ==
    \/ \E p \in Pids : Die(p)
    \/ \E m \in Mgrs : Crash(m) \/ Fail(m) \/ RunReconcile(m) \/ RunTeardown(m)
    \/ Reboot \/ PatchSettings \/ SettingsUnavailable \/ Shutdown

Next ==
    \/ Disturb
    \/ StartService \/ BeginReconcile \/ BeginCheck
    \/ \E m \in Mgrs : Step(m)
    \/ \E p \in Pids : ComeUp(p)
    \/ \E i \in Spokes : BackoffOver(i)

Spec == Init /\ [][Next]_vars

\* systemd restarts the service (within its start limit); a pass goes on; a process
\* starting up binds or exits; a pause ends; the period of reconcile() is not set to zero.
\* Between two ticks the supervisor sleeps without the lock, so a reconcile() that waits
\* for it gets it, and the other way round.
Fairness ==
    /\ WF_vars(StartService)
    /\ SF_vars(BeginReconcile) /\ SF_vars(BeginCheck)
    /\ \A m \in Mgrs : WF_vars(Step(m))
    /\ \A p \in Pids : WF_vars(ComeUp(p))
    /\ \A i \in Spokes : WF_vars(BackoffOver(i))

FairSpec == Spec /\ Fairness

-----------------------------------------------------------------------------
(* Properties *)

\* The pid file of its spoke names it, or a manager that is running has it in
\* memory (_procs, or the Popen it is waiting on).
Found(p) ==
    LET i == proc[p].spoke
    IN  pidfile[i] = p \/ \E m \in Mgrs : procs[m][i] = p \/ new[m] = p

\* Every live obfuscator can still be found, and so stopped or restarted.  One
\* that cannot keeps the port of its spoke for good: nobody ends it, and every
\* obfuscator started after it dies on the port.
Reachable == \A p \in Pids : Alive(p) => Found(p)

\* No spoke ever has two obfuscators, whatever ports they listen on: adopting
\* before starting, and stopping before restarting, are what ensures it.
AtMostOne ==
    \A p, q \in Pids : Alive(p) /\ Alive(q) /\ proc[p].spoke = proc[q].spoke => p = q

\* Whatever managers do, and whichever of them: a spoke's process is started in
\* an empty place and keeps its binary and its config until it ends.
Service == INSTANCE SpokeService
ServesSpokes == Service!Spec

\* A running obfuscator has loaded what its config file says now, unless the
\* pass that rewrote the file is on its way to restart it.  A pass restarts an
\* obfuscator only when it rewrote the file itself, so a process left behind
\* by an older file would stay behind.
FreshConfig ==
    \A p \in Pids : Running(p) =>
        \/ proc[p].conf = conffile[proc[p].spoke]
        \/ \E m \in Mgrs : /\ cur[m] = proc[p].spoke
                           /\ pc[m] = "stop" \/ (pc[m] = "look" /\ chg[m])

\* A working spoke is left alone: a manager ends a running obfuscator only for
\* its own spoke, and only when that spoke is not wanted or the process has
\* another config or another binary than the settings of the pass.
StopJustified ==
    [][\A m \in Mgrs : (pc[m] = "stop" /\ pc'[m] = "unlink") =>
          \A p \in Pids : (Running(p) /\ ~Alive(p)') =>
              /\ proc[p].spoke = cur[m]
              /\ \/ Unwanted(m)
                 \/ proc[p].conf # snap[m].conf
                 \/ proc[p].bin # snap[m].bin]_vars

\* A teardown (obfmesh-ctl teardown, or a shutdown that stops the processes)
\* leaves no obfuscator of any spoke, wanted or not, whoever started it.
TeardownLeavesNothing ==
    \A m \in Mgrs : pc[m] = "end" /\ mode[m] = "teardown" => \A p \in Pids : ~Alive(p)

\* The supervisor finds an obfuscator missing only on a spoke where none runs,
\* no matter which manager started that one, as long as no other is in a pass.
SupervisorStartsMissing ==
    [][\A m \in Mgrs :
          /\ mode[m] = "check" /\ pc[m] = "spoke" /\ pc'[m] = "start"
          /\ \A k \in Mgrs \ {m} : pc[k] = "down"
          => \A p \in Pids : Running(p) => proc[p].spoke # cur[m]]_vars

\* Every wanted spoke is served as the settings say, and no other spoke is.
Converged ==
    /\ \A i \in 1 .. db.n : \E p \in Pids :
          proc[p] = [spoke |-> i, bin |-> db.bin, conf |-> db.conf]
    /\ \A p \in Pids : Alive(p) => proc[p].spoke <= db.n

\* Left undisturbed, passes and restarts bring every spoke to the settings,
\* whatever crashes, deaths, failures and changes came before.
Converges == <>[][~Disturb]_vars => <>[]Converged
=============================================================================
