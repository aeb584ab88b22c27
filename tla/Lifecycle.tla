------------------------------ MODULE Lifecycle ------------------------------
(***************************************************************************)
(* The life of the service (app.py, orchestrator.py, cli.py): it opens the *)
(* database next to obfmesh-ctl, makes a first pass, starts its supervisor *)
(* thread, serves, and is stopped.  What shares the orchestrator's RLock   *)
(* is a thread here: start-up and shutdown, the supervisor, a request, a   *)
(* GET /api/status.                                                        *)
(*                                                                         *)
(* Abstracted: a pass is where it takes and releases the RLock and whether *)
(* it may leave obfuscators behind; Obfuscators has the rest.              *)
(***************************************************************************)
EXTENDS Migrations

CONSTANTS
    Svc,            \* the service among the processes
    Readers,        \* connections to /api/events
    StopProcesses,  \* OBFMESH_STOP_PROCESSES
    StartLimitBurst \* of the unit: the starts systemd makes in one StartLimitIntervalSec

ASSUME LifecycleAssumption ==
    Svc \in Procs /\ StopProcesses \in BOOLEAN /\ StartLimitBurst \in Nat \ {0}

VARIABLES
    life,       \* the main thread; "failed" if systemd has given the unit up
    asked,      \* systemctl stop has been called, and no start since
    starts,     \* how often it was started in the present interval of the start limit
    harmed,     \* whether something has disturbed it since the first of them
    ended,      \* how its last run ended: "clean", "late" (the supervisor still ran),
                \* or "cut" (no shutdown)
    stopEvent,  \* orch._stop_event
    sup,        \* the supervisor thread
    rlock,      \* who has orch._lock
    req, status,\* a PATCH or POST, and a GET /api/status: "none", "waits", "pass"
    streams,    \* the readers that are connected
    obf         \* some obfuscator is alive

threads == <<stopEvent, sup, rlock, req, status, streams>>
unit == <<asked, starts, harmed>>
life_vars == <<life, unit, ended, threads, obf>>
vars == <<opening, life_vars>>

Waiting == {"none", "waits", "pass"}

TypeOK ==
    /\ db.uv \in 0 .. SCHEMA_VERSION + 1 /\ db.row \in Procs \cup {Nobody}
    /\ tx.uv \in 0 .. SCHEMA_VERSION + 1 /\ writer \in Procs \cup {Nobody}
    /\ at \in [Procs -> Labels] /\ step \in [Procs -> 0 .. SCHEMA_VERSION]
    /\ life \in {"down", "init", "boot", "pass", "serving", "closing", "join", "stop",
                 "teardown", "exit", "failed"}
    /\ starts \in 0 .. StartLimitBurst /\ harmed \in BOOLEAN
    /\ asked \in BOOLEAN /\ stopEvent \in BOOLEAN /\ obf \in BOOLEAN
    /\ ended \in {"cut", "late", "clean"}
    /\ sup \in {"none", "sleeps", "tick", "check", "due", "pass"}
    /\ rlock \in {"free", "main", "sup", "req"}
    /\ req \in Waiting /\ status \in Waiting \ {"pass"} /\ streams \subseteq Readers
    /\ rlock = "main" <=> life \in {"pass", "teardown"}
    /\ rlock = "sup" <=> sup \in {"check", "pass"}
    /\ rlock = "req" <=> req = "pass"

Quiet ==
    /\ stopEvent' = FALSE /\ sup' = "none" /\ rlock' = "free"
    /\ req' = "none" /\ status' = "none" /\ streams' = {}

Init ==
    /\ OpenInit
    /\ life = "down" /\ asked = FALSE /\ starts = 0 /\ harmed = FALSE
    /\ ended = "cut" /\ obf \in BOOLEAN
    /\ stopEvent = FALSE /\ sup = "none" /\ rlock = "free"
    /\ req = "none" /\ status = "none" /\ streams = {}

-----------------------------------------------------------------------------
(* Starting *)

\* systemd: Restart=always, and systemctl start, within the start limit.
StartService ==
    /\ life = "down" /\ ~asked /\ starts < StartLimitBurst
    /\ life' = "init" /\ Enter(Svc)
    /\ starts' = starts + 1 /\ harmed' = (harmed /\ starts # 0)
    /\ UNCHANGED <<asked, ended, threads, obf>>

\* StartLimitBurst starts in the interval, and the unit stays in "failed".
StartRefused ==
    /\ life = "down" /\ ~asked /\ starts = StartLimitBurst
    /\ life' = "failed"
    /\ UNCHANGED <<opening, unit, ended, threads, obf>>

\* StartLimitIntervalSec is over; the next start begins another.
IntervalOver ==
    /\ starts # 0 /\ starts' = 0
    /\ UNCHANGED <<opening, life, asked, harmed, ended, threads, obf>>

\* The lifespan raises, uvicorn exits.
InitFails ==
    /\ life = "init" /\ at[Svc] \in {"failed", "clash"}
    /\ life' = "down" /\ ended' = "cut" /\ Leave(Svc)
    /\ UNCHANGED <<unit, threads, obf>>

Opened ==
    /\ life = "init" /\ at[Svc] = "in"
    /\ life' = "boot"
    /\ UNCHANGED <<opening, unit, ended, threads, obf>>

\* run_reconcile(), in a worker thread.
BootPass ==
    /\ life = "boot" /\ rlock = "free"
    /\ life' = "pass" /\ rlock' = "main"
    /\ UNCHANGED <<opening, unit, ended, stopEvent, sup, req, status, streams, obf>>

\* Obfuscators that a pass finds wanted and dead it starts, if it can.
MayStart == obf' \in {obf, TRUE}

\* start_supervisor(); an exception in the pass is logged and no more.  uvicorn,
\* when it has been signalled by now, leaves without a shutdown of the lifespan.
Booted ==
    /\ life = "pass" /\ MayStart
    /\ rlock' = "free" /\ sup' = "sleeps" /\ stopEvent' = FALSE
    /\ life' = (IF asked THEN "exit" ELSE "serving") /\ ended' = "cut"
    /\ UNCHANGED <<opening, unit, req, status, streams>>

-----------------------------------------------------------------------------
(* _supervise_loop() *)

Ticks ==
    /\ sup = "sleeps" /\ sup' = IF stopEvent THEN "none" ELSE "tick"
    /\ UNCHANGED <<opening, life, unit, ended, stopEvent, rlock, req, status, streams, obf>>

\* Mutant: _check_processes() does not take the lock.
SupLocksNot ==
    /\ sup \in {"tick", "due"}
    /\ sup' = (IF sup = "tick" THEN "check" ELSE "pass") /\ rlock' = "sup"
    /\ UNCHANGED <<opening, life, unit, ended, stopEvent, req, status, streams, obf>>

SupLocks ==
    /\ sup \in {"tick", "due"} /\ rlock = "free"
    /\ sup' = (IF sup = "tick" THEN "check" ELSE "pass") /\ rlock' = "sup"
    /\ UNCHANGED <<opening, life, unit, ended, stopEvent, req, status, streams, obf>>

\* Mutant: an exception in _check_processes() leaves with the lock held.
SupReleasesNot ==
    /\ sup \in {"check", "pass"} /\ MayStart
    /\ sup' = "sleeps" /\ UNCHANGED rlock
    /\ UNCHANGED <<opening, life, unit, ended, stopEvent, req, status, streams>>

\* The stop event is not looked at between the check and a reconcile() that is due.
SupReleases ==
    /\ sup \in {"check", "pass"} /\ MayStart
    /\ sup' \in (IF sup = "check" THEN {"sleeps", "due"} ELSE {"sleeps"}) /\ rlock' = "free"
    /\ UNCHANGED <<opening, life, unit, ended, stopEvent, req, status, streams>>

-----------------------------------------------------------------------------
(* Requests *)

Ask ==
    /\ life = "serving" /\ ~asked
    /\ \/ req = "none" /\ req' = "waits" /\ UNCHANGED <<status, streams>>
       \/ status = "none" /\ status' = "waits" /\ UNCHANGED <<req, streams>>
       \/ \E x \in Readers \ streams : streams' = streams \cup {x} /\ UNCHANGED <<req, status>>
    /\ UNCHANGED <<opening, life, unit, ended, stopEvent, sup, rlock, obf>>

Hangup(x) ==
    /\ x \in streams /\ streams' = streams \ {x}
    /\ UNCHANGED <<opening, life, unit, ended, stopEvent, sup, rlock, req, status, obf>>

ReqLocks ==
    /\ req = "waits" /\ rlock = "free"
    /\ req' = "pass" /\ rlock' = "req"
    /\ UNCHANGED <<opening, life, unit, ended, stopEvent, sup, status, streams, obf>>

ReqReleases ==
    /\ req = "pass" /\ MayStart
    /\ req' = "none" /\ rlock' = "free"
    /\ UNCHANGED <<opening, life, unit, ended, stopEvent, sup, status, streams>>

\* It reads the tables of the orchestrator under the lock.
StatusReads ==
    /\ status = "waits" /\ rlock = "free" /\ status' = "none"
    /\ UNCHANGED <<opening, life, unit, ended, stopEvent, sup, rlock, req, streams, obf>>

-----------------------------------------------------------------------------
(* Stopping *)

\* systemctl stop, also while the unit waits for its next start.
StopUnit ==
    /\ life # "failed" /\ ~asked /\ asked' = TRUE /\ harmed' = TRUE
    /\ UNCHANGED <<opening, life, starts, ended, threads, obf>>

\* The start counts too: in the interval of the limit it is refused as the others were.
StartUnit ==
    /\ (life = "down" /\ asked) \/ life = "failed"
    /\ life' = "down" /\ asked' = FALSE
    /\ UNCHANGED <<opening, starts, harmed, ended, threads, obf>>

\* uvicorn accepts nothing more and waits for what is open.
Closes ==
    /\ life = "serving" /\ asked /\ life' = "closing"
    /\ UNCHANGED <<opening, unit, ended, threads, obf>>

\* The lifespan ends its watcher, which takes as long as its wait, and
\* stop_supervisor() sets the event.
Closed ==
    /\ life = "closing" /\ req = "none" /\ status = "none" /\ streams = {}
    /\ life' = "join" /\ stopEvent' = TRUE
    /\ UNCHANGED <<opening, unit, ended, sup, rlock, req, status, streams, obf>>

\* Mutant: stop_supervisor() does not join.
JoinedNot ==
    /\ life = "join" /\ ended' = "clean" /\ life' = "stop"
    /\ UNCHANGED <<opening, unit, threads, obf>>

\* thread.join(timeout=4): a thread that sleeps is woken by the event in time.
Joined ==
    /\ life = "join" /\ sup # "sleeps"
    /\ ended' = (IF sup = "none" THEN "clean" ELSE "late")
    /\ life' = "stop"
    /\ UNCHANGED <<opening, unit, threads, obf>>

TearsDown ==
    /\ life = "stop"
    /\ IF StopProcesses THEN rlock = "free" /\ life' = "teardown" /\ rlock' = "main"
                        ELSE life' = "exit" /\ rlock' = rlock
    /\ UNCHANGED <<opening, unit, ended, stopEvent, sup, req, status, streams, obf>>

TornDown ==
    /\ life = "teardown"
    /\ life' = "exit" /\ rlock' = "free" /\ obf' = FALSE
    /\ UNCHANGED <<opening, unit, ended, stopEvent, sup, req, status, streams>>

\* The supervisor is a daemon thread: it ends with the process, wherever it is.
Exits ==
    /\ life = "exit" /\ life' = "down" /\ Quiet /\ Leave(Svc)
    /\ UNCHANGED <<unit, ended, obf>>

\* A crash at any time; TimeoutStopSec, once it is being stopped.
Killed ==
    /\ life \notin {"down", "failed"} /\ life' = "down" /\ ended' = "cut"
    /\ Quiet /\ Leave(Svc)
    /\ harmed' = TRUE
    /\ UNCHANGED <<asked, starts, obf>>

-----------------------------------------------------------------------------

\* obfmesh-ctl; what its commands do after init() is left to Obfuscators.
Ctl(p) ==
    /\ p # Svc /\ (Enter(p) \/ OpenStep(p) \/ OpenFails(p) \/ Leave(p))
    /\ UNCHANGED life_vars

SvcOpens == OpenStep(Svc) /\ UNCHANGED life_vars

Goes == Opened \/ BootPass \/ Booted \/ Closes \/ Closed \/ Joined \/ TearsDown \/ TornDown \/ Exits

SvcOpenFails ==
    /\ OpenFails(Svc) /\ harmed' = TRUE
    /\ UNCHANGED <<life, asked, starts, ended, threads, obf>>

\* The process is signalled, dies, or meets a failure of SQLite.
Disturb == Killed \/ StopUnit \/ SvcOpenFails

Next ==
    \/ StartService \/ StartRefused \/ IntervalOver \/ SvcOpens \/ InitFails \/ Goes
    \/ Ticks \/ SupLocks \/ SupReleases
    \/ Ask \/ ReqLocks \/ ReqReleases \/ StatusReads \/ \E x \in Readers : Hangup(x)
    \/ StartUnit \/ Disturb
    \/ \E p \in Procs : Ctl(p)

Spec == Init /\ [][Next]_vars

\* systemd starts the unit, or gives it up, and its interval ends.  Threads go on;
\* commands and SQLite have time limits; whoever waits for the RLock gets it between the
\* passes of others, because the supervisor sleeps without it.  Nobody need connect, and
\* nobody need hang up.
Fairness ==
    /\ WF_vars(StartService \/ StartRefused) /\ WF_vars(IntervalOver) /\ WF_vars(InitFails) /\ SF_vars(SvcOpens)
    /\ WF_vars(Opened \/ Booted \/ Closes \/ Closed \/ Joined \/ TornDown \/ Exits)
    /\ SF_vars(BootPass) /\ SF_vars(TearsDown)
    /\ WF_vars(Ticks) /\ SF_vars(SupLocks) /\ WF_vars(SupReleases)
    /\ SF_vars(ReqLocks) /\ WF_vars(ReqReleases) /\ SF_vars(StatusReads)
    /\ \A p \in Procs \ {Svc} : WF_vars(OpenStep(p) /\ UNCHANGED life_vars)

FairSpec == Spec /\ Fairness

-----------------------------------------------------------------------------
(* Properties *)

\* orchestrator.py, shutdown(): with OBFMESH_STOP_PROCESSES=1 `systemctl stop` takes
\* everything down.  It does if the shutdown is gone through (it is not while a reader
\* keeps its stream open, and TimeoutStopSec then ends the service) and if the
\* supervisor was joined: after a pass of more than four seconds it goes on.
StopLeavesNothing ==
    life = "down" /\ asked /\ ended = "clean" /\ StopProcesses => ~obf

\* Whatever release left the file and whoever else opens it, a service that is left alone
\* comes to serve, unless the schema is from the future, or systemd has given the unit up
\* for what disturbed it before: Restart=always ends with StartLimitBurst starts in
\* StartLimitIntervalSec.  An opening that fails by itself would exhaust them, too: that
\* is no excuse.
Serves ==
    <>[][~Disturb]_vars =>
        \/ <>[](asked \/ db.uv > SCHEMA_VERSION \/ (life = "failed" /\ harmed))
        \/ []<>(life = "serving")

\* GET /api/status is answered: it waits for passes, which all end, and for nothing else.
StatusAnswered == status = "waits" ~> status = "none"
=============================================================================
