------------------------------- MODULE Events -------------------------------
(***************************************************************************)
(* GET /api/events: how a reader learns that config_version has changed    *)
(* (api.py, db.py).  Writers commit a version and then notify a condition  *)
(* variable; one watcher checks the version, waits on the condition, waits *)
(* for _APPLY_LOCK and publishes to the queue of every reader, of depth 1. *)
(*                                                                         *)
(* Abstracted: a frame is the version it carries; keep-alives carry none;  *)
(* what a request changes besides the version is left to Mesh and Bundles. *)
(***************************************************************************)
EXTENDS Naturals, Sequences

CONSTANTS
    Requests,   \* PATCH settings, POST and DELETE clients
    Readers,    \* connections to /api/events
    MaxVersion, \* bound on config_version
    FailAt,     \* reads of the watcher that may raise: "first", "later"
    Watcher, Nobody

ASSUME EventsAssumption == /\ MaxVersion \in Nat \ {0}
                           /\ Watcher \notin Requests /\ Nobody \notin Requests \cup {Watcher}

VARIABLES
    version,    \* settings.config_version
    ring,       \* a commit whose notify_all is still to come
    holder, waiters,    \* _APPLY_LOCK
    req,        \* what each request is doing
    pending,    \* the version committed by the holder whose pass is not over; 0: none
    watch,      \* where the watcher is
    since, found,   \* the version it knows, and the one it has found
    reader,     \* each reader: "gone", "subscribed", "open"
    box,        \* its queue; 0 when empty
    told,       \* the version in the last frame it was sent, 0 before the first
    config      \* the version in its last config frame

lock == <<holder, waiters>>
apply == <<version, ring, req, pending>>
watcher == <<watch, since, found>>
stream == <<reader, box, told, config>>
vars == <<apply, lock, watcher, stream>>

Versions == 1 .. MaxVersion

TypeOK ==
    /\ version \in Versions /\ ring \in BOOLEAN
    /\ holder \in Requests \cup {Watcher, Nobody}
    /\ waiters \in Seq(Requests \cup {Watcher})
    /\ req \in [Requests -> {"none", "asked", "committed", "bumped"}]
    /\ pending \in 0 .. MaxVersion
    /\ watch \in {"start", "check", "gap", "wait", "woken", "lock", "publish", "dead"}
    /\ since \in 0 .. MaxVersion /\ found \in 0 .. MaxVersion
    /\ reader \in [Readers -> {"gone", "subscribed", "open"}]
    /\ box \in [Readers -> 0 .. MaxVersion]
    /\ told \in [Readers -> 0 .. MaxVersion]
    /\ config \in [Readers -> 0 .. MaxVersion]
    /\ \A x \in Readers : reader[x] = "gone" => box[x] = 0

\* The service has just started: nobody is connected, nothing is asked.
Init ==
    /\ version = 1 /\ ring = FALSE /\ holder = Nobody /\ waiters = <<>>
    /\ req = [r \in Requests |-> "none"] /\ pending = 0
    /\ watch = "start" /\ since = 0 /\ found = 0
    /\ reader = [x \in Readers |-> "gone"] /\ box = [x \in Readers |-> 0]
    /\ told = [x \in Readers |-> 0] /\ config = [x \in Readers |-> 0]

\* The version is all that a restart leaves.
Restart ==
    /\ version' = version /\ ring' = FALSE /\ holder' = Nobody /\ waiters' = <<>>
    /\ req' = [r \in Requests |-> "none"] /\ pending' = 0
    /\ watch' = "start" /\ since' = 0 /\ found' = 0
    /\ reader' = [x \in Readers |-> "gone"] /\ box' = [x \in Readers |-> 0]
    /\ told' = [x \in Readers |-> 0] /\ config' = [x \in Readers |-> 0]

\* The lifespan starts the watcher before it lets requests in; its first read
\* is taken to be over by then.
Open == watch # "start"

-----------------------------------------------------------------------------
(* _APPLY_LOCK: asyncio.Lock, first come, first served *)

Acquire(x) ==
    IF holder = Nobody THEN holder' = x /\ waiters' = waiters
                       ELSE holder' = holder /\ waiters' = Append(waiters, x)

Release ==
    IF waiters = <<>> THEN holder' = Nobody /\ waiters' = waiters
                      ELSE holder' = Head(waiters) /\ waiters' = Tail(waiters)

-----------------------------------------------------------------------------
(* Writers *)

Raise == version < MaxVersion /\ version' = version + 1 /\ ring' = TRUE

Ask(r) ==
    /\ Open /\ req[r] = "none"
    /\ Acquire(r)
    /\ req' = [req EXCEPT ![r] = "asked"]
    /\ UNCHANGED <<version, ring, pending, watcher, stream>>

\* The transaction of the request; it may find nothing to change.
Commit(r) ==
    /\ holder = r /\ req[r] = "asked"
    /\ Raise /\ pending' = version'
    /\ req' = [req EXCEPT ![r] = "committed"]
    /\ UNCHANGED <<lock, watcher, stream>>

Decline(r) ==
    /\ holder = r /\ req[r] = "asked"
    /\ Release
    /\ req' = [req EXCEPT ![r] = "none"]
    /\ UNCHANGED <<version, ring, pending, watcher, stream>>

\* The pass of the request may raise the version once more, as its last step.
RequestBump(r) ==
    /\ holder = r /\ req[r] = "committed"
    /\ Raise
    /\ req' = [req EXCEPT ![r] = "bumped"]
    /\ UNCHANGED <<pending, lock, watcher, stream>>

Done(r) ==
    /\ holder = r /\ req[r] \in {"committed", "bumped"}
    /\ Release
    /\ req' = [req EXCEPT ![r] = "none"] /\ pending' = 0
    /\ UNCHANGED <<version, ring, watcher, stream>>

\* A pass of the supervisor raises it without the lock.
SupervisorBump ==
    /\ Raise
    /\ UNCHANGED <<req, pending, lock, watcher, stream>>

\* obfmesh-ctl does in another process, which can notify nobody here.
ForeignBump ==
    /\ version < MaxVersion /\ version' = version + 1
    /\ UNCHANGED <<ring, req, pending, lock, watcher, stream>>

Notify ==
    /\ ring /\ ring' = FALSE
    /\ watch' = IF watch = "wait" THEN "woken" ELSE watch
    /\ UNCHANGED <<version, req, pending, lock, since, found, stream>>

-----------------------------------------------------------------------------
(* watch_config_version() and wait_for_change() *)

FirstRead ==
    /\ watch = "start"
    /\ since' = version /\ watch' = "check"
    /\ UNCHANGED <<apply, lock, found, stream>>

\* This read is outside the loop's try: the task ends.
FirstReadFails ==
    /\ watch = "start" /\ "first" \in FailAt
    /\ watch' = "dead"
    /\ UNCHANGED <<apply, lock, since, found, stream>>

\* Mutant: the lock is not waited for.
FoundNoLock ==
    /\ since' = version /\ found' = version
    /\ watch' = "publish"
    /\ UNCHANGED lock

\* Mutant: the version found is not remembered.
FoundForgotten ==
    /\ since' = since /\ found' = version
    /\ Acquire(Watcher) /\ watch' = "lock"

\* The version is another one.
Found ==
    /\ since' = version /\ found' = version
    /\ Acquire(Watcher) /\ watch' = "lock"

Check ==
    /\ watch = "check"
    /\ IF version # since THEN Found
       ELSE watch' = "gap" /\ UNCHANGED <<lock, since, found>>
    /\ UNCHANGED <<apply, stream>>

\* What is notified before this is missed.
BeginWait ==
    /\ watch = "gap" /\ watch' = "wait"
    /\ UNCHANGED <<apply, lock, since, found, stream>>

\* Mutant: the wait has no timeout.
TimeoutNever ==
    /\ watch = "wait" /\ ring /\ watch' = "woken"
    /\ UNCHANGED <<apply, lock, since, found, stream>>

Timeout ==
    /\ watch = "wait" /\ watch' = "woken"
    /\ UNCHANGED <<apply, lock, since, found, stream>>

Woken ==
    /\ watch = "woken"
    /\ IF version # since THEN Found
       ELSE watch' = "check" /\ UNCHANGED <<lock, since, found>>
    /\ UNCHANGED <<apply, stream>>

\* A read inside the try: the watcher pauses and tries again.
ReadFails ==
    /\ watch = "woken" /\ "later" \in FailAt
    /\ watch' = "check"
    /\ UNCHANGED <<apply, lock, since, found, stream>>

\* async with _APPLY_LOCK: pass
LockReached ==
    /\ watch = "lock" /\ holder = Watcher
    /\ Release
    /\ watch' = "publish"
    /\ UNCHANGED <<apply, since, found, stream>>

\* Mutant: a full queue keeps what it has.
PublishedKeepsOld(v) ==
    [x \in Readers |-> IF reader[x] = "gone" THEN 0 ELSE IF box[x] # 0 THEN box[x] ELSE v]

\* A queued version is replaced.
Published(v) == [x \in Readers |-> IF reader[x] = "gone" THEN 0 ELSE v]

Publish ==
    /\ watch = "publish"
    /\ box' = Published(found)
    /\ watch' = "check"
    /\ UNCHANGED <<apply, lock, since, found, reader, told, config>>

-----------------------------------------------------------------------------
(* _event_stream() *)

Subscribe(x) ==
    /\ Open /\ reader[x] = "gone"
    /\ reader' = [reader EXCEPT ![x] = "subscribed"]
    /\ UNCHANGED <<apply, lock, watcher, box, told, config>>

\* Mutant: the greeting is the version the watcher last saw, not a read of its own.
HelloCached(x) ==
    /\ reader[x] = "subscribed"
    /\ reader' = [reader EXCEPT ![x] = "open"]
    /\ told' = [told EXCEPT ![x] = since]
    /\ UNCHANGED <<apply, lock, watcher, box, config>>

Hello(x) ==
    /\ reader[x] = "subscribed"
    /\ reader' = [reader EXCEPT ![x] = "open"]
    /\ told' = [told EXCEPT ![x] = version]
    /\ UNCHANGED <<apply, lock, watcher, box, config>>

Config(x) ==
    /\ reader[x] = "open" /\ box[x] # 0
    /\ told' = [told EXCEPT ![x] = box[x]]
    /\ config' = [config EXCEPT ![x] = box[x]]
    /\ box' = [box EXCEPT ![x] = 0]
    /\ UNCHANGED <<apply, lock, watcher, reader>>

Disconnect(x) ==
    /\ reader[x] # "gone"
    /\ reader' = [reader EXCEPT ![x] = "gone"]
    /\ box' = [box EXCEPT ![x] = 0]
    /\ told' = [told EXCEPT ![x] = 0] /\ config' = [config EXCEPT ![x] = 0]
    /\ UNCHANGED <<apply, lock, watcher>>

-----------------------------------------------------------------------------

Request(r) == Ask(r) \/ Commit(r) \/ Decline(r) \/ RequestBump(r) \/ Done(r)
Watch == FirstRead \/ Check \/ BeginWait \/ Woken \/ LockReached \/ Publish
Read(x) == Subscribe(x) \/ Hello(x) \/ Config(x) \/ Disconnect(x)

Next ==
    \/ \E r \in Requests : Request(r)
    \/ SupervisorBump \/ ForeignBump \/ Notify
    \/ Watch \/ Timeout \/ FirstReadFails \/ ReadFails
    \/ \E x \in Readers : Read(x)
    \/ Restart

Spec == Init /\ [][Next]_vars

\* A pass ends (SQLite, ip, wg and iptables have time limits), the watcher's
\* thread and the event loop run, a wait times out, frames are sent.  Nobody
\* need ever connect, ask, or go.
Fairness ==
    /\ \A r \in Requests : WF_vars(Commit(r) \/ Decline(r)) /\ WF_vars(Done(r))
    /\ WF_vars(Watch) /\ WF_vars(Timeout)
    /\ \A x \in Readers : WF_vars(Hello(x)) /\ WF_vars(Config(x))

FairSpec == Spec /\ Fairness

-----------------------------------------------------------------------------
(* Properties *)

\* api.py: subscribers are only told of a version whose reconcile() is over.
\* No queue holds the version of a request whose pass is under way, or a later
\* one, although the watcher reads the version without the lock.
PublishedIsApplied ==
    pending # 0 => \A x \in Readers : box[x] < pending

\* Config frames of one connection carry ever newer versions, whatever is
\* replaced in the queue: what is queued, or found and not yet published, is newer
\* than the last one, so that no frame makes a router fetch the same bundle again.
QueueIsNews ==
    \A x \in Readers : /\ box[x] # 0 => box[x] > config[x]
                       /\ watch \in {"lock", "publish"} => found > config[x] /\ found > box[x]

\* The readers see a feed: after the greeting only versions that exist, each newer
\* than the last one, none before it connects and none after a restart.  Without
\* a watcher nobody is connected to anything.
On == {x \in Readers : reader[x] # "gone" /\ watch # "dead"}
Feed == INSTANCE VersionFeed WITH link <- On,
            told <- [x \in Readers |-> IF x \in On THEN told[x] ELSE 0],
            seen <- [x \in Readers |-> IF x \in On THEN config[x] ELSE 0]
FollowsFeed == Feed!Spec

\* Whoever stays connected is told of the last version, if there is a last one:
\* a notification missed between check and wait is made good by the timeout, and
\* a version raised between subscription and hello is in the queue.  It takes a
\* watcher: one whose first read has failed is not started again.
LastVersionTold ==
    \A x \in Readers : \A v \in Versions :
        <>[](version = v /\ reader[x] # "gone" /\ watch # "dead") => <>[](told[x] = v)
=============================================================================
