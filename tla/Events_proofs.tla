---------------------------- MODULE Events_proofs ----------------------------
(* Proofs about the events, for any number of requests, readers and versions. *)
EXTENDS Events, TLAPS

-----------------------------------------------------------------------------
(* Types, and who has the lock *)

\* A pass that has committed belongs to the request that holds _APPLY_LOCK.
PassHolds ==
    pending # 0 => /\ holder \in Requests /\ req[holder] \in {"committed", "bumped"}
                   /\ pending <= version

TypeInv == TypeOK /\ PassHolds

LEMMA AcquireTyped ==
  ASSUME TypeInv, NEW x \in Requests \cup {Watcher}, Acquire(x)
  PROVE  /\ holder' \in Requests \cup {Watcher, Nobody}
         /\ waiters' \in Seq(Requests \cup {Watcher})
         /\ holder # Nobody => holder' = holder
PROOF
<1>1. CASE holder = Nobody
  BY <1>1 DEF TypeInv, TypeOK, Acquire
<1>2. CASE holder # Nobody
  <2>1. Append(waiters, x) \in Seq(Requests \cup {Watcher})
    BY DEF TypeInv, TypeOK
  <2> QED
    BY <1>2, <2>1 DEF TypeInv, TypeOK, Acquire
<1> QED
  BY <1>1, <1>2

LEMMA ReleaseTyped ==
  ASSUME TypeInv, Release
  PROVE  /\ holder' \in Requests \cup {Watcher, Nobody}
         /\ waiters' \in Seq(Requests \cup {Watcher})
PROOF
<1>1. CASE waiters = <<>>
  BY <1>1 DEF TypeInv, TypeOK, Release
<1>2. CASE waiters # <<>>
  <2>1. /\ Head(waiters) \in Requests \cup {Watcher}
        /\ Tail(waiters) \in Seq(Requests \cup {Watcher})
    BY <1>2 DEF TypeInv, TypeOK
  <2> QED
    BY <1>2, <2>1 DEF Release
<1> QED
  BY <1>1, <1>2

LEMMA InitTypeInv == Init => TypeInv
PROOF
<1>1. <<>> \in Seq(Requests \cup {Watcher})
  OBVIOUS
<1>2. 1 \in Versions /\ 0 \in 0 .. MaxVersion
  BY EventsAssumption DEF Versions
<1> QED
  BY <1>1, <1>2 DEF Init, TypeInv, TypeOK, PassHolds

LEMMA NextTypeInv == TypeInv /\ [Next]_vars => TypeInv'
PROOF
<1> SUFFICES ASSUME TypeInv, [Next]_vars PROVE TypeInv'
  OBVIOUS
<1> USE EventsAssumption DEF Versions
<1>0. CASE UNCHANGED vars
  BY <1>0 DEF vars, apply, lock, watcher, stream, TypeInv, TypeOK, PassHolds
<1>1. ASSUME NEW r \in Requests, Ask(r) PROVE TypeInv'
  <2>1. TypeOK'
    BY <1>1, AcquireTyped DEF Ask, watcher, stream, TypeInv, TypeOK
  <2>2. PassHolds'
    BY <1>1, AcquireTyped DEF Ask, TypeInv, TypeOK, PassHolds
  <2> QED
    BY <2>1, <2>2 DEF TypeInv
<1>2. ASSUME NEW r \in Requests, Commit(r) PROVE TypeInv'
  BY <1>2 DEF Commit, Raise, lock, watcher, stream, TypeInv, TypeOK, PassHolds
<1>3. ASSUME NEW r \in Requests, Decline(r) \/ Done(r) PROVE TypeInv'
  <2>1. TypeOK'
    <3>1. /\ UNCHANGED <<version, ring, watcher, stream>>
          /\ pending' = pending \/ pending' = 0
          /\ req' = [req EXCEPT ![r] = "none"]
      BY <1>3 DEF Decline, Done
    <3>2. Release
      BY <1>3 DEF Decline, Done
    <3> QED
      BY <3>1, <3>2, ReleaseTyped DEF watcher, stream, TypeInv, TypeOK
  <2>2. PassHolds'
    BY <1>3 DEF Decline, Done, TypeInv, TypeOK, PassHolds
  <2> QED
    BY <2>1, <2>2 DEF TypeInv
<1>4. ASSUME NEW r \in Requests, RequestBump(r) PROVE TypeInv'
  BY <1>4 DEF RequestBump, Raise, lock, watcher, stream, TypeInv, TypeOK, PassHolds
<1>5. CASE SupervisorBump \/ ForeignBump
  <2>1. version < MaxVersion /\ version' = version + 1 /\ ring' \in BOOLEAN
    BY <1>5 DEF SupervisorBump, ForeignBump, Raise, TypeInv, TypeOK
  <2>2. UNCHANGED <<req, pending, lock, watcher, stream>>
    BY <1>5 DEF SupervisorBump, ForeignBump
  <2> QED
    BY <2>1, <2>2 DEF lock, watcher, stream, TypeInv, TypeOK, PassHolds
<1>6. CASE \/ Notify \/ FirstRead \/ BeginWait \/ Publish
           \/ Timeout \/ FirstReadFails \/ ReadFails
  <2>1. /\ UNCHANGED <<version, req, pending, lock, reader, told, config, found>>
        /\ ring' = ring \/ ring' = FALSE
        /\ since' = since \/ since' = version
        /\ watch' = watch \/ watch' \in {"check", "wait", "woken", "dead"}
        /\ box' = box \/ box' = Published(found)
    BY <1>6 DEF Notify, FirstRead, BeginWait, Publish, Timeout, FirstReadFails, ReadFails,
                apply, stream
  <2>2. since' \in 0 .. MaxVersion
    BY <2>1 DEF TypeInv, TypeOK
  <2>3. /\ box' \in [Readers -> 0 .. MaxVersion]
        /\ \A x \in Readers : reader[x] = "gone" => box'[x] = 0
    BY <2>1, EventsAssumption DEF Published, TypeInv, TypeOK
  <2> QED
    BY <2>1, <2>2, <2>3 DEF lock, TypeInv, TypeOK, PassHolds
<1>7. CASE Check \/ Woken
  <2>1. /\ holder' \in Requests \cup {Watcher, Nobody}
        /\ waiters' \in Seq(Requests \cup {Watcher})
        /\ holder # Nobody => holder' = holder
    BY <1>7, AcquireTyped DEF Check, Woken, Found, lock, TypeInv, TypeOK
  <2>2. TypeOK'
    BY <1>7, <2>1 DEF Check, Woken, Found, apply, stream, TypeInv, TypeOK
  <2>3. PassHolds'
    BY <1>7, <2>1 DEF Check, Woken, apply, TypeInv, TypeOK, PassHolds
  <2> QED
    BY <2>2, <2>3 DEF TypeInv
<1>8. CASE LockReached
  <2>1. TypeOK'
    BY <1>8, ReleaseTyped DEF LockReached, apply, stream, TypeInv, TypeOK
  <2>2. PassHolds'
    BY <1>8 DEF LockReached, apply, TypeInv, PassHolds
  <2> QED
    BY <2>1, <2>2 DEF TypeInv
<1>9. ASSUME NEW x \in Readers, Read(x) PROVE TypeInv'
  <2>1. PassHolds'
    BY <1>9 DEF Read, Subscribe, Hello, Config, Disconnect, apply, lock, TypeInv, PassHolds
  <2>2. CASE Subscribe(x)
    BY <2>1, <2>2 DEF Subscribe, apply, lock, watcher, TypeInv, TypeOK
  <2>3. CASE Hello(x)
    BY <2>1, <2>3 DEF Hello, apply, lock, watcher, TypeInv, TypeOK
  <2>4. CASE Config(x)
    BY <2>1, <2>4 DEF Config, apply, lock, watcher, TypeInv, TypeOK
  <2>5. CASE Disconnect(x)
    BY <2>1, <2>5 DEF Disconnect, apply, lock, watcher, TypeInv, TypeOK
  <2> QED
    BY <1>9, <2>2, <2>3, <2>4, <2>5 DEF Read
<1>10. CASE Restart
  <2>1. <<>> \in Seq(Requests \cup {Watcher})
    OBVIOUS
  <2>2. 0 \in 0 .. MaxVersion
    BY EventsAssumption
  <2> QED
    BY <1>10, <2>1, <2>2 DEF Restart, TypeInv, TypeOK, PassHolds
<1> QED
  BY <1>0, <1>1, <1>2, <1>3, <1>4, <1>5, <1>6, <1>7, <1>8, <1>9, <1>10
     DEF Next, Request, Watch

\* Every reachable state is well typed.
THEOREM TypeCorrect == Spec => []TypeOK
PROOF
<1>1. TypeInv => TypeOK
  BY DEF TypeInv
<1> QED
  BY InitTypeInv, NextTypeInv, <1>1, PTL DEF Spec

-----------------------------------------------------------------------------
(* What the watcher publishes *)

\* It knows of no version that does not exist, and has told of none it does not
\* know of; what it has found and not yet published, nobody has been told of.
WatcherAhead ==
    /\ since <= version /\ found <= version
    /\ watch \in {"lock", "publish"} => found = since
    /\ \A x \in Readers : box[x] <= since /\ config[x] <= since

\* Once the watcher has had the lock for it, a version is applied for good.
FoundIsApplied == watch = "publish" /\ pending # 0 => found < pending

FeedInv == WatcherAhead /\ FoundIsApplied /\ QueueIsNews /\ PublishedIsApplied

LEMMA InitFeedInv == Init => FeedInv
  BY DEF Init, FeedInv, WatcherAhead, FoundIsApplied, QueueIsNews, PublishedIsApplied

LEMMA NextFeedInv ==
  ASSUME TypeInv, TypeInv', FeedInv, [Next]_vars
  PROVE  FeedInv'
PROOF
<1> USE DEF FeedInv, WatcherAhead, FoundIsApplied, QueueIsNews, PublishedIsApplied
<1>0. CASE UNCHANGED vars
  BY <1>0 DEF vars, apply, lock, watcher, stream
<1>1. ASSUME NEW r \in Requests, Request(r) PROVE FeedInv'
  <2>1. UNCHANGED <<watcher, stream>> /\ version <= version'
    BY <1>1 DEF Request, Ask, Commit, Decline, RequestBump, Done, Raise, TypeInv, TypeOK, Versions
  <2>2. pending' = pending \/ pending' = 0 \/ pending' > version
    BY <1>1 DEF Request, Ask, Commit, Decline, RequestBump, Done, Raise, TypeInv, TypeOK, Versions
  <2> QED
    BY <2>1, <2>2 DEF watcher, stream, TypeInv, TypeOK, Versions
<1>2. CASE SupervisorBump \/ ForeignBump
  BY <1>2 DEF SupervisorBump, ForeignBump, Raise, watcher, stream, TypeInv, TypeOK, Versions
<1>3. CASE Notify \/ BeginWait \/ Timeout \/ FirstReadFails \/ ReadFails
  BY <1>3 DEF Notify, BeginWait, Timeout, FirstReadFails, ReadFails, apply, stream
<1>4. CASE FirstRead
  BY <1>4 DEF FirstRead, apply, stream, TypeInv, TypeOK, Versions
<1>5. CASE Check \/ Woken
  BY <1>5 DEF Check, Woken, Found, apply, stream, TypeInv, TypeOK, Versions
<1>6. CASE LockReached
  <2>1. pending = 0
    BY <1>6, EventsAssumption DEF LockReached, TypeInv, PassHolds
  <2> QED
    BY <1>6, <2>1 DEF LockReached, apply, stream
<1>7. CASE Publish
  BY <1>7 DEF Publish, Published, apply, TypeInv, TypeOK, Versions
<1>8. ASSUME NEW x \in Readers, Read(x) PROVE FeedInv'
  <2>1. UNCHANGED <<apply, watcher>>
    BY <1>8 DEF Read, Subscribe, Hello, Config, Disconnect
  <2>2. \A y \in Readers : /\ box'[y] = box[y] \/ box'[y] = 0
                           /\ config'[y] = config[y] \/ config'[y] = 0
                                 \/ (config'[y] = box[y] /\ box'[y] = 0)
    <3>1. CASE Subscribe(x) \/ Hello(x)
      BY <3>1 DEF Subscribe, Hello
    <3>2. CASE Config(x)
      BY <3>2 DEF Config, TypeInv, TypeOK
    <3>3. CASE Disconnect(x)
      BY <3>3 DEF Disconnect, TypeInv, TypeOK
    <3> QED
      BY <1>8, <3>1, <3>2, <3>3 DEF Read
  <2>3. /\ since \in Nat /\ found \in Nat /\ pending \in Nat /\ version \in Nat
        /\ \A y \in Readers : box[y] \in Nat /\ config[y] \in Nat
    BY EventsAssumption DEF TypeInv, TypeOK, Versions
  <2>4. WatcherAhead'
    BY <2>1, <2>2, <2>3 DEF apply, watcher
  <2>5. FoundIsApplied' /\ PublishedIsApplied'
    BY <2>1, <2>2, <2>3 DEF apply, watcher
  <2>6. QueueIsNews'
    BY <2>1, <2>2, <2>3 DEF watcher
  <2> QED
    BY <2>4, <2>5, <2>6
<1>9. CASE Restart
  BY <1>9 DEF Restart, TypeInv, TypeOK, Versions
<1> QED
  BY <1>0, <1>1, <1>2, <1>3, <1>4, <1>5, <1>6, <1>7, <1>8, <1>9 DEF Next, Watch

\* No queue ever holds a version whose pass is under way, or a later one: the
\* watcher takes _APPLY_LOCK after it has read the version, and a pass that begins
\* after that commits a newer one.
THEOREM OnlyApplied == Spec => []PublishedIsApplied
PROOF
<1>1. TypeInv /\ FeedInv /\ [Next]_vars => TypeInv' /\ FeedInv'
  BY NextTypeInv, NextFeedInv
<1>2. FeedInv => PublishedIsApplied
  BY DEF FeedInv
<1> QED
  BY InitTypeInv, InitFeedInv, <1>1, <1>2, PTL DEF Spec

\* What is queued for a reader, or about to be, is newer than what it was told of.
THEOREM OnlyNews == Spec => []QueueIsNews
PROOF
<1>1. TypeInv /\ FeedInv /\ [Next]_vars => TypeInv' /\ FeedInv'
  BY NextTypeInv, NextFeedInv
<1>2. FeedInv => QueueIsNews
  BY DEF FeedInv
<1> QED
  BY InitTypeInv, InitFeedInv, <1>1, <1>2, PTL DEF Spec

-----------------------------------------------------------------------------
(* What the readers see *)

\* A reader that is gone has nothing; one that is greeted has been told something,
\* and of changes only after that.  There is no reader before there is a watcher.
Greeted ==
    /\ watch = "start" => \A x \in Readers : reader[x] = "gone"
    /\ \A x \in Readers : /\ reader[x] # "open" <=> told[x] = 0
                          /\ reader[x] # "open" => config[x] = 0

LEMMA InitGreeted == Init => Greeted
  BY DEF Init, Greeted

LEMMA NextGreeted ==
  ASSUME TypeInv, TypeInv', Greeted, [Next]_vars
  PROVE  Greeted'
PROOF
<1>1. CASE UNCHANGED <<stream, watch>>
  BY <1>1 DEF stream, Greeted
<1>2. CASE UNCHANGED <<reader, told, config>> /\ watch' # "start"
  BY <1>2 DEF Greeted
<1>3. ASSUME NEW x \in Readers, Read(x) PROVE Greeted'
  <2>1. UNCHANGED watch /\ (reader[x] = "gone" => watch # "start")
    BY <1>3 DEF Read, Subscribe, Hello, Config, Disconnect, watcher, Open
  <2>2. CASE Subscribe(x)
    BY <2>1, <2>2 DEF Subscribe, Greeted, TypeInv, TypeOK
  <2>3. CASE Hello(x)
    BY <2>1, <2>3 DEF Hello, Greeted, TypeInv, TypeOK, Versions
  <2>4. CASE Config(x)
    BY <2>1, <2>4 DEF Config, Greeted, TypeInv, TypeOK
  <2>5. CASE Disconnect(x)
    BY <2>1, <2>5 DEF Disconnect, Greeted, TypeInv, TypeOK
  <2> QED
    BY <1>3, <2>2, <2>3, <2>4, <2>5 DEF Read
<1>4. CASE Restart
  BY <1>4 DEF Restart, Greeted
<1>5. ASSUME NEW r \in Requests, Request(r) PROVE UNCHANGED <<stream, watch>>
  BY <1>5 DEF Request, Ask, Commit, Decline, RequestBump, Done, watcher
<1>6. CASE SupervisorBump \/ ForeignBump
  BY <1>1, <1>6 DEF SupervisorBump, ForeignBump, watcher
<1>7. CASE \/ Notify \/ FirstRead \/ Check \/ BeginWait \/ Woken \/ LockReached \/ Publish
           \/ Timeout \/ FirstReadFails \/ ReadFails
  BY <1>1, <1>2, <1>7 DEF Notify, FirstRead, Check, Found, BeginWait, Woken, LockReached, Publish,
                          Timeout, FirstReadFails, ReadFails, stream
<1> QED
  BY <1>1, <1>3, <1>4, <1>5, <1>6, <1>7 DEF Next, Watch, vars, watcher

LEMMA InitFollows == Init => Feed!Init
  BY DEF Init, On, Feed!Init, Feed!None

LEMMA NextFollows ==
  ASSUME TypeInv, FeedInv, Greeted, [Next]_vars
  PROVE  [Feed!Next]_Feed!vars
PROOF
<1> DEFINE Told == [x \in Readers |-> IF x \in On THEN told[x] ELSE 0]
           Seen == [x \in Readers |-> IF x \in On THEN config[x] ELSE 0]
<1>1. CASE UNCHANGED <<version, reader, told, config, On>>
  BY <1>1 DEF Feed!vars
<1>2. CASE version' = version + 1 /\ UNCHANGED <<reader, told, config, On>>
  BY <1>2 DEF Feed!Next, Feed!Raise
<1>3. ASSUME NEW x \in Readers, Read(x) PROVE [Feed!Next]_Feed!vars
  <2>1. UNCHANGED <<version, watch>>
    BY <1>3 DEF Read, Subscribe, Hello, Config, Disconnect, apply, watcher
  <2>2. CASE watch = "dead"
    <3>1. On = {} /\ On' = {}
      BY <2>1, <2>2 DEF On
    <3> QED
      BY <2>1, <3>1 DEF Feed!vars
  <2>3. CASE watch # "dead" /\ Subscribe(x)
    <3>1. x \notin On /\ On' = On \cup {x}
      BY <2>1, <2>3 DEF Subscribe, On, TypeInv, TypeOK
    <3>2. told[x] = 0 /\ config[x] = 0 /\ told' = told /\ config' = config
      BY <2>3 DEF Subscribe, Greeted
    <3>3. Told' = Told /\ Seen' = Seen
      BY <3>1, <3>2
    <3> QED
      BY <2>1, <3>1, <3>3 DEF Feed!Next, Feed!Connect
  <2>4. CASE watch # "dead" /\ Hello(x)
    <3>1. x \in On /\ On' = On
      BY <2>1, <2>4 DEF Hello, On, TypeInv, TypeOK
    <3>2. told[x] = 0 /\ told' = [told EXCEPT ![x] = version] /\ config' = config
      BY <2>4 DEF Hello, Greeted
    <3>3. Told[x] = 0 /\ Told' = [Told EXCEPT ![x] = version] /\ Seen' = Seen
      BY <3>1, <3>2 DEF TypeInv, TypeOK
    <3> QED
      BY <2>1, <3>1, <3>3 DEF Feed!Next, Feed!Greet
  <2>5. CASE watch # "dead" /\ Config(x)
    <3>1. x \in On /\ On' = On
      BY <2>1, <2>5 DEF Config, On
    <3>2. /\ told[x] # 0 /\ told' = [told EXCEPT ![x] = box[x]]
          /\ config' = [config EXCEPT ![x] = box[x]] /\ box[x] # 0
      BY <2>5 DEF Config, Greeted
    <3>3. box[x] \in config[x] + 1 .. version
      BY <3>2, EventsAssumption DEF FeedInv, QueueIsNews, WatcherAhead, TypeInv, TypeOK, Versions
    <3>4. /\ Told[x] # 0 /\ Told' = [Told EXCEPT ![x] = box[x]]
          /\ Seen' = [Seen EXCEPT ![x] = box[x]] /\ Seen[x] = config[x]
      BY <3>1, <3>2 DEF TypeInv, TypeOK
    <3> QED
      BY <2>1, <3>1, <3>3, <3>4 DEF Feed!Next, Feed!Tell
  <2>6. CASE watch # "dead" /\ Disconnect(x)
    <3>1. On' = On \ {x}
      BY <2>1, <2>6 DEF Disconnect, On, TypeInv, TypeOK
    <3>2. /\ told' = [told EXCEPT ![x] = 0] /\ config' = [config EXCEPT ![x] = 0]
      BY <2>6 DEF Disconnect
    <3>3. /\ Told' = [y \in Readers |-> IF y \in {x} THEN 0 ELSE Told[y]]
          /\ Seen' = [y \in Readers |-> IF y \in {x} THEN 0 ELSE Seen[y]]
      BY <3>1, <3>2 DEF TypeInv, TypeOK
    <3> QED
      BY <2>1, <3>1, <3>3 DEF Feed!Next, Feed!Leave
  <2> QED
    BY <1>3, <2>2, <2>3, <2>4, <2>5, <2>6 DEF Read
<1>4. CASE Restart
  <2>1. On' = {} /\ version' = version
    BY <1>4 DEF Restart, On
  <2>2. /\ Told' = [y \in Readers |-> IF y \in On THEN 0 ELSE Told[y]]
        /\ Seen' = [y \in Readers |-> IF y \in On THEN 0 ELSE Seen[y]]
    BY <2>1
  <2> QED
    BY <2>1, <2>2 DEF Feed!Next, Feed!Leave
<1>5. ASSUME NEW r \in Requests, Request(r) PROVE [Feed!Next]_Feed!vars
  BY <1>1, <1>2, <1>5 DEF Request, Ask, Commit, Decline, RequestBump, Done, Raise, watcher, stream, On
<1>6. CASE SupervisorBump \/ ForeignBump
  BY <1>2, <1>6 DEF SupervisorBump, ForeignBump, Raise, watcher, stream, On
<1>7. CASE \/ Notify \/ FirstRead \/ Check \/ BeginWait \/ Woken \/ LockReached \/ Publish
           \/ Timeout \/ ReadFails
  <2>1. /\ UNCHANGED <<version, reader, told, config>>
        /\ (watch # "dead" /\ watch' # "dead") \/ watch' = watch
    BY <1>7 DEF Notify, FirstRead, Check, Found, BeginWait, Woken, LockReached, Publish,
                Timeout, ReadFails, apply, stream
  <2> QED
    BY <1>1, <2>1 DEF On
<1>8. CASE FirstReadFails
  <2>1. On = {} /\ On' = {}
    BY <1>8 DEF FirstReadFails, stream, Greeted, On
  <2> QED
    BY <1>1, <1>8, <2>1 DEF FirstReadFails, apply, stream
<1>9. CASE UNCHANGED vars
  BY <1>1, <1>9 DEF vars, apply, watcher, stream, On
<1> QED
  BY <1>3, <1>4, <1>5, <1>6, <1>7, <1>8, <1>9 DEF Next, Watch

\* The watcher, its lock and the queues implement the feed: a greeting, then only
\* versions that exist, each newer than the last.
THEOREM ImplementsFeed == Spec => FollowsFeed
PROOF
<1>1. TypeInv /\ FeedInv /\ Greeted /\ [Next]_vars => TypeInv' /\ FeedInv' /\ Greeted'
  BY NextTypeInv, NextFeedInv, NextGreeted
<1>2. TypeInv /\ FeedInv /\ Greeted /\ [Next]_vars => [Feed!Next]_Feed!vars
  BY NextFollows
<1> QED
  BY InitTypeInv, InitFeedInv, InitGreeted, InitFollows, <1>1, <1>2, PTL
     DEF Spec, FollowsFeed, Feed!Spec
=============================================================================
