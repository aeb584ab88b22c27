----------------------------- MODULE VersionFeed -----------------------------
(***************************************************************************)
(* What GET /api/events promises, without the watcher, its lock and the    *)
(* queues: whoever is connected is greeted with the version and then told  *)
(* of changes, versions that exist and each newer than the last change it  *)
(* was told of.  A change may be older than the greeting, which is read    *)
(* while that change waits to be told.                                     *)
(***************************************************************************)
EXTENDS Naturals

CONSTANT Readers

VARIABLES version,  \* settings.config_version
          link,     \* the readers that are connected to a feed that works
          told,     \* the last version each was told of, 0 before the first
          seen      \* the last it was told of as a change, not as a greeting

vars == <<version, link, told, seen>>
None == [x \in Readers |-> 0]

Init == version = 1 /\ link = {} /\ told = None /\ seen = None

Raise == version' = version + 1 /\ UNCHANGED <<link, told, seen>>

Connect(x) == x \notin link /\ link' = link \cup {x} /\ UNCHANGED <<version, told, seen>>

Greet(x) ==
    /\ x \in link /\ told[x] = 0
    /\ told' = [told EXCEPT ![x] = version]
    /\ UNCHANGED <<version, link, seen>>

Tell(x) ==
    /\ x \in link /\ told[x] # 0
    /\ \E v \in seen[x] + 1 .. version :
          seen' = [seen EXCEPT ![x] = v] /\ told' = [told EXCEPT ![x] = v]
    /\ UNCHANGED <<version, link>>

\* Readers go, or the feed stops working for all of them.
Leave(X) ==
    /\ link' = link \ X
    /\ told' = [x \in Readers |-> IF x \in X THEN 0 ELSE told[x]]
    /\ seen' = [x \in Readers |-> IF x \in X THEN 0 ELSE seen[x]]
    /\ UNCHANGED version

Next ==
    \/ Raise
    \/ \E x \in Readers : Connect(x) \/ Greet(x) \/ Tell(x) \/ Leave({x})
    \/ Leave(link)

Spec == Init /\ [][Next]_vars
=============================================================================
