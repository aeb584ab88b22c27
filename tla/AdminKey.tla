------------------------------- MODULE AdminKey -------------------------------
(***************************************************************************)
(* The admin key of auth.py: a file that is re-read when its stat changes, *)
(* so that the key is rotated without a restart.  Requests are checked on  *)
(* worker threads, several at once, each with its own stat, its own read   *)
(* and the one cache they share; the file is edited at any moment.         *)
(*                                                                         *)
(* Abstracted: the time stamp and the size that identify the content of    *)
(* the file are one of Stamps; OBFMESH_ADMIN_KEY, which turns all of this  *)
(* off, is not set.                                                        *)
(***************************************************************************)
CONSTANTS
    Calls,          \* requests that may be under way at once
    Keys,
    Stamps,         \* bound: the (st_mtime_ns, st_size) that edits give the file
    NoKey,          \* None, and a file with less than MIN_ADMIN_KEY_LEN characters
    NoStamp,
    Missing

VARIABLES
    file,           \* the admin key file
    cached, stamp,  \* _cached, _stamp
    pc,             \* where _from_file() is in each request
    seen, got,      \* its stamp; what it has read, or answers
    used,           \* the stamps the file has had
    since,          \* the keys the file has had since no request was under way
    back            \* whether the file has come back to a stamp it had before

cache == <<cached, stamp>>
call == <<pc, seen, got>>
history == <<used, since, back>>
key_vars == <<file, cache, call, history>>

File == [key : Keys \cup {NoKey}, stamp : Stamps]
KeyOf(f) == IF f = Missing THEN {} ELSE {f.key} \ {NoKey}
Idle == \A c \in Calls : pc[c] = "idle"

KeyTypeOK ==
    /\ file \in File \cup {Missing}
    /\ cached \in Keys \cup {NoKey} /\ stamp \in Stamps \cup {NoStamp}
    /\ pc \in [Calls -> {"idle", "called", "missing", "look", "read", "store", "return", "answered"}]
    /\ seen \in [Calls -> Stamps \cup {NoStamp}] /\ got \in [Calls -> Keys \cup {NoKey}]
    /\ used \subseteq Stamps /\ since \subseteq Keys /\ back \in BOOLEAN

KeyInit ==
    /\ file \in {f \in File : f.key # NoKey} \cup {Missing}
    /\ used = IF file = Missing THEN {} ELSE {file.stamp}
    /\ cached = NoKey /\ stamp = NoStamp
    /\ pc = [c \in Calls |-> "idle"] /\ since = {} /\ back = FALSE
    /\ seen = [c \in Calls |-> NoStamp] /\ got = [c \in Calls |-> NoKey]

-----------------------------------------------------------------------------
(* Around it *)

\* Requests come, and go: answered, or before they reach the server.
Traffic(come, go) ==
    /\ \A c \in go : pc[c] \in {"called", "answered"}
    /\ \A c \in come : pc[c] = "idle" \/ c \in go
    /\ pc' = [c \in Calls |-> IF c \in come THEN "called" ELSE IF c \in go THEN "idle" ELSE pc[c]]
    /\ got' = [c \in Calls |-> IF c \in come \cup go THEN NoKey ELSE got[c]]
    /\ since' = IF \A c \in Calls : pc'[c] = "idle" THEN {}
                ELSE IF Idle THEN KeyOf(file) ELSE since
    /\ UNCHANGED <<file, cache, seen, used, back>>

\* The file is rotated, emptied, removed, put back from a backup.
Edit(f) ==
    /\ f # file
    /\ file' = f
    /\ used' = IF f = Missing THEN used ELSE used \cup {f.stamp}
    /\ back' = (back \/ (f # Missing /\ f.stamp \in used))
    /\ since' = IF Idle THEN {} ELSE since \cup KeyOf(f)
    /\ UNCHANGED <<cache, call>>

-----------------------------------------------------------------------------
(* _from_file() *)

Answer(c, k) ==
    /\ pc' = [pc EXCEPT ![c] = "answered"]
    /\ got' = [got EXCEPT ![c] = k]
    /\ seen' = [seen EXCEPT ![c] = NoStamp]

Stat(c) ==
    /\ pc[c] = "called"
    /\ IF file = Missing
       THEN pc' = [pc EXCEPT ![c] = "missing"] /\ UNCHANGED seen
       ELSE /\ pc' = [pc EXCEPT ![c] = "look"]
            /\ seen' = [seen EXCEPT ![c] = file.stamp]
    /\ UNCHANGED <<file, cache, got, history>>

Clear(c) ==
    /\ pc[c] = "missing"
    /\ cached' = NoKey /\ stamp' = NoStamp
    /\ Answer(c, NoKey)
    /\ UNCHANGED <<file, history>>

Look(c) ==
    /\ pc[c] = "look"
    /\ IF stamp = seen[c] /\ cached # NoKey
       THEN Answer(c, cached)
       ELSE pc' = [pc EXCEPT ![c] = "read"] /\ UNCHANGED <<seen, got>>
    /\ UNCHANGED <<file, cache, history>>

Read(c) ==
    /\ pc[c] = "read"
    /\ IF file = Missing
       THEN Answer(c, NoKey)
       ELSE /\ pc' = [pc EXCEPT ![c] = "store"]
            /\ got' = [got EXCEPT ![c] = file.key]
            /\ UNCHANGED seen
    /\ UNCHANGED <<file, cache, history>>

\* The file is there and cannot be read.
ReadFails(c) ==
    /\ pc[c] = "read" /\ file # Missing
    /\ Answer(c, NoKey)
    /\ UNCHANGED <<file, cache, history>>

Store(c) ==
    /\ pc[c] = "store"
    /\ cached' = got[c] /\ stamp' = seen[c]
    /\ pc' = [pc EXCEPT ![c] = "return"]
    /\ seen' = [seen EXCEPT ![c] = NoStamp]
    /\ UNCHANGED <<file, got, history>>

\* return self._cached, after the lock: it may be what another request has stored since.
Return(c) ==
    /\ pc[c] = "return"
    /\ Answer(c, cached)
    /\ UNCHANGED <<file, cache, history>>

Current(c) == Stat(c) \/ Clear(c) \/ Look(c) \/ Read(c) \/ Store(c) \/ Return(c)

KeyNext ==
    \/ \E come, go \in SUBSET Calls : Traffic(come, go)
    \/ \E f \in File \cup {Missing} : Edit(f)
    \/ \E c \in Calls : Current(c) \/ ReadFails(c)

KeySpec == KeyInit /\ [][KeyNext]_key_vars

-----------------------------------------------------------------------------
(* Properties *)

\* What has the stamp of the file in the cache is the key of the file.
CacheIsFile ==
    file # Missing /\ cached # NoKey /\ stamp = file.stamp => cached = file.key

\* The key a request is compared with was in the file while requests were under
\* way; between two bursts of requests nothing survives of an old key.  (auth.py
\* promises no more: the answer of a request may be what an older and slower one
\* has read.)  A file that comes back to a stamp it had, by an edit within the
\* resolution of the clock that keeps the length or by mv of a backup, is taken
\* for its earlier content.
KeyWasFiles ==
    ~back => \A c \in Calls : pc[c] = "answered" /\ got[c] # NoKey => got[c] \in since
=============================================================================
