----------------------------- MODULE Migrations -----------------------------
(***************************************************************************)
(* Database.init(): the file is opened by the service and by obfmesh-ctl,  *)
(* each in a process of its own, and either may find a schema of any       *)
(* release.  Every migration is one transaction that also raises           *)
(* PRAGMA user_version; the settings row is put in after the last.         *)
(*                                                                         *)
(* Abstracted: a migration is its number of statements, the settings row   *)
(* the process whose generated key it holds.                               *)
(***************************************************************************)
EXTENDS Naturals, Sequences

CONSTANTS
    Procs,      \* processes that open the database
    Statements, \* of each migration, how many
    Repeatable, \* migrations whose statements may be executed twice
    Broken,     \* SQLite may time out or fail
    Nobody

SCHEMA_VERSION == Len(Statements)
Migs == 1 .. SCHEMA_VERSION

ASSUME MigrationsAssumption == /\ Statements \in Seq(Nat \ {0})
                               /\ Broken \in BOOLEAN /\ Nobody \notin Procs

VARIABLES
    db,         \* what is committed: done (statements of each migration), uv, row
    writer, tx, \* who has the write lock, and what it will commit
    ran,        \* statements of the migration it has executed
    at, step    \* each process: where it is, and the migration it is at

store == <<db, writer, tx, ran>>
opening == <<store, at, step>>

\* The schema of a version: the migrations up to it, whole, and no other.
Schema(v) == [k \in Migs |-> IF k <= v THEN Statements[k] ELSE 0]
Labels == {"out", "read", "begin", "reread", "run", "commit", "row", "insert", "in",
           "failed", "clash"}

\* A file of any release, a newer one and an empty one included.
OpenInit ==
    /\ \E v \in 0 .. SCHEMA_VERSION + 1, r \in Procs \cup {Nobody} :
          /\ v = 0 => r = Nobody
          /\ db = [done |-> Schema(v), uv |-> v, row |-> r]
    /\ writer = Nobody /\ tx = db /\ ran = 0
    /\ at = [p \in Procs |-> "out"] /\ step = [p \in Procs |-> 0]

Goto(p, l) == at' = [at EXCEPT ![p] = l]

Enter(p) == at[p] = "out" /\ Goto(p, "read") /\ UNCHANGED <<store, step>>

\* for step in range(version, SCHEMA_VERSION)
Loop(p, s) ==
    /\ step' = [step EXCEPT ![p] = s]
    /\ Goto(p, IF s < SCHEMA_VERSION THEN "begin" ELSE "row")

\* PRAGMA user_version, outside any transaction.
ReadVersion(p) ==
    /\ at[p] = "read"
    /\ IF db.uv > SCHEMA_VERSION THEN Goto(p, "failed") /\ UNCHANGED step
                                 ELSE Loop(p, db.uv)
    /\ UNCHANGED store

\* BEGIN IMMEDIATE
Begin(p) ==
    /\ at[p] = "begin" /\ writer = Nobody
    /\ writer' = p /\ tx' = db /\ ran' = 0
    /\ Goto(p, "reread")
    /\ UNCHANGED <<db, step>>

Rollback == writer' = Nobody /\ tx' = db /\ ran' = 0 /\ db' = db

\* Mutant: the version read first is trusted.
RereadTrusts(p) == at[p] = "reread" /\ Goto(p, "run") /\ UNCHANGED <<store, step>>

\* Mutant: the transaction is not ended before the loop goes on.
RereadHolds(p) ==
    /\ at[p] = "reread"
    /\ IF tx.uv # step[p] THEN Loop(p, step[p] + 1)
                          ELSE Goto(p, "run") /\ UNCHANGED step
    /\ UNCHANGED store

\* Another process may have migrated while this one waited for the lock.
Reread(p) ==
    /\ at[p] = "reread"
    /\ IF tx.uv # step[p] THEN Rollback /\ Loop(p, step[p] + 1)
                          ELSE Goto(p, "run") /\ UNCHANGED <<store, step>>

\* Mutant: executescript() commits what the transaction has done so far.
RunCommits(p) ==
    /\ at[p] = "run"
    /\ LET k == step[p] + 1
       IN  IF ran < Statements[k]
           THEN /\ tx' = [tx EXCEPT !.done[k] = ran + 1] /\ db' = tx'
                /\ ran' = ran + 1 /\ at' = at
           ELSE tx' = [tx EXCEPT !.uv = k] /\ Goto(p, "commit") /\ UNCHANGED <<ran, db>>
    /\ UNCHANGED <<writer, step>>

\* A statement of the migration, or the version after the last one.  A table or a
\* column that is there already cannot be created.
Run(p) ==
    /\ at[p] = "run"
    /\ LET k == step[p] + 1
       IN  IF ran = Statements[k]
           THEN /\ tx' = [tx EXCEPT !.uv = k]
                /\ Goto(p, "commit") /\ UNCHANGED <<db, writer, ran>>
           ELSE IF tx.done[k] > ran /\ k \notin Repeatable
           THEN Rollback /\ Goto(p, "clash")
           ELSE /\ tx' = [tx EXCEPT !.done[k] = IF @ > ran THEN @ ELSE ran + 1]
                /\ ran' = ran + 1 /\ UNCHANGED <<db, writer, at>>
    /\ UNCHANGED step

Commit(p) ==
    /\ at[p] = "commit"
    /\ db' = tx /\ writer' = Nobody /\ UNCHANGED <<tx, ran>>
    /\ Loop(p, step[p] + 1)

\* SELECT 1 FROM settings: a key is generated only if there is no row yet.
SelectRow(p) ==
    /\ at[p] = "row"
    /\ Goto(p, IF db.row = Nobody THEN "insert" ELSE "in")
    /\ UNCHANGED <<store, step>>

\* Mutant: INSERT OR REPLACE.
RowReplaced(p) == p

\* INSERT OR IGNORE
RowAfter(p) == IF db.row = Nobody THEN p ELSE db.row

InsertRow(p) ==
    /\ at[p] = "insert" /\ writer = Nobody
    /\ db' = [db EXCEPT !.row = RowAfter(p)] /\ tx' = db'
    /\ Goto(p, "in")
    /\ UNCHANGED <<writer, ran, step>>

\* The busy timeout of 15 seconds is over, or a statement fails on the disk.
OpenFails(p) ==
    /\ Broken
    /\ \/ at[p] \in {"begin", "insert"} /\ writer # Nobody /\ UNCHANGED store
       \/ at[p] \in {"reread", "run", "commit"} /\ Rollback
    /\ Goto(p, "failed")
    /\ UNCHANGED step

\* The process ends, by itself or killed: its transaction is undone.
Leave(p) ==
    /\ at[p] # "out"
    /\ IF writer = p THEN Rollback ELSE UNCHANGED store
    /\ at' = [at EXCEPT ![p] = "out"] /\ step' = [step EXCEPT ![p] = 0]

OpenStep(p) ==
    \/ ReadVersion(p) \/ Begin(p) \/ Reread(p) \/ Run(p) \/ Commit(p)
    \/ SelectRow(p) \/ InsertRow(p)

-----------------------------------------------------------------------------
(* Properties *)

\* A migration is in force whole or not at all, and user_version says which are,
\* whoever is killed or fails in the middle: the next init() can go on from there.
SchemaIsVersion == db.done = Schema(db.uv)

\* init() never stumbles over what another process has migrated meanwhile, and
\* whoever goes on to use the database finds the schema it was written for.
NobodyClashes ==
    \A p \in Procs : /\ at[p] # "clash"
                     /\ at[p] \in {"row", "insert", "in"} => db.uv = SCHEMA_VERSION

\* The settings, and the obfuscation key every bundle carries, are made up once:
\* of two processes that both find no row, one's key is dropped unused.
SettingsOnce == [][db.row # Nobody => db'.row = db.row]_opening
=============================================================================
