-------------------------- MODULE Lifecycle_proofs --------------------------
(* Proofs about migrations, for any number of processes, migrations and statements, *)
(* about the stop of the service, and about the admin key its requests need.        *)
EXTENDS Lifecycle, AdminKey, TLAPS

-----------------------------------------------------------------------------
(* Migrations *)

InTransaction == {"reread", "run", "commit"}
Migrating == {"begin"} \cup InTransaction
Migrated == {"row", "insert", "in"}

Stored == [done : [Migs -> Nat], uv : 0 .. SCHEMA_VERSION + 1, row : Procs \cup {Nobody}]

OpenTypes ==
    /\ db \in Stored /\ tx \in Stored /\ ran \in Nat
    /\ writer \in Procs \cup {Nobody}
    /\ at \in [Procs -> Labels] /\ step \in [Procs -> 0 .. SCHEMA_VERSION]

\* Whoever is in a transaction has the write lock, and the other way round.
Locked == \A p \in Procs : writer = p <=> at[p] \in InTransaction

\* Nobody is at a migration further than the next one, and none is done with the
\* loop too soon.
Placed ==
    \A p \in Procs :
        /\ at[p] \in Migrating => step[p] < SCHEMA_VERSION /\ step[p] <= db.uv /\ db.uv <= SCHEMA_VERSION
        /\ at[p] \in Migrated => db.uv = SCHEMA_VERSION
        /\ at[p] # "clash"

\* What a transaction holds: the schema of its version and so many statements of the
\* next migration, then the schema of the next version.
Underway(p) ==
    /\ at[p] = "reread" => tx = db /\ ran = 0
    /\ at[p] = "run" =>
         /\ step[p] = db.uv /\ tx.uv = db.uv /\ ran <= Statements[step[p] + 1]
         /\ tx.done = [Schema(db.uv) EXCEPT ![step[p] + 1] = ran]
    /\ at[p] = "commit" =>
         /\ step[p] = db.uv /\ tx.uv = step[p] + 1 /\ tx.done = Schema(step[p] + 1)

OpenInv == OpenTypes /\ SchemaIsVersion /\ Locked /\ Placed /\ \A p \in Procs : Underway(p)

LEMMA Numbers ==
  /\ SCHEMA_VERSION \in Nat /\ Migs = 1 .. SCHEMA_VERSION
  /\ \A k \in Migs : Statements[k] \in Nat \ {0}
BY MigrationsAssumption DEF SCHEMA_VERSION, Migs

LEMMA Schemas ==
  /\ \A v \in Nat : Schema(v) \in [Migs -> Nat]
  /\ \A v \in 0 .. SCHEMA_VERSION - 1 :
        /\ v + 1 \in Migs /\ Schema(v)[v + 1] = 0
        /\ [Schema(v) EXCEPT ![v + 1] = 0] = Schema(v)
        /\ [Schema(v) EXCEPT ![v + 1] = Statements[v + 1]] = Schema(v + 1)
<1>1. \A v \in Nat : Schema(v) \in [Migs -> Nat]
  BY Numbers DEF Schema
<1>2. ASSUME NEW v \in 0 .. SCHEMA_VERSION - 1
      PROVE  /\ v + 1 \in Migs /\ Schema(v)[v + 1] = 0
             /\ [Schema(v) EXCEPT ![v + 1] = 0] = Schema(v)
             /\ [Schema(v) EXCEPT ![v + 1] = Statements[v + 1]] = Schema(v + 1)
  <2>1. v + 1 \in Migs /\ v \in Nat
    BY Numbers
  <2>2. Schema(v)[v + 1] = 0
    BY <2>1 DEF Schema
  <2>3. \A k \in Migs : k # v + 1 => Schema(v)[k] = Schema(v + 1)[k]
    BY <2>1, Numbers DEF Schema
  <2>4. Schema(v + 1)[v + 1] = Statements[v + 1]
    BY <2>1 DEF Schema
  <2>5. [Schema(v) EXCEPT ![v + 1] = Statements[v + 1]] = Schema(v + 1)
    BY <2>1, <2>3, <2>4 DEF Schema
  <2>6. [Schema(v) EXCEPT ![v + 1] = 0] = Schema(v)
    BY <2>1, <2>2 DEF Schema
  <2> QED
    BY <2>1, <2>2, <2>5, <2>6
<1> QED
  BY <1>1, <1>2

\* The loop goes on to a migration that is still ahead, or is over with the last one.
LEMMA LoopTyped ==
  ASSUME OpenTypes, NEW p \in Procs, NEW v \in 0 .. SCHEMA_VERSION, Loop(p, v)
  PROVE  /\ at' \in [Procs -> Labels] /\ step' \in [Procs -> 0 .. SCHEMA_VERSION]
         /\ step'[p] = v /\ at'[p] = (IF v < SCHEMA_VERSION THEN "begin" ELSE "row")
         /\ \A q \in Procs : q # p => at'[q] = at[q] /\ step'[q] = step[q]
BY Numbers DEF Loop, Goto, OpenTypes, Labels

\* A step that leaves the store alone, or undoes the transaction of the process it is
\* of, and puts that process outside a transaction, at a place it may be.
LEMMA StepsOutside ==
  ASSUME OpenInv, NEW p \in Procs,
         \/ UNCHANGED <<db, tx, ran, writer>> /\ at[p] \notin InTransaction
         \/ Rollback /\ writer = p,
         at' \in [Procs -> Labels], step' \in [Procs -> 0 .. SCHEMA_VERSION],
         at'[p] \notin InTransaction \cup {"clash"},
         \A q \in Procs : q # p => at'[q] = at[q] /\ step'[q] = step[q],
         at'[p] = "begin" => step'[p] < SCHEMA_VERSION /\ step'[p] <= db.uv /\ db.uv <= SCHEMA_VERSION,
         at'[p] \in Migrated => db.uv = SCHEMA_VERSION
  PROVE  OpenInv'
<1>1. OpenTypes' /\ SchemaIsVersion'
  BY DEF OpenInv, OpenTypes, Rollback, SchemaIsVersion, Schema
<1>2. Locked'
  BY MigrationsAssumption DEF OpenInv, Locked, Rollback
<1>3. Placed'
  BY DEF OpenInv, Placed, Rollback, Migrating
<1>4. ASSUME NEW q \in Procs PROVE Underway(q)'
  <2>1. CASE q = p
    BY <2>1 DEF Underway, InTransaction
  <2>2. CASE q # p /\ at[q] \in InTransaction
    <3>1. writer = q /\ UNCHANGED <<db, tx, ran>>
      BY <2>2 DEF OpenInv, Locked
    <3> QED
      BY <2>2, <3>1 DEF OpenInv, Underway, Schema
  <2>3. CASE q # p /\ at[q] \notin InTransaction
    BY <2>3 DEF Underway, InTransaction
  <2> QED
    BY <2>1, <2>2, <2>3
<1> QED
  BY <1>1, <1>2, <1>3, <1>4 DEF OpenInv

LEMMA InitOpens == OpenInit => OpenInv
<1> SUFFICES ASSUME OpenInit PROVE OpenInv
  OBVIOUS
<1>1. db \in Stored /\ db.done = Schema(db.uv)
  BY Schemas DEF OpenInit, Stored
<1>2. \A p \in Procs : at[p] = "out" /\ p # Nobody
  BY MigrationsAssumption DEF OpenInit
<1> QED
  BY <1>1, <1>2, Numbers
     DEF OpenInit, OpenInv, OpenTypes, SchemaIsVersion, Locked, Placed, Underway, Labels,
         InTransaction, Migrating, Migrated

LEMMA BeginKeeps == ASSUME OpenInv, NEW p \in Procs, Begin(p) PROVE OpenInv'
<1>1. /\ at' \in [Procs -> Labels] /\ at'[p] = "reread"
      /\ \A q \in Procs : q # p => at'[q] = at[q]
  BY DEF Begin, Goto, OpenInv, OpenTypes, Labels
<1>2. \A q \in Procs : q # p => at[q] \notin InTransaction
  BY MigrationsAssumption DEF Begin, OpenInv, Locked
<1>3. OpenTypes' /\ SchemaIsVersion'
  BY <1>1 DEF Begin, OpenInv, OpenTypes, SchemaIsVersion, Schema
<1>4. Locked'
  BY <1>1, <1>2 DEF Begin, Locked, InTransaction
<1>5. Placed'
  BY <1>1 DEF Begin, OpenInv, Placed, Migrating, Migrated, InTransaction
<1>6. \A q \in Procs : Underway(q)'
  BY <1>1, <1>2 DEF Begin, Underway, InTransaction
<1> QED
  BY <1>3, <1>4, <1>5, <1>6 DEF OpenInv

LEMMA RereadKeeps == ASSUME OpenInv, NEW p \in Procs, Reread(p) PROVE OpenInv'
<1>1. writer = p /\ tx = db /\ step[p] < SCHEMA_VERSION /\ step[p] <= db.uv /\ db.uv <= SCHEMA_VERSION
  BY DEF Reread, OpenInv, Locked, Underway, Placed, InTransaction, Migrating
<1>2. step[p] \in Nat /\ db.uv \in Nat /\ SCHEMA_VERSION \in Nat
  BY Numbers DEF OpenInv, OpenTypes, Stored
<1>3. CASE tx.uv # step[p]
  <2>1. Rollback /\ Loop(p, step[p] + 1) /\ step[p] + 1 \in 0 .. SCHEMA_VERSION
    BY <1>1, <1>2, <1>3 DEF Reread
  <2>2. /\ at' \in [Procs -> Labels] /\ step' \in [Procs -> 0 .. SCHEMA_VERSION]
        /\ step'[p] = step[p] + 1
        /\ at'[p] = (IF step[p] + 1 < SCHEMA_VERSION THEN "begin" ELSE "row")
        /\ \A q \in Procs : q # p => at'[q] = at[q] /\ step'[q] = step[q]
    BY <2>1, LoopTyped DEF OpenInv
  <2> QED
    <3>1. step[p] + 1 <= db.uv
      BY <1>1, <1>2, <1>3
    <3>2. at'[p] = "begin" => step'[p] < SCHEMA_VERSION /\ step'[p] <= db.uv /\ db.uv <= SCHEMA_VERSION
      BY <1>1, <1>2, <2>2, <3>1
    <3>3. at'[p] \in Migrated => db.uv = SCHEMA_VERSION
      BY <1>1, <1>2, <2>2, <3>1 DEF Migrated
    <3>4. at'[p] \notin InTransaction \cup {"clash"}
      BY <2>2 DEF InTransaction
    <3> QED
      BY <1>1, <2>1, <2>2, <3>2, <3>3, <3>4, StepsOutside
<1>4. CASE tx.uv = step[p]
  <2>1. UNCHANGED <<db, tx, ran, writer, step>> /\ at' = [at EXCEPT ![p] = "run"]
    BY <1>4 DEF Reread, Goto, store
  <2>2. step[p] = db.uv /\ ran = 0 /\ tx.done = Schema(db.uv)
    BY <1>1, <1>4 DEF Reread, OpenInv, Underway, SchemaIsVersion
  <2>3. tx.done = [Schema(db.uv) EXCEPT ![step[p] + 1] = 0] /\ step[p] + 1 \in Migs
    <3>1. db.uv \in 0 .. SCHEMA_VERSION - 1
      BY <1>1, <1>2, <2>2
    <3>2. db.uv + 1 \in Migs /\ [Schema(db.uv) EXCEPT ![db.uv + 1] = 0] = Schema(db.uv)
      BY <3>1, Schemas
    <3> QED
      BY <2>2, <3>2
  <2>4. /\ at' \in [Procs -> Labels] /\ at'[p] = "run"
        /\ \A q \in Procs : q # p => at'[q] = at[q]
    BY <2>1 DEF OpenInv, OpenTypes, Labels
  <2>5. Underway(p)'
    BY <1>1, <1>2, <2>1, <2>2, <2>3, <2>4, Numbers DEF Underway, Schema
  <2>6. \A q \in Procs : q # p => Underway(q)'
    BY <2>1, <2>4 DEF OpenInv, Underway, Schema
  <2>7. OpenTypes' /\ SchemaIsVersion' /\ Locked' /\ Placed'
    BY <1>1, <2>1, <2>4
       DEF OpenInv, OpenTypes, SchemaIsVersion, Schema, Locked, Placed, InTransaction, Migrating, Migrated
  <2> QED
    BY <2>5, <2>6, <2>7 DEF OpenInv
<1> QED
  BY <1>3, <1>4

LEMMA RunKeeps == ASSUME OpenInv, NEW p \in Procs, Run(p) PROVE OpenInv'
<1> DEFINE k == step[p] + 1
<1>1. /\ writer = p /\ step[p] = db.uv /\ tx.uv = db.uv /\ ran <= Statements[k] /\ ran \in Nat
      /\ tx.done = [Schema(db.uv) EXCEPT ![k] = ran] /\ db.uv < SCHEMA_VERSION
  BY DEF Run, OpenInv, OpenTypes, Locked, Underway, Placed, InTransaction, Migrating
<1>2. /\ db.uv \in 0 .. SCHEMA_VERSION - 1 /\ k \in Migs /\ k = db.uv + 1 /\ SCHEMA_VERSION \in Nat
      /\ Statements[k] \in Nat
  BY <1>1, Numbers DEF OpenInv, OpenTypes, Stored
<1>3. tx \in Stored /\ tx.done[k] = ran
  BY <1>1, <1>2, Schemas DEF OpenInv, OpenTypes
<1>4. UNCHANGED <<db, writer, step>> /\ \A q \in Procs : q # p => at'[q] = at[q] /\ at[q] \notin InTransaction
  BY <1>1, <1>3 DEF Run, Goto, OpenInv, OpenTypes, Locked
<1>5. CASE ran = Statements[k]
  <2>1. tx' = [tx EXCEPT !.uv = k] /\ at' = [at EXCEPT ![p] = "commit"] /\ ran' = ran
    BY <1>5 DEF Run, Goto
  <2>2. tx' \in Stored /\ tx'.uv = k /\ tx'.done = tx.done
    BY <1>2, <1>3, <2>1 DEF Stored
  <2>3. tx.done = Schema(k)
    BY <1>1, <1>2, <1>5, Schemas
  <2>4. at' \in [Procs -> Labels] /\ at'[p] = "commit"
    BY <2>1 DEF OpenInv, OpenTypes, Labels
  <2>5. Underway(p)'
    BY <1>1, <1>4, <2>2, <2>3, <2>4 DEF Underway, Schema
  <2>6. \A q \in Procs : q # p => Underway(q)'
    BY <1>4 DEF Underway, InTransaction
  <2>7. OpenTypes' /\ SchemaIsVersion'
    BY <1>4, <2>1, <2>2, <2>4 DEF OpenInv, OpenTypes, SchemaIsVersion, Schema
  <2>8. Locked'
    BY <1>1, <1>4, <2>4 DEF Locked, InTransaction
  <2>9. Placed'
    BY <1>1, <1>2, <1>4, <2>4 DEF OpenInv, Placed, InTransaction, Migrating, Migrated
  <2> QED
    BY <2>5, <2>6, <2>7, <2>8, <2>9 DEF OpenInv
<1>6. CASE ran # Statements[k]
  <2>1. /\ tx' = [tx EXCEPT !.done[k] = ran + 1] /\ ran' = ran + 1 /\ at' = at
    BY <1>1, <1>3, <1>6 DEF Run
  <2>2. /\ tx'.uv = tx.uv /\ tx'.done = [Schema(db.uv) EXCEPT ![k] = ran + 1]
        /\ tx' \in Stored
    BY <1>1, <1>2, <1>3, <2>1, Schemas DEF Stored
  <2>3. at[p] = "run" /\ ran' <= Statements[k] /\ ran' \in Nat
    BY <1>1, <1>2, <1>6, <2>1 DEF Run
  <2>4. Underway(p)'
    BY <1>1, <1>4, <2>1, <2>2, <2>3 DEF Underway, Schema
  <2>5. \A q \in Procs : q # p => Underway(q)'
    BY <1>4 DEF Underway, InTransaction
  <2>6. OpenTypes' /\ SchemaIsVersion' /\ Locked' /\ Placed'
    BY <1>4, <2>1, <2>2, <2>3 DEF OpenInv, OpenTypes, SchemaIsVersion, Schema, Locked, Placed
  <2> QED
    BY <2>4, <2>5, <2>6 DEF OpenInv
<1> QED
  BY <1>5, <1>6

LEMMA CommitKeeps == ASSUME OpenInv, NEW p \in Procs, Commit(p) PROVE OpenInv'
<1>1. /\ writer = p /\ step[p] = db.uv /\ tx.uv = step[p] + 1 /\ tx.done = Schema(tx.uv)
      /\ step[p] < SCHEMA_VERSION /\ tx \in Stored
  BY DEF Commit, OpenInv, OpenTypes, Locked, Underway, Placed, InTransaction, Migrating
<1>2. step[p] \in Nat /\ step[p] + 1 \in 0 .. SCHEMA_VERSION /\ SCHEMA_VERSION \in Nat
  BY <1>1, Numbers DEF OpenInv, OpenTypes
<1>3. db' = tx /\ writer' = Nobody /\ UNCHANGED <<tx, ran>> /\ Loop(p, step[p] + 1)
  BY DEF Commit
<1>4. /\ at' \in [Procs -> Labels] /\ step' \in [Procs -> 0 .. SCHEMA_VERSION]
      /\ step'[p] = step[p] + 1
      /\ at'[p] = (IF step[p] + 1 < SCHEMA_VERSION THEN "begin" ELSE "row")
      /\ \A q \in Procs : q # p => at'[q] = at[q] /\ step'[q] = step[q]
  BY <1>2, <1>3, LoopTyped DEF OpenInv
<1>5. \A q \in Procs : q # p => at[q] \notin InTransaction
  BY <1>1 DEF OpenInv, Locked
<1>6. OpenTypes' /\ SchemaIsVersion'
  BY <1>1, <1>3, <1>4 DEF OpenInv, OpenTypes, SchemaIsVersion, Schema
<1>7. Locked'
  BY <1>3, <1>4, <1>5, MigrationsAssumption DEF Locked, InTransaction
<1>8. \A q \in Procs : Underway(q)'
  BY <1>4, <1>5 DEF Underway, InTransaction
<1>9. ASSUME NEW q \in Procs
      PROVE  /\ at'[q] \in Migrating =>
                  step'[q] < SCHEMA_VERSION /\ step'[q] <= db'.uv /\ db'.uv <= SCHEMA_VERSION
             /\ at'[q] \in Migrated => db'.uv = SCHEMA_VERSION
             /\ at'[q] # "clash"
  <2>1. CASE q = p
    BY <1>1, <1>2, <1>3, <1>4, <2>1 DEF Migrating, Migrated, InTransaction
  <2>2. CASE q # p
    <3>1. at[q] \notin Migrated
      BY <1>1, <1>2 DEF OpenInv, Placed
    <3>2. at[q] \in Migrating => step[q] < SCHEMA_VERSION /\ step[q] <= db.uv
      BY DEF OpenInv, Placed
    <3>3. step[q] \in Nat /\ at[q] # "clash"
      BY Numbers DEF OpenInv, OpenTypes, Placed
    <3> QED
      BY <1>1, <1>2, <1>3, <1>4, <2>2, <3>1, <3>2, <3>3
  <2> QED
    BY <2>1, <2>2
<1>10. Placed'
  BY <1>9 DEF Placed
<1> QED
  BY <1>6, <1>7, <1>8, <1>10 DEF OpenInv

LEMMA InsertRowKeeps == ASSUME OpenInv, NEW p \in Procs, InsertRow(p) PROVE OpenInv'
<1>1. /\ at' = [at EXCEPT ![p] = "in"] /\ UNCHANGED <<writer, ran, step>>
      /\ db' = [db EXCEPT !.row = RowAfter(p)] /\ tx' = db' /\ writer = Nobody
  BY DEF InsertRow, Goto
<1>2. db' \in Stored /\ db'.uv = db.uv /\ db'.done = db.done
  BY <1>1 DEF OpenInv, OpenTypes, Stored, RowAfter
<1>3. \A q \in Procs : at[q] \notin InTransaction
  BY <1>1, MigrationsAssumption DEF OpenInv, Locked
<1>4. /\ at' \in [Procs -> Labels] /\ at'[p] = "in"
      /\ \A q \in Procs : q # p => at'[q] = at[q]
  BY <1>1 DEF OpenInv, OpenTypes, Labels
<1>5. db.uv = SCHEMA_VERSION
  BY DEF InsertRow, OpenInv, Placed, Migrated
<1>6. OpenTypes' /\ SchemaIsVersion'
  BY <1>1, <1>2, <1>4 DEF OpenInv, OpenTypes, SchemaIsVersion, Schema
<1>7. Locked'
  BY <1>1, <1>3, <1>4, MigrationsAssumption DEF Locked, InTransaction
<1>8. Placed'
  BY <1>1, <1>2, <1>4, <1>5 DEF OpenInv, Placed, InTransaction, Migrating
<1>9. \A q \in Procs : Underway(q)'
  BY <1>3, <1>4 DEF Underway, InTransaction
<1> QED
  BY <1>6, <1>7, <1>8, <1>9 DEF OpenInv

OpenNext == \E p \in Procs : Enter(p) \/ OpenStep(p) \/ OpenFails(p) \/ Leave(p)

LEMMA OpenKeeps == OpenInv /\ [OpenNext]_opening => OpenInv'
<1> SUFFICES ASSUME OpenInv, [OpenNext]_opening PROVE OpenInv'
  OBVIOUS
<1> USE DEF Labels, InTransaction, Migrated
<1>0. at \in [Procs -> Labels] /\ step \in [Procs -> 0 .. SCHEMA_VERSION] /\ SCHEMA_VERSION \in Nat
  BY Numbers DEF OpenInv, OpenTypes
<1>1. ASSUME NEW p \in Procs, Enter(p) PROVE OpenInv'
  BY <1>0, <1>1, StepsOutside DEF Enter, Goto, store
<1>2. ASSUME NEW p \in Procs, ReadVersion(p) PROVE OpenInv'
  <2>1. CASE db.uv > SCHEMA_VERSION
    BY <1>0, <1>2, <2>1, StepsOutside DEF ReadVersion, Goto, store
  <2>2. CASE ~(db.uv > SCHEMA_VERSION)
    <3>1. db.uv \in 0 .. SCHEMA_VERSION /\ Loop(p, db.uv) /\ UNCHANGED store /\ at[p] = "read"
      BY <1>0, <1>2, <2>2 DEF ReadVersion, OpenInv, OpenTypes, Stored
    <3>2. /\ at' \in [Procs -> Labels] /\ step' \in [Procs -> 0 .. SCHEMA_VERSION]
          /\ step'[p] = db.uv /\ at'[p] = (IF db.uv < SCHEMA_VERSION THEN "begin" ELSE "row")
          /\ \A q \in Procs : q # p => at'[q] = at[q] /\ step'[q] = step[q]
      BY <3>1, LoopTyped DEF OpenInv
    <3> QED
      BY <1>0, <3>1, <3>2, StepsOutside DEF store
  <2> QED
    BY <2>1, <2>2
<1>3. ASSUME NEW p \in Procs, SelectRow(p) PROVE OpenInv'
  <2>1. db.uv = SCHEMA_VERSION
    BY <1>3 DEF SelectRow, OpenInv, Placed
  <2> QED
    BY <1>0, <1>3, <2>1, StepsOutside DEF SelectRow, Goto, store
<1>4. ASSUME NEW p \in Procs, OpenFails(p) PROVE OpenInv'
  <2>1. at[p] \in InTransaction => writer = p
    BY DEF OpenInv, Locked
  <2> QED
    BY <1>0, <1>4, <2>1, StepsOutside DEF OpenFails, Goto, store
<1>5. ASSUME NEW p \in Procs, Leave(p) PROVE OpenInv'
  <2>1. at[p] \in InTransaction <=> writer = p
    BY DEF OpenInv, Locked
  <2> QED
    BY <1>0, <1>5, <2>1, StepsOutside DEF Leave, store
<1>6. CASE UNCHANGED opening
  <2>1. UNCHANGED <<db, writer, tx, ran, at, step>>
    BY <1>6 DEF opening, store
  <2>2. OpenTypes' /\ SchemaIsVersion' /\ Locked' /\ Placed'
    BY <2>1 DEF OpenInv, OpenTypes, SchemaIsVersion, Schema, Locked, Placed, Migrating
  <2>3. \A p \in Procs : Underway(p)'
    BY <2>1 DEF OpenInv, Underway, Schema
  <2> QED
    BY <2>2, <2>3 DEF OpenInv
<1> QED
  BY <1>1, <1>2, <1>3, <1>4, <1>5, <1>6, BeginKeeps, RereadKeeps, RunKeeps, CommitKeeps, InsertRowKeeps
     DEF OpenNext, OpenStep

\* The service opens the database as any process does, and nothing else touches it.
LEMMA NextOpens == [Next]_vars => [OpenNext]_opening
<1> SUFFICES ASSUME [Next]_vars PROVE OpenNext \/ UNCHANGED opening
  OBVIOUS
<1>0. Svc \in Procs
  BY LifecycleAssumption
<1>1. CASE StartService \/ SvcOpens \/ InitFails \/ Exits \/ Disturb
  BY <1>0, <1>1 DEF StartService, SvcOpens, InitFails, Exits, Disturb, Killed, StopUnit, SvcOpenFails, OpenNext
<1>7. CASE StartRefused \/ IntervalOver
  BY <1>7 DEF StartRefused, IntervalOver
<1>2. CASE Goes /\ ~Exits
  BY <1>2 DEF Goes, Opened, BootPass, Booted, Closes, Closed, Joined, TearsDown, TornDown
<1>3. CASE Ticks \/ SupLocks \/ SupReleases
  BY <1>3 DEF Ticks, SupLocks, SupReleases
<1>4. CASE Ask \/ ReqLocks \/ ReqReleases \/ StatusReads \/ (\E x \in Readers : Hangup(x)) \/ StartUnit
  BY <1>4 DEF Ask, ReqLocks, ReqReleases, StatusReads, Hangup, StartUnit
<1>5. CASE \E p \in Procs : Ctl(p)
  BY <1>5 DEF Ctl, OpenNext
<1>6. CASE UNCHANGED vars
  BY <1>6 DEF vars
<1> QED
  BY <1>1, <1>2, <1>3, <1>4, <1>5, <1>6, <1>7 DEF Next

LEMMA OpenInvariant == Spec => []OpenInv
<1>1. Init => OpenInv
  BY InitOpens DEF Init
<1> QED
  BY <1>1, OpenKeeps, NextOpens, PTL DEF Spec

\* db.py, init(): for any number of processes, releases and statements, a migration is
\* whole or not there, whoever is killed or fails, and user_version says which.
THEOREM MigrationsAreWhole == Spec => []SchemaIsVersion
BY OpenInvariant, PTL DEF OpenInv

\* Of processes that migrate at once none meets what another has done, and none goes on
\* with a schema that is not its own.
THEOREM MigrationsDoNotClash == Spec => []NobodyClashes
<1>1. OpenInv => NobodyClashes
  BY DEF OpenInv, Placed, Migrated, NobodyClashes
<1> QED
  BY <1>1, OpenInvariant, PTL

\* The transaction that is open has the settings row as it is committed: whoever
\* would insert one waits for the write lock.
RowKept == writer # Nobody => tx.row = db.row

LEMMA NextRow ==
  ASSUME OpenInv, RowKept, [OpenNext]_opening
  PROVE  RowKept' /\ (db.row # Nobody => db'.row = db.row)
<1>1. CASE UNCHANGED store
  BY <1>1 DEF store, RowKept
<1>2. CASE Rollback
  BY <1>2 DEF Rollback, RowKept
<1>3. ASSUME NEW p \in Procs, Enter(p) \/ ReadVersion(p) \/ SelectRow(p) PROVE UNCHANGED store
  BY <1>3 DEF Enter, ReadVersion, SelectRow
<1>4. ASSUME NEW p \in Procs, Reread(p) \/ OpenFails(p) \/ Leave(p) PROVE Rollback \/ UNCHANGED store
  BY <1>4 DEF Reread, OpenFails, Leave
<1>5. ASSUME NEW p \in Procs, Begin(p) PROVE RowKept' /\ db' = db
  BY <1>5 DEF Begin, RowKept
<1>6. ASSUME NEW p \in Procs, Run(p) PROVE RowKept' /\ db' = db
  <2>1. tx \in Stored /\ writer # Nobody
    BY <1>6, MigrationsAssumption DEF Run, OpenInv, OpenTypes, Locked, InTransaction
  <2>2. CASE Rollback
    BY <2>2 DEF Rollback, RowKept
  <2>3. CASE ~Rollback
    <3>1. /\ \/ tx' = [tx EXCEPT !.uv = step[p] + 1]
             \/ tx' = [tx EXCEPT !.done[step[p] + 1] = IF @ > ran THEN @ ELSE ran + 1]
          /\ db' = db /\ writer' = writer
      BY <1>6, <2>3 DEF Run
    <3>2. tx'.row = tx.row
      BY <2>1, <3>1 DEF Stored
    <3> QED
      BY <3>1, <3>2 DEF RowKept
  <2> QED
    BY <2>2, <2>3
<1>7. ASSUME NEW p \in Procs, Commit(p) PROVE RowKept' /\ db'.row = db.row
  <2>1. writer # Nobody
    BY <1>7, MigrationsAssumption DEF Commit, OpenInv, Locked, InTransaction
  <2> QED
    BY <1>7, <2>1 DEF Commit, RowKept
<1>8. ASSUME NEW p \in Procs, InsertRow(p)
      PROVE  RowKept' /\ (db.row # Nobody => db'.row = db.row)
  <2>1. db' = [db EXCEPT !.row = RowAfter(p)] /\ tx' = db' /\ db \in Stored
    BY <1>8 DEF InsertRow, OpenInv, OpenTypes
  <2>2. db'.row = RowAfter(p)
    BY <2>1 DEF Stored
  <2> QED
    BY <2>1, <2>2 DEF RowKept, RowAfter
<1>9. CASE UNCHANGED opening
  BY <1>1, <1>9 DEF opening
<1> QED
  BY <1>1, <1>2, <1>3, <1>4, <1>5, <1>6, <1>7, <1>8, <1>9 DEF OpenNext, OpenStep

\* The settings row, and with it the obfuscation key, is made up once, whoever of any
\* number of processes finds none (INSERT OR IGNORE in Database.init()).
THEOREM SettingsMadeOnce == Spec => SettingsOnce
<1>1. Init => RowKept
  BY DEF Init, OpenInit, RowKept
<1>2. OpenInv /\ RowKept /\ [Next]_vars => RowKept' /\ [db.row # Nobody => db'.row = db.row]_opening
  BY NextOpens, NextRow
<1> QED
  BY <1>1, <1>2, OpenInvariant, PTL DEF Spec, SettingsOnce

-----------------------------------------------------------------------------
(* The stop *)

LifeTypes ==
    /\ life \in {"down", "init", "boot", "pass", "serving", "closing", "join", "stop",
                 "teardown", "exit", "failed"}
    /\ starts \in 0 .. StartLimitBurst /\ harmed \in BOOLEAN
    /\ asked \in BOOLEAN /\ stopEvent \in BOOLEAN /\ obf \in BOOLEAN
    /\ ended \in {"cut", "late", "clean"}
    /\ sup \in {"none", "sleeps", "tick", "check", "due", "pass"}
    /\ rlock \in {"free", "main", "sup", "req"}
    /\ req \in Waiting /\ status \in Waiting \ {"pass"} /\ streams \subseteq Readers
    /\ rlock = "main" <=> life \in {"pass", "teardown"}
    /\ rlock = "sup" <=> sup \in {"check", "pass"}
    /\ rlock = "req" <=> req = "pass"

\* From the join on nothing runs any more that could start an obfuscator, if the
\* supervisor was joined; and it stays so until the service is started.
StopInv ==
    /\ life \in {"down", "failed", "init", "boot", "pass"} => sup = "none"
    /\ life \notin {"serving", "closing"} => req = "none"
    /\ life \in {"serving", "closing", "join"} => ended = "cut"
    /\ ended = "clean" /\ life \in {"stop", "teardown", "exit"} => sup = "none"
    /\ ended = "clean" /\ life \in {"exit", "down", "failed", "init", "boot", "pass"} /\ StopProcesses => ~obf

LifeInv == LifeTypes /\ StopInv

LEMMA InitLife == Init => LifeInv
<1> SUFFICES ASSUME Init PROVE LifeInv
  OBVIOUS
<1>1. starts \in 0 .. StartLimitBurst
  BY LifecycleAssumption DEF Init
<1>2. StopInv
  BY DEF Init, StopInv
<1>3. harmed \in BOOLEAN /\ asked \in BOOLEAN /\ stopEvent \in BOOLEAN /\ obf \in BOOLEAN
  BY DEF Init
<1> QED
  BY <1>1, <1>2, <1>3 DEF Init, LifeInv, LifeTypes, Waiting

LEMMA NextLife == LifeInv /\ [Next]_vars => LifeInv'
<1> SUFFICES ASSUME LifeInv, [Next]_vars PROVE LifeInv'
  OBVIOUS
<1> USE DEF LifeInv, LifeTypes, StopInv, Waiting, unit
<1>0. StartLimitBurst \in Nat \ {0}
  BY LifecycleAssumption
<1>1. CASE StartService
  <2>1. starts' \in 0 .. StartLimitBurst /\ harmed' \in BOOLEAN
    BY <1>0, <1>1 DEF StartService
  <2> QED
    BY <1>1, <2>1 DEF StartService, threads
<1>17. CASE StartRefused \/ IntervalOver
  <2>1. starts' \in 0 .. StartLimitBurst
    BY <1>0, <1>17 DEF StartRefused, IntervalOver
  <2> QED
    BY <1>17, <2>1 DEF StartRefused, IntervalOver, threads
<1>18. CASE SvcOpens \/ SvcOpenFails
  <2>1. UNCHANGED <<life, asked, starts, ended, threads, obf>> /\ harmed' \in BOOLEAN
    BY <1>18 DEF SvcOpens, SvcOpenFails, life_vars
  <2> QED
    BY <2>1 DEF threads
<1>2. CASE InitFails \/ Opened \/ BootPass
  BY <1>2 DEF InitFails, Opened, BootPass, threads
<1>3. CASE Booted
  BY <1>3 DEF Booted, MayStart
<1>4. CASE Closes \/ Closed
  BY <1>4 DEF Closes, Closed, threads
<1>5. CASE Joined
  BY <1>5 DEF Joined, threads
<1>6. CASE TearsDown
  BY <1>6 DEF TearsDown
<1>7. CASE TornDown
  BY <1>7 DEF TornDown
<1>8. CASE Exits \/ Killed
  <2>1. /\ life' = "down" /\ UNCHANGED <<asked, starts, obf>> /\ harmed' \in BOOLEAN
        /\ stopEvent' = FALSE /\ sup' = "none" /\ rlock' = "free"
        /\ req' = "none" /\ status' = "none" /\ streams' = {}
        /\ ended' = "cut" \/ (ended' = ended /\ life = "exit")
    BY <1>8 DEF Exits, Killed, Quiet
  <2>2. LifeTypes'
    BY <2>1
  <2>3. StopInv'
    BY <2>1
  <2> QED
    BY <2>2, <2>3
<1>9. CASE Ticks
  BY <1>9 DEF Ticks
<1>10. CASE SupLocks
  BY <1>10 DEF SupLocks
<1>11. CASE SupReleases
  BY <1>11 DEF SupReleases, MayStart
<1>12. CASE ReqReleases
  BY <1>12 DEF ReqReleases, MayStart
<1>13. CASE Ask
  BY <1>13 DEF Ask
<1>14. CASE ReqLocks \/ StatusReads \/ \E x \in Readers : Hangup(x)
  BY <1>14 DEF ReqLocks, StatusReads, Hangup
<1>15. CASE StartUnit \/ StopUnit
  <2>1. /\ UNCHANGED <<ended, starts, stopEvent, sup, rlock, req, status, streams, obf>>
        /\ asked' \in BOOLEAN /\ harmed' \in BOOLEAN
    BY <1>15 DEF StartUnit, StopUnit, threads
  <2>2. life' = life \/ (life = "failed" /\ life' = "down")
    BY <1>15 DEF StartUnit, StopUnit
  <2> QED
    BY <2>1, <2>2
<1>16. CASE (\E p \in Procs : Ctl(p)) \/ UNCHANGED vars
  BY <1>16 DEF Ctl, life_vars, threads, vars
<1> QED
  BY <1>1, <1>2, <1>3, <1>4, <1>5, <1>6, <1>7, <1>8, <1>9, <1>10, <1>11, <1>12, <1>13, <1>14, <1>15,
     <1>16, <1>17, <1>18 DEF Next, Goes, Disturb

LEMMA LifeInvariant == Spec => []LifeInv
BY InitLife, NextLife, PTL DEF Spec

\* Lifecycle is well typed: the RLock has one holder, the thread that is in a pass.
THEOREM LifeTypeCorrect == Spec => []TypeOK
<1>1. OpenInv /\ LifeInv => TypeOK
  BY DEF OpenInv, OpenTypes, Stored, LifeInv, LifeTypes, TypeOK
<1> QED
  BY <1>1, OpenInvariant, LifeInvariant, PTL

\* A stop that is gone through, with OBFMESH_STOP_PROCESSES=1 and a supervisor that was
\* joined, leaves no obfuscator, whoever asks for what in the meantime.
THEOREM CleanStop == Spec => []StopLeavesNothing
<1>1. LifeInv => StopLeavesNothing
  BY DEF LifeInv, StopInv, StopLeavesNothing
<1> QED
  BY <1>1, LifeInvariant, PTL

-----------------------------------------------------------------------------
(***************************************************************************)
(* The admin key (module AdminKey, which shares nothing with the above).   *)
(* For any number of requests, keys and stamps: a request is compared with *)
(* a key the file had while requests were under way, although they share a *)
(* cache, each reads the file after its stat, and a slow one overwrites    *)
(* what a faster one has stored.                                           *)
(***************************************************************************)

LEMMA InitTypes == KeyInit => KeyTypeOK
BY DEF KeyInit, KeyTypeOK, File

LEMMA NextTypes == KeyTypeOK /\ [KeyNext]_key_vars => KeyTypeOK'
<1> SUFFICES ASSUME KeyTypeOK, [KeyNext]_key_vars PROVE KeyTypeOK'
  OBVIOUS
<1> USE DEF KeyTypeOK
<1>1. ASSUME NEW come \in SUBSET Calls, NEW go \in SUBSET Calls, Traffic(come, go) PROVE KeyTypeOK'
  <2>1. KeyOf(file) \subseteq Keys
    BY DEF KeyOf, File
  <2> QED
    BY <1>1, <2>1 DEF Traffic, cache
<1>2. ASSUME NEW f \in File \cup {Missing}, Edit(f) PROVE KeyTypeOK'
  <2>1. KeyOf(f) \subseteq Keys
    BY DEF KeyOf, File
  <2>2. used' \subseteq Stamps
    BY <1>2 DEF Edit, File
  <2> QED
    BY <1>2, <2>1, <2>2 DEF Edit, cache, call
<1>3. ASSUME NEW c \in Calls, Stat(c) PROVE KeyTypeOK'
  BY <1>3 DEF Stat, File, cache, history
<1>4. ASSUME NEW c \in Calls, Clear(c) PROVE KeyTypeOK'
  BY <1>4 DEF Clear, Answer, history
<1>5. ASSUME NEW c \in Calls, Look(c) PROVE KeyTypeOK'
  BY <1>5 DEF Look, Answer, cache, history
<1>6. ASSUME NEW c \in Calls, Read(c) PROVE KeyTypeOK'
  BY <1>6 DEF Read, Answer, File, cache, history
<1>7. ASSUME NEW c \in Calls, ReadFails(c) PROVE KeyTypeOK'
  BY <1>7 DEF ReadFails, Answer, cache, history
<1>8. ASSUME NEW c \in Calls, Store(c) PROVE KeyTypeOK'
  BY <1>8 DEF Store, history
<1>9. ASSUME NEW c \in Calls, Return(c) PROVE KeyTypeOK'
  BY <1>9 DEF Return, Answer, cache, history
<1>10. CASE UNCHANGED key_vars
  BY <1>10 DEF key_vars, cache, call, history
<1> QED
  BY <1>1, <1>2, <1>3, <1>4, <1>5, <1>6, <1>7, <1>8, <1>9, <1>10 DEF KeyNext, Current

\* Every reachable state is well typed (of AdminKeyStore._from_file).
THEOREM KeyTypeCorrect == KeySpec => []KeyTypeOK
BY InitTypes, NextTypes, PTL DEF KeySpec

-----------------------------------------------------------------------------
(* The inductive invariant *)

\* The window of history holds the key of the file, while a request is under way.
Window == (\E c \in Calls : pc[c] # "idle") => KeyOf(file) \subseteq since

\* Stamps that somebody remembers are stamps the file has had: a new one is none of them.
Remembered ==
    /\ file # Missing => file.stamp \in used
    /\ cached # NoKey => stamp \in used
    /\ \A c \in Calls : pc[c] \in {"look", "read", "store"} => seen[c] \in used

\* A request that holds the stamp of the file and has read, has read the file.
Fresh ==
    \A c \in Calls :
        pc[c] = "store" /\ file # Missing /\ seen[c] = file.stamp => got[c] = file.key

\* What a request may still answer, by what it would take from the cache or has itself.
InWindow ==
    \A c \in Calls :
        /\ pc[c] = "look" /\ stamp = seen[c] /\ cached # NoKey => cached \in since
        /\ pc[c] = "return" /\ cached # NoKey => cached \in since
        /\ pc[c] \in {"store", "answered"} /\ got[c] # NoKey => got[c] \in since

IInv ==
    /\ KeyTypeOK /\ Window /\ Remembered
    /\ ~back => CacheIsFile /\ Fresh /\ InWindow

LEMMA InitInv == KeyInit => IInv
<1> SUFFICES ASSUME KeyInit PROVE IInv
  OBVIOUS
<1>1. KeyTypeOK
  BY InitTypes
<1> QED
  BY <1>1 DEF KeyInit, IInv, Window, Remembered, CacheIsFile, Fresh, InWindow

LEMMA TrafficInv ==
  ASSUME IInv, KeyTypeOK', NEW come \in SUBSET Calls, NEW go \in SUBSET Calls, Traffic(come, go)
  PROVE  IInv'
<1>1. /\ \A c \in Calls : pc'[c] \in {"called", "idle"} \/ (pc'[c] = pc[c] /\ got'[c] = got[c])
      /\ UNCHANGED <<file, cached, stamp, seen, used, back>>
  BY DEF Traffic, cache
<1>2. since' = since \/ \A c \in Calls : pc'[c] \in {"called", "idle"}
  BY <1>1 DEF Traffic, Idle
<1>3. Window'
  BY DEF IInv, Window, Traffic, Idle, KeyOf, cache
<1>4. Remembered'
  BY <1>1 DEF IInv, Remembered
<1>5. ~back => CacheIsFile' /\ Fresh' /\ InWindow'
  BY <1>1, <1>2 DEF IInv, CacheIsFile, Fresh, InWindow
<1> QED
  BY <1>1, <1>3, <1>4, <1>5 DEF IInv

LEMMA EditInv ==
  ASSUME IInv, KeyTypeOK', NEW f \in File \cup {Missing}, Edit(f)
  PROVE  IInv'
<1>1. UNCHANGED <<cached, stamp, pc, seen, got>> /\ file' = f
  BY DEF Edit, cache, call
<1>2. Window'
  BY <1>1 DEF IInv, Window, Edit, Idle, KeyOf
<1>3. Remembered'
  BY <1>1 DEF IInv, Remembered, Edit
<1>4. ASSUME ~back' PROVE CacheIsFile' /\ Fresh' /\ InWindow'
  <2>1. ~back /\ (f # Missing => f.stamp \notin used)
    BY <1>4 DEF Edit
  <2>2. CacheIsFile' /\ Fresh'
    BY <1>1, <2>1 DEF IInv, Remembered, CacheIsFile, Fresh
  <2>3. since \subseteq since' \/ \A c \in Calls : pc[c] = "idle"
    BY DEF Edit, Idle
  <2>4. InWindow'
    BY <1>1, <2>1, <2>3 DEF IInv, InWindow
  <2> QED
    BY <2>2, <2>4
<1> QED
  BY <1>2, <1>3, <1>4 DEF IInv

\* A request with an answer of its own disturbs no other.
LEMMA AnswerInv ==
  ASSUME IInv, KeyTypeOK', NEW c \in Calls, NEW k, Answer(c, k), pc[c] # "idle",
         UNCHANGED <<file, cache, history>>,
         ~back => (k # NoKey => k \in since)
  PROVE  IInv'
<1>1. /\ \A d \in Calls \ {c} : pc'[d] = pc[d] /\ seen'[d] = seen[d] /\ got'[d] = got[d]
      /\ pc'[c] = "answered" /\ got'[c] = k
      /\ UNCHANGED <<file, cached, stamp, used, since, back>>
  BY DEF Answer, IInv, KeyTypeOK, cache, history
<1>2. Window' /\ Remembered'
  BY <1>1 DEF IInv, Window, Remembered, KeyOf
<1>3. ~back => CacheIsFile' /\ Fresh' /\ InWindow'
  BY <1>1 DEF IInv, CacheIsFile, Fresh, InWindow
<1> QED
  BY <1>1, <1>2, <1>3 DEF IInv

LEMMA CurrentInv ==
  ASSUME IInv, KeyTypeOK', NEW c \in Calls, Current(c) \/ ReadFails(c)
  PROVE  IInv'
<1> USE DEF IInv
<1>1. CASE Stat(c)
  <2>1. /\ \A d \in Calls \ {c} : pc'[d] = pc[d] /\ seen'[d] = seen[d]
        /\ pc[c] = "called"
        /\ \/ file = Missing /\ pc'[c] = "missing" /\ seen' = seen
           \/ file # Missing /\ pc'[c] = "look" /\ seen'[c] = file.stamp
        /\ UNCHANGED <<file, cached, stamp, used, since, back, got>>
    BY <1>1 DEF Stat, KeyTypeOK, cache, history
  <2>2. Window' /\ Remembered'
    BY <2>1 DEF Window, Remembered, KeyOf
  <2>3. ~back => CacheIsFile' /\ Fresh'
    BY <2>1 DEF CacheIsFile, Fresh
  <2>4. ASSUME ~back PROVE InWindow'
    <3>1. file # Missing /\ cached # NoKey /\ stamp = file.stamp => cached \in since
      BY <2>1, <2>4 DEF CacheIsFile, Window, KeyOf
    <3> QED
      BY <2>1, <2>4, <3>1 DEF InWindow
  <2> QED
    BY <2>1, <2>2, <2>3, <2>4
<1>2. CASE Clear(c)
  <2>1. /\ \A d \in Calls \ {c} : pc'[d] = pc[d] /\ seen'[d] = seen[d] /\ got'[d] = got[d]
        /\ pc[c] = "missing" /\ pc'[c] = "answered" /\ got'[c] = NoKey /\ cached' = NoKey
        /\ UNCHANGED <<file, used, since, back>>
    BY <1>2 DEF Clear, Answer, KeyTypeOK, history
  <2>2. Window' /\ Remembered'
    BY <2>1 DEF Window, Remembered, KeyOf
  <2>3. ~back => CacheIsFile' /\ Fresh' /\ InWindow'
    BY <2>1 DEF CacheIsFile, Fresh, InWindow
  <2> QED
    BY <2>1, <2>2, <2>3
<1>3. CASE Look(c)
  <2>1. CASE stamp = seen[c] /\ cached # NoKey
    <3>1. Answer(c, cached) /\ pc[c] = "look" /\ UNCHANGED <<file, cache, history>>
      BY <1>3, <2>1 DEF Look
    <3>2. ~back => cached \in since
      BY <2>1, <3>1 DEF InWindow
    <3> QED
      BY <3>1, <3>2, AnswerInv
  <2>2. CASE ~(stamp = seen[c] /\ cached # NoKey)
    <3>1. /\ \A d \in Calls \ {c} : pc'[d] = pc[d]
          /\ pc[c] = "look" /\ pc'[c] = "read"
          /\ UNCHANGED <<file, cached, stamp, used, since, back, seen, got>>
      BY <1>3, <2>2 DEF Look, KeyTypeOK, cache, history
    <3>2. Window' /\ Remembered'
      BY <3>1 DEF Window, Remembered, KeyOf
    <3>3. ~back => CacheIsFile' /\ Fresh' /\ InWindow'
      BY <3>1 DEF CacheIsFile, Fresh, InWindow
    <3> QED
      BY <3>1, <3>2, <3>3
  <2> QED
    BY <2>1, <2>2
<1>4. CASE Read(c)
  <2>1. CASE file = Missing
    <3>1. Answer(c, NoKey) /\ pc[c] = "read" /\ UNCHANGED <<file, cache, history>>
      BY <1>4, <2>1 DEF Read
    <3> QED
      BY <3>1, AnswerInv
  <2>2. CASE file # Missing
    <3>1. /\ \A d \in Calls \ {c} : pc'[d] = pc[d] /\ got'[d] = got[d]
          /\ pc[c] = "read" /\ pc'[c] = "store" /\ got'[c] = file.key
          /\ UNCHANGED <<file, cached, stamp, used, since, back, seen>>
      BY <1>4, <2>2 DEF Read, KeyTypeOK, cache, history
    <3>2. Window' /\ Remembered'
      BY <3>1 DEF Window, Remembered, KeyOf
    <3>3. file.key # NoKey => file.key \in since
      BY <2>2, <3>1 DEF Window, KeyOf
    <3>4. ~back => CacheIsFile' /\ Fresh' /\ InWindow'
      BY <3>1, <3>3 DEF CacheIsFile, Fresh, InWindow
    <3> QED
      BY <3>1, <3>2, <3>4
  <2> QED
    BY <2>1, <2>2
<1>5. CASE ReadFails(c)
  <2>1. Answer(c, NoKey) /\ pc[c] = "read" /\ UNCHANGED <<file, cache, history>>
    BY <1>5 DEF ReadFails
  <2> QED
    BY <2>1, AnswerInv
<1>6. CASE Store(c)
  <2>1. /\ \A d \in Calls \ {c} : pc'[d] = pc[d] /\ seen'[d] = seen[d]
        /\ pc[c] = "store" /\ pc'[c] = "return" /\ cached' = got[c] /\ stamp' = seen[c]
        /\ UNCHANGED <<file, used, since, back, got>>
    BY <1>6 DEF Store, KeyTypeOK, history
  <2>2. Window' /\ Remembered'
    BY <2>1 DEF Window, Remembered, KeyOf
  <2>3. ~back => CacheIsFile' /\ Fresh'
    BY <2>1 DEF CacheIsFile, Fresh
  <2>4. ~back => InWindow'
    BY <2>1 DEF InWindow
  <2> QED
    BY <2>1, <2>2, <2>3, <2>4
<1>7. CASE Return(c)
  <2>1. Answer(c, cached) /\ pc[c] = "return" /\ UNCHANGED <<file, cache, history>>
    BY <1>7 DEF Return
  <2>2. ~back => (cached # NoKey => cached \in since)
    BY <2>1 DEF InWindow
  <2> QED
    BY <2>1, <2>2, AnswerInv
<1> QED
  BY <1>1, <1>2, <1>3, <1>4, <1>5, <1>6, <1>7 DEF Current

LEMMA NextInv == IInv /\ [KeyNext]_key_vars => IInv'
<1> SUFFICES ASSUME IInv, [KeyNext]_key_vars PROVE IInv'
  OBVIOUS
<1>1. KeyTypeOK'
  BY NextTypes DEF IInv
<1>2. CASE KeyNext
  BY <1>1, <1>2, TrafficInv, EditInv, CurrentInv DEF KeyNext
<1>3. CASE UNCHANGED key_vars
  BY <1>1, <1>3 DEF key_vars, cache, call, history, IInv, Window, Remembered, CacheIsFile, Fresh,
                    InWindow, KeyOf
<1> QED
  BY <1>2, <1>3

\* auth.py, _from_file(): unless the file comes back to a stamp, no request is compared
\* with a key that was gone from the file before the requests under way began.
THEOREM NoOldKey == KeySpec => []KeyWasFiles
<1>1. IInv => KeyWasFiles
  BY DEF IInv, InWindow, KeyWasFiles
<1> QED
  BY <1>1, InitInv, NextInv, PTL DEF KeySpec

\* Nor does the cache ever pass for a content of the file it is not.
THEOREM CacheNeverStale == KeySpec => [](~back => CacheIsFile)
<1>1. IInv => (~back => CacheIsFile)
  BY DEF IInv
<1> QED
  BY <1>1, InitInv, NextInv, PTL DEF KeySpec
=============================================================================
