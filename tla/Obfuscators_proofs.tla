------------------------- MODULE Obfuscators_proofs -------------------------
(***************************************************************************)
(* Proofs about the obfuscator processes, for any number of spokes,        *)
(* configurations, pids and obfmesh-ctl processes.                         *)
(***************************************************************************)
EXTENDS Obfuscators, TLAPS

-----------------------------------------------------------------------------
(* Types *)

\* A pass that reads the settings has them; one that starts something reads them.
PassReads ==
    \A m \in Mgrs :
        /\ mode[m] \in {"reconcile", "check"} => snap[m] \in Settings
        /\ pc[m] \in {"look", "start", "spawn"} => mode[m] \in {"reconcile", "check"}

TypeInv == TypeOK /\ PassReads

LEMMA InitTypeInv == Init => TypeInv
PROOF
<1> SUFFICES ASSUME Init PROVE TypeInv
  OBVIOUS
<1>1. 1 \in Spokes
  BY SpokeMaxAssumption DEF Spokes
<1>2. TypeOK
  BY <1>1 DEF Init, TypeOK, Labels, Modes
<1>3. PassReads
  BY DEF Init, PassReads
<1> QED
  BY <1>2, <1>3 DEF TypeInv

\* The loop of a pass stays inside the spoke numbers.
LEMMA AdvanceTyped ==
  ASSUME TypeInv, NEW m \in Mgrs, Advance(m)
  PROVE  /\ pc' \in [Mgrs -> Labels]
         /\ cur' \in [Mgrs -> Spokes]
         /\ pc'[m] \in {"spoke", "end"}
         /\ \A k \in Mgrs : k # m => pc'[k] = pc[k] /\ cur'[k] = cur[k]
PROOF
<1>1. cur[m] < Last(m) => cur[m] + 1 \in Spokes
  BY SpokeMaxAssumption DEF TypeInv, TypeOK, PassReads, Last, Spokes, Settings
<1> QED
  BY <1>1 DEF TypeInv, TypeOK, Advance, Goto, Labels

\* A process the pid file names, and one that is tracked, is a pid or none.
LEMMA TrackedTyped ==
  ASSUME TypeInv, NEW i \in Spokes, NEW m \in Mgrs
  PROVE  /\ Adoptable(i) \in Pids \cup {NoPid}
         /\ Tracked(m, i) \in Pids \cup {NoPid}
         /\ PidfileAfter(m, i) \in Pids \cup {NoPid}
  BY DEF TypeInv, TypeOK, Adoptable, Tracked, PidfileAfter, Alive

\* One entry of _procs changes; everything else that is tracked stays.
LEMMA ProcsUpdate ==
  ASSUME TypeInv, NEW m \in Mgrs, NEW i \in Spokes, NEW t \in Pids \cup {NoPid},
         procs' = [procs EXCEPT ![m][i] = t]
  PROVE  /\ procs' \in [Mgrs -> [Spokes -> Pids \cup {NoPid}]]
         /\ procs'[m][i] = t
         /\ \A k \in Mgrs, j \in Spokes : k # m \/ j # i => procs'[k][j] = procs[k][j]
  BY DEF TypeInv, TypeOK

LEMMA OneIsASpoke == 1 \in Spokes
  BY SpokeMaxAssumption DEF Spokes

LEMMA ForgetTyped ==
  ASSUME TypeInv, NEW m \in Mgrs, Forget(m)
  PROVE  /\ procs' \in [Mgrs -> [Spokes -> Pids \cup {NoPid}]]
         /\ waiting' \in SUBSET Spokes
         /\ pending' \in BOOLEAN
  BY DEF Forget, TypeInv, TypeOK

LEMMA RestTyped ==
  ASSUME TypeInv, NEW m \in Mgrs, Rest(m)
  PROVE  /\ mode' \in [Mgrs -> Modes]
         /\ cur' \in [Mgrs -> Spokes]
         /\ snap' \in [Mgrs -> Settings \cup {NoSettings}]
         /\ chg' \in [Mgrs -> BOOLEAN]
         /\ new' \in [Mgrs -> Pids \cup {NoPid}]
         /\ mode'[m] = "none"
         /\ \A k \in Mgrs : k # m => mode'[k] = mode[k] /\ snap'[k] = snap[k]
  BY OneIsASpoke DEF Rest, TypeInv, TypeOK, Modes

LEMMA BeginTyped ==
  ASSUME TypeInv, NEW m \in Mgrs, NEW kind \in Modes \ {"none"}, NEW s,
         (kind = "teardown" /\ s = NoSettings) \/ s \in Settings,
         Begin(m, kind, s), pending' \in BOOLEAN
  PROVE  TypeInv'
PROOF
<1>2. TypeOK'
  BY OneIsASpoke DEF Begin, Goto, machine, TypeInv, TypeOK, Labels
<1>3. PassReads'
  BY DEF Begin, Goto, TypeInv, TypeOK, PassReads
<1> QED
  BY <1>2, <1>3 DEF TypeInv

LEMMA NextTypeInv == TypeInv /\ [Next]_vars => TypeInv'
PROOF
<1> SUFFICES ASSUME TypeInv, [Next]_vars
             PROVE  TypeInv'
  OBVIOUS
<1> USE DEF Goto, Labels, Modes
<1>0. CASE UNCHANGED vars
  BY <1>0 DEF vars, machine, control, TypeInv, TypeOK, PassReads
<1>1. ASSUME NEW p \in Pids, Die(p) PROVE TypeInv'
  BY <1>1 DEF Die, control, TypeInv, TypeOK, PassReads
<1>2. ASSUME NEW p \in Pids, ComeUp(p) PROVE TypeInv'
  <2>1. proc[p] \in Proc /\ proc[p].spoke \in Spokes
    BY <1>2 DEF ComeUp, Alive, TypeInv, TypeOK, Proc
  <2>2. conffile[proc[p].spoke] \in Confs \cup {NoConf}
    BY <2>1 DEF TypeInv, TypeOK
  <2>3. [proc[p] EXCEPT !.conf = conffile[proc[p].spoke]] \in Proc
    BY <2>1, <2>2 DEF Proc
  <2>4. proc' \in [Pids -> Proc \cup {NoProc}]
    BY <1>2, <2>3 DEF ComeUp, TypeInv, TypeOK
  <2> QED
    BY <1>2, <2>4 DEF ComeUp, control, TypeInv, TypeOK, PassReads
<1>3. ASSUME NEW m \in Mgrs, Crash(m) PROVE TypeInv'
  BY <1>3, RestTyped, ForgetTyped DEF Crash, machine, TypeInv, TypeOK, PassReads
<1>4. ASSUME NEW m \in Mgrs, EndPass(m) PROVE TypeInv'
  <2>3. /\ procs' \in [Mgrs -> [Spokes -> Pids \cup {NoPid}]]
        /\ waiting' \in SUBSET Spokes
        /\ pending' \in BOOLEAN
    <3>1. CASE UNCHANGED <<procs, waiting, pending>>
      BY <3>1 DEF TypeInv, TypeOK
    <3>2. CASE Forget(m)
      BY <3>2, ForgetTyped
    <3> QED
      BY <1>4, <3>1, <3>2 DEF EndPass
  <2>4. pc' \in [Mgrs -> Labels]
    BY <1>4 DEF EndPass, TypeInv, TypeOK
  <2>1. TypeOK'
    BY <1>4, <2>3, <2>4, RestTyped DEF EndPass, machine, TypeInv, TypeOK
  <2>2. PassReads'
    BY <1>4, RestTyped DEF EndPass, TypeInv, TypeOK, PassReads
  <2> QED
    BY <2>1, <2>2 DEF TypeInv
<1>5. ASSUME NEW m \in Mgrs, Fail(m) PROVE TypeInv'
  BY <1>5, AdvanceTyped
     DEF Fail, SpokeFails, StartFails, RecordFails, machine, TypeInv, TypeOK, PassReads
<1>6. CASE Reboot
  <2>1. TypeOK'
    BY <1>6, OneIsASpoke DEF Reboot, TypeInv, TypeOK
  <2>2. PassReads'
    BY <1>6 DEF Reboot, PassReads
  <2> QED
    BY <2>1, <2>2 DEF TypeInv
<1>7. CASE PatchSettings
  BY <1>7 DEF PatchSettings, machine, control, TypeInv, TypeOK, PassReads
<1>8. CASE SettingsUnavailable
  BY <1>8 DEF SettingsUnavailable, machine, TypeInv, TypeOK, PassReads, Mgrs
<1>9. CASE StartService \/ BeginReconcile \/ BeginCheck \/ Shutdown
  BY <1>9, BeginTyped
     DEF StartService, BeginReconcile, BeginCheck, Shutdown, TypeInv, TypeOK, Mgrs
<1>10. ASSUME NEW m \in Mgrs, RunReconcile(m) \/ RunTeardown(m) PROVE TypeInv'
  BY <1>10, BeginTyped DEF RunReconcile, RunTeardown, TypeInv, TypeOK
<1>11. ASSUME NEW i \in Spokes, BackoffOver(i) PROVE TypeInv'
  BY <1>11 DEF BackoffOver, machine, control, TypeInv, TypeOK, PassReads
<1>12. ASSUME NEW m \in Mgrs, WriteConfig(m) PROVE TypeInv'
  BY <1>12 DEF WriteConfig, Wanted, Settings, TypeInv, TypeOK, PassReads
<1>13. ASSUME NEW m \in Mgrs, Look(m) PROVE TypeInv'
  BY <1>13, AdvanceTyped, TrackedTyped DEF Look, TypeInv, TypeOK, PassReads
<1>14. ASSUME NEW m \in Mgrs, TearDown(m) PROVE TypeInv'
  BY <1>14, AdvanceTyped, TrackedTyped DEF TearDown, TypeInv, TypeOK, PassReads
<1>15. ASSUME NEW m \in Mgrs, Clear(m) PROVE TypeInv'
  BY <1>15, AdvanceTyped DEF Clear, TypeInv, TypeOK, PassReads
<1>16. ASSUME NEW m \in Mgrs, CheckSpoke(m) PROVE TypeInv'
  <2>1. Tracked(m, cur[m]) \in Pids \cup {NoPid} /\ cur[m] \in Spokes
    BY TrackedTyped DEF TypeInv, TypeOK
  <2>2. procs' \in [Mgrs -> [Spokes -> Pids \cup {NoPid}]]
    <3>1. PICK t \in Pids \cup {NoPid} : procs' = [procs EXCEPT ![m][cur[m]] = t]
      BY <1>16, <2>1 DEF CheckSpoke
    <3> QED
      BY <3>1, <2>1, ProcsUpdate
  <2>3. pidfile' \in [Spokes -> Pids \cup {NoPid}] /\ waiting' \in SUBSET Spokes
    BY <1>16, <2>1 DEF CheckSpoke, TypeInv, TypeOK
  <2>4. pc' \in [Mgrs -> Labels] /\ cur' \in [Mgrs -> Spokes]
    BY <1>16, AdvanceTyped DEF CheckSpoke, TypeInv, TypeOK
  <2>5. PassReads'
    BY <1>16, AdvanceTyped DEF CheckSpoke, TypeInv, TypeOK, PassReads
  <2> QED
    BY <1>16, <2>2, <2>3, <2>4, <2>5 DEF CheckSpoke, TypeInv, TypeOK
<1>17. ASSUME NEW m \in Mgrs, Stop(m) PROVE TypeInv'
  BY <1>17 DEF Stop, TypeInv, TypeOK, PassReads
<1>18. ASSUME NEW m \in Mgrs, Unlink(m) PROVE TypeInv'
  BY <1>18, AdvanceTyped DEF Unlink, Wanted, TypeInv, TypeOK, PassReads
<1>19. ASSUME NEW m \in Mgrs, StartAdopts(m) PROVE TypeInv'
  <2>1. Adoptable(cur[m]) \in Pids \cup {NoPid} /\ cur[m] \in Spokes
    BY TrackedTyped DEF TypeInv, TypeOK
  <2>2. procs' \in [Mgrs -> [Spokes -> Pids \cup {NoPid}]]
    <3>1. CASE UNCHANGED procs
      BY <3>1 DEF TypeInv, TypeOK
    <3>2. CASE procs' = [procs EXCEPT ![m][cur[m]] = Adoptable(cur[m])]
      BY <3>2, <2>1, ProcsUpdate
    <3> QED
      BY <1>19, <3>1, <3>2 DEF StartAdopts
  <2>5. pidfile' \in [Spokes -> Pids \cup {NoPid}]
    BY <1>19, <2>1 DEF StartAdopts, TypeInv, TypeOK
  <2>3. pc' \in [Mgrs -> Labels] /\ cur' \in [Mgrs -> Spokes]
    BY <1>19, AdvanceTyped DEF StartAdopts, TypeInv, TypeOK
  <2>4. PassReads'
    BY <1>19, AdvanceTyped DEF StartAdopts, TypeInv, TypeOK, PassReads
  <2> QED
    BY <1>19, <2>2, <2>3, <2>4, <2>5 DEF StartAdopts, TypeInv, TypeOK
<1>20. ASSUME NEW m \in Mgrs, Spawn(m) PROVE TypeInv'
  BY <1>20 DEF Spawn, FreePids, Proc, Settings, TypeInv, TypeOK, PassReads
<1>21. ASSUME NEW m \in Mgrs, Settle(m) PROVE TypeInv'
  <2>1. procs' \in [Mgrs -> [Spokes -> Pids \cup {NoPid}]]
    <3>1. CASE UNCHANGED procs
      BY <3>1 DEF TypeInv, TypeOK
    <3>2. CASE procs' = [procs EXCEPT ![m][cur[m]] = new[m]]
      <4>1. cur[m] \in Spokes /\ new[m] \in Pids \cup {NoPid}
        BY DEF TypeInv, TypeOK
      <4> QED
        BY <3>2, <4>1, ProcsUpdate
    <3> QED
      BY <1>21, <3>1, <3>2 DEF Settle
  <2>2. new' \in [Mgrs -> Pids \cup {NoPid}]
    BY <1>21 DEF Settle, TypeInv, TypeOK
  <2>3. pc' \in [Mgrs -> Labels] /\ cur' \in [Mgrs -> Spokes]
    BY <1>21, AdvanceTyped DEF Settle, TypeInv, TypeOK
  <2>4. PassReads'
    BY <1>21, AdvanceTyped DEF Settle, TypeInv, TypeOK, PassReads
  <2> QED
    BY <1>21, <2>1, <2>2, <2>3, <2>4 DEF Settle, machine, TypeInv, TypeOK
<1>22. ASSUME NEW m \in Mgrs, Record(m) PROVE TypeInv'
  BY <1>22, AdvanceTyped DEF Record, TypeInv, TypeOK, PassReads
<1> QED
  BY <1>0, <1>1, <1>2, <1>3, <1>4, <1>5, <1>6, <1>7, <1>8, <1>9, <1>10, <1>11, <1>12,
     <1>13, <1>14, <1>15, <1>16, <1>17, <1>18, <1>19, <1>20, <1>21, <1>22
     DEF Next, Disturb, Step

\* Every variable keeps its type, and with it every loop of a pass stays inside
\* the spoke numbers and every step that needs the settings has read them.
THEOREM TypeCorrect == Spec => []TypeOK
PROOF
<1>1. TypeInv => TypeOK
  BY DEF TypeInv
<1> QED
  BY InitTypeInv, NextTypeInv, <1>1, PTL DEF Spec

-----------------------------------------------------------------------------
(* No obfuscator is lost, no spoke has two *)

\* What the following needs of the surroundings: managers do not overlap, none
\* is killed between Popen and the pid file, and pid files can be written.
Sheltered ==
    /\ Overlap = FALSE
    /\ CrashAt \cap {"settle", "record"} = {}
    /\ "record" \notin FailAt

\* One manager at a time, and nothing in the memory of the others.
Solo == \A m, k \in Mgrs : pc[m] # "down" /\ pc[k] # "down" => m = k
Forgotten(m) == new[m] = NoPid /\ \A i \in Spokes : procs[m][i] = NoPid
DownForgets == \A m \in Mgrs : pc[m] = "down" => Forgotten(m)

\* The Popen a manager waits on.
Settling(m) ==
    /\ pc[m] = "settle" <=> new[m] \in Pids
    /\ Alive(new[m]) => proc[new[m]].spoke = cur[m]

\* What is tracked is on file as well, except while it is being recorded.
OnFile(m) ==
    \A i \in Spokes : procs[m][i] # NoPid =>
        /\ pidfile[i] \in {procs[m][i], NoPid}
        /\ Alive(procs[m][i]) =>
              /\ proc[procs[m][i]].spoke = i
              /\ pidfile[i] = procs[m][i] \/ (pc[m] = "record" /\ cur[m] = i)

\* Where a pass is about to start, or has just stopped, there is nothing.
Vacant(m) ==
    /\ pc[m] \in {"unlink", "clear", "start", "spawn"} =>
          \A p \in Pids : Alive(p) => proc[p].spoke # cur[m]
    /\ pc[m] \in {"spawn", "settle", "record"} => pidfile[cur[m]] = NoPid
    /\ pc[m] = "stop" => procs[m][cur[m]] # NoPid

\* A process being started, by its manager.
Starting(m, p) ==
    \/ pc[m] = "settle" /\ new[m] = p
    \/ pc[m] = "record" /\ cur[m] = proc[p].spoke /\ procs[m][cur[m]] = p

OnFileOr(m, p) == pidfile[proc[p].spoke] = p \/ Starting(m, p)

\* Every live obfuscator is on file, except while it is being started.
Named == \A p \in Pids : Alive(p) =>
            pidfile[proc[p].spoke] = p \/ \E m \in Mgrs : Starting(m, p)

ProcInv ==
    /\ Solo
    /\ DownForgets
    /\ \A m \in Mgrs : Settling(m) /\ OnFile(m) /\ Vacant(m)
    /\ Named

\* The invariant as the one manager in a pass sees it.
SoloInv(m) ==
    /\ Settling(m) /\ OnFile(m) /\ Vacant(m)
    /\ \A p \in Pids : Alive(p) => OnFileOr(m, p)

\* A step inside a pass of m: m stays in the pass, the others are not touched.
Within(m) ==
    /\ pc[m] # "down" /\ pc'[m] # "down"
    /\ \A k \in Mgrs : k # m =>
          pc'[k] = pc[k] /\ cur'[k] = cur[k] /\ new'[k] = new[k] /\ procs'[k] = procs[k]

LEMMA ToSolo ==
  ASSUME ProcInv, NEW m \in Mgrs, pc[m] # "down"
  PROVE  /\ SoloInv(m)
         /\ \A k \in Mgrs : k # m => pc[k] = "down" /\ Forgotten(k)
PROOF
<1>1. \A k \in Mgrs : k # m => pc[k] = "down"
  BY DEF ProcInv, Solo
<1>2. \A p \in Pids : Alive(p) => OnFileOr(m, p)
  BY <1>1 DEF ProcInv, Named, Starting, OnFileOr
<1> QED
  BY <1>1, <1>2 DEF ProcInv, SoloInv, DownForgets

LEMMA FromSolo ==
  ASSUME ProcInv, NEW m \in Mgrs, Within(m), SoloInv(m)'
  PROVE  ProcInv'
PROOF
<1>1. \A k \in Mgrs : k # m => pc'[k] = "down" /\ Forgotten(k)'
  BY ToSolo DEF Within, Forgotten
<1>2. Solo' /\ DownForgets'
  BY <1>1 DEF Within, Solo, DownForgets
<1>3. ASSUME NEW k \in Mgrs, k # m
      PROVE  Settling(k)' /\ OnFile(k)' /\ Vacant(k)'
  BY <1>1, <1>3, NullAssumption DEF Settling, OnFile, Vacant, Forgotten, Alive
<1>4. Named'
  BY DEF SoloInv, OnFileOr, Named
<1> QED
  BY <1>2, <1>3, <1>4 DEF ProcInv, SoloInv

\* Outside the start of a process the manager in a pass tracks, or would adopt,
\* whatever lives on a spoke.
LEMMA OnlyOne ==
  ASSUME TypeInv, NEW m \in Mgrs, SoloInv(m), pc[m] \notin {"settle", "record"},
         NEW p \in Pids, Alive(p)
  PROVE  /\ proc[p].spoke \in Spokes
         /\ pidfile[proc[p].spoke] = p
         /\ Adoptable(proc[p].spoke) = p
         /\ Tracked(m, proc[p].spoke) = p
         /\ PidfileAfter(m, proc[p].spoke) = p
PROOF
<1>1. proc[p].spoke \in Spokes
  BY DEF TypeInv, TypeOK, Alive, Proc
<1>2. pidfile[proc[p].spoke] = p
  BY DEF SoloInv, OnFileOr, Starting
<1>3. Adoptable(proc[p].spoke) = p
  BY <1>2 DEF Adoptable
<1>4. procs[m][proc[p].spoke] \in {p, NoPid}
  BY <1>1, <1>2, NullAssumption DEF SoloInv, OnFile
<1> QED
  BY <1>1, <1>2, <1>3, <1>4 DEF Tracked, PidfileAfter

\* What is tracked or adopted is on file after it, under its own spoke.
LEMMA TrackedOnFile ==
  ASSUME TypeInv, NEW m \in Mgrs, SoloInv(m), pc[m] # "record", NEW i \in Spokes,
         Tracked(m, i) # NoPid
  PROVE  /\ PidfileAfter(m, i) \in {Tracked(m, i), NoPid}
         /\ Alive(Tracked(m, i)) => /\ proc[Tracked(m, i)].spoke = i
                                    /\ PidfileAfter(m, i) = Tracked(m, i)
                                    /\ pidfile[i] = Tracked(m, i)
  BY NullAssumption DEF SoloInv, OnFile, Tracked, PidfileAfter, Adoptable, Alive

LEMMA InitProcInv == Init => ProcInv
  BY NullAssumption
     DEF Init, ProcInv, Solo, DownForgets, Forgotten, Settling, OnFile, Named, Vacant, Alive

-----------------------------------------------------------------------------
(* Each step of a pass keeps the invariant *)

LEMMA SpokeFailsKeeps ==
  ASSUME TypeInv, TypeInv', ProcInv, NEW m \in Mgrs, SpokeFails(m)
  PROVE  ProcInv'
PROOF
<1> USE DEF Goto
<1>1. SoloInv(m) /\ cur[m] \in Spokes
  BY ToSolo DEF SpokeFails, machine, TypeInv, TypeOK
<1>2. Within(m)
  BY AdvanceTyped DEF SpokeFails, machine, Within, TypeInv, TypeOK
<1>3. Settling(m)'
  BY <1>1, AdvanceTyped, NullAssumption DEF SpokeFails, machine, SoloInv, Settling, Alive, TypeInv, TypeOK
<1>4. OnFile(m)'
  BY <1>1, AdvanceTyped, NullAssumption
     DEF SpokeFails, machine, SoloInv, OnFile, Vacant, Alive, TypeInv, TypeOK
<1>5. Vacant(m)'
  BY <1>1, AdvanceTyped, OnlyOne, NullAssumption
     DEF SpokeFails, machine, SoloInv, Vacant, Alive, TypeInv, TypeOK
<1>6. \A p \in Pids : Alive(p)' => OnFileOr(m, p)'
  BY <1>1, AdvanceTyped, OnlyOne, NullAssumption
     DEF SpokeFails, machine, SoloInv, Vacant, OnFileOr, Starting, Alive, TypeInv, TypeOK
<1> QED
  BY <1>2, <1>3, <1>4, <1>5, <1>6, FromSolo DEF SoloInv

LEMMA StartFailsKeeps ==
  ASSUME TypeInv, TypeInv', ProcInv, NEW m \in Mgrs, StartFails(m)
  PROVE  ProcInv'
PROOF
<1> USE DEF Goto
<1>1. SoloInv(m) /\ cur[m] \in Spokes
  BY ToSolo DEF StartFails, machine, TypeInv, TypeOK
<1>2. Within(m)
  BY AdvanceTyped DEF StartFails, machine, Within, TypeInv, TypeOK
<1>3. Settling(m)'
  BY <1>1, AdvanceTyped, NullAssumption DEF StartFails, machine, SoloInv, Settling, Alive, TypeInv, TypeOK
<1>4. OnFile(m)'
  BY <1>1, AdvanceTyped, NullAssumption
     DEF StartFails, machine, SoloInv, OnFile, Vacant, Alive, TypeInv, TypeOK
<1>5. Vacant(m)'
  BY <1>1, AdvanceTyped, OnlyOne, NullAssumption
     DEF StartFails, machine, SoloInv, Vacant, Alive, TypeInv, TypeOK
<1>6. \A p \in Pids : Alive(p)' => OnFileOr(m, p)'
  BY <1>1, AdvanceTyped, OnlyOne, NullAssumption
     DEF StartFails, machine, SoloInv, Vacant, OnFileOr, Starting, Alive, TypeInv, TypeOK
<1> QED
  BY <1>2, <1>3, <1>4, <1>5, <1>6, FromSolo DEF SoloInv

LEMMA WriteConfigKeeps ==
  ASSUME TypeInv, TypeInv', ProcInv, NEW m \in Mgrs, WriteConfig(m)
  PROVE  ProcInv'
PROOF
<1> USE DEF Goto
<1>1. SoloInv(m) /\ cur[m] \in Spokes
  BY ToSolo DEF WriteConfig, TypeInv, TypeOK
<1>2. Within(m)
  BY AdvanceTyped DEF WriteConfig, Within, TypeInv, TypeOK
<1>3. Settling(m)'
  BY <1>1, AdvanceTyped, NullAssumption DEF WriteConfig, SoloInv, Settling, Alive, TypeInv, TypeOK
<1>4. OnFile(m)'
  BY <1>1, AdvanceTyped, NullAssumption
     DEF WriteConfig, SoloInv, OnFile, Vacant, Alive, TypeInv, TypeOK
<1>5. Vacant(m)'
  BY <1>1, AdvanceTyped, OnlyOne, NullAssumption
     DEF WriteConfig, SoloInv, Vacant, Alive, TypeInv, TypeOK
<1>6. \A p \in Pids : Alive(p)' => OnFileOr(m, p)'
  BY <1>1, AdvanceTyped, OnlyOne, NullAssumption
     DEF WriteConfig, SoloInv, Vacant, OnFileOr, Starting, Alive, TypeInv, TypeOK
<1> QED
  BY <1>2, <1>3, <1>4, <1>5, <1>6, FromSolo DEF SoloInv

LEMMA LookKeeps ==
  ASSUME TypeInv, TypeInv', ProcInv, NEW m \in Mgrs, Look(m)
  PROVE  ProcInv'
PROOF
<1> USE DEF Goto
<1>1. SoloInv(m) /\ cur[m] \in Spokes
  BY ToSolo DEF Look, TypeInv, TypeOK
<1>2. Within(m)
  BY AdvanceTyped DEF Look, Within, TypeInv, TypeOK
<1>3. Settling(m)'
  BY <1>1, AdvanceTyped, NullAssumption DEF Look, SoloInv, Settling, Alive, TypeInv, TypeOK
<1>7. Tracked(m, cur[m]) \in Pids \cup {NoPid}
  BY <1>1, TrackedTyped
<1>8. /\ procs'[m][cur[m]] = Tracked(m, cur[m])
      /\ \A j \in Spokes : j # cur[m] => procs'[m][j] = procs[m][j]
  BY <1>1 DEF Look, TypeInv, TypeOK
<1>9. /\ pidfile'[cur[m]] = PidfileAfter(m, cur[m])
      /\ \A j \in Spokes : j # cur[m] => pidfile'[j] = pidfile[j]
  BY <1>1 DEF Look, TypeInv, TypeOK
<1>4. OnFile(m)'
  <2> SUFFICES ASSUME NEW j \in Spokes, procs'[m][j] # NoPid
               PROVE  /\ pidfile'[j] \in {procs'[m][j], NoPid}
                      /\ Alive(procs'[m][j]) => /\ proc[procs'[m][j]].spoke = j
                                                /\ pidfile'[j] = procs'[m][j]
    BY DEF OnFile, Look, Alive
  <2>1. CASE j = cur[m]
    BY <1>1, <1>7, <1>8, <1>9, <2>1, TrackedOnFile DEF Look
  <2>2. CASE j # cur[m]
    BY <1>1, <1>8, <1>9, <2>2 DEF Look, SoloInv, OnFile
  <2> QED
    BY <2>1, <2>2
<1>5. Vacant(m)'
  <2>1. CASE Alive(Tracked(m, cur[m]))
    <3>1. pc'[m] \in {"spoke", "end"} \/ (pc'[m] = "stop" /\ cur'[m] = cur[m])
      BY <2>1 DEF Look, Advance, TypeInv, TypeOK
    <3>2. Tracked(m, cur[m]) # NoPid
      BY <2>1, NullAssumption DEF Alive
    <3> QED
      BY <3>1, <3>2, <1>8 DEF Vacant
  <2>2. CASE ~Alive(Tracked(m, cur[m]))
    BY <1>1, <2>2, OnlyOne DEF Look, Vacant, Alive, TypeInv, TypeOK
  <2> QED
    BY <2>1, <2>2
<1>6. \A p \in Pids : Alive(p)' => OnFileOr(m, p)'
  BY <1>1, <1>9, OnlyOne DEF Look, OnFileOr, Alive
<1> QED
  BY <1>2, <1>3, <1>4, <1>5, <1>6, FromSolo DEF SoloInv

LEMMA TearDownKeeps ==
  ASSUME TypeInv, TypeInv', ProcInv, NEW m \in Mgrs, TearDown(m)
  PROVE  ProcInv'
PROOF
<1> USE DEF Goto
<1>1. SoloInv(m) /\ cur[m] \in Spokes
  BY ToSolo DEF TearDown, TypeInv, TypeOK
<1>2. Within(m)
  BY AdvanceTyped DEF TearDown, Within, TypeInv, TypeOK
<1>3. Settling(m)'
  BY <1>1, AdvanceTyped, NullAssumption DEF TearDown, SoloInv, Settling, Alive, TypeInv, TypeOK
<1>7. Tracked(m, cur[m]) \in Pids \cup {NoPid}
  BY <1>1, TrackedTyped
<1>8. /\ procs'[m][cur[m]] = Tracked(m, cur[m])
      /\ \A j \in Spokes : j # cur[m] => procs'[m][j] = procs[m][j]
  BY <1>1 DEF TearDown, TypeInv, TypeOK
<1>9. /\ pidfile'[cur[m]] = PidfileAfter(m, cur[m])
      /\ \A j \in Spokes : j # cur[m] => pidfile'[j] = pidfile[j]
  BY <1>1 DEF TearDown, TypeInv, TypeOK
<1>4. OnFile(m)'
  <2> SUFFICES ASSUME NEW j \in Spokes, procs'[m][j] # NoPid
               PROVE  /\ pidfile'[j] \in {procs'[m][j], NoPid}
                      /\ Alive(procs'[m][j]) => /\ proc[procs'[m][j]].spoke = j
                                                /\ pidfile'[j] = procs'[m][j]
    BY DEF OnFile, TearDown, Alive
  <2>1. CASE j = cur[m]
    BY <1>1, <1>7, <1>8, <1>9, <2>1, TrackedOnFile DEF TearDown
  <2>2. CASE j # cur[m]
    BY <1>1, <1>8, <1>9, <2>2 DEF TearDown, SoloInv, OnFile
  <2> QED
    BY <2>1, <2>2
<1>5. Vacant(m)'
  <2>1. CASE Tracked(m, cur[m]) # NoPid
    BY <1>1, <1>8, <2>1 DEF TearDown, Vacant, TypeInv, TypeOK
  <2>2. CASE Tracked(m, cur[m]) = NoPid
    <3>1. \A p \in Pids : Alive(p) => proc[p].spoke # cur[m]
      BY <1>1, <2>2, OnlyOne, NullAssumption DEF TearDown
    <3>2. pc'[m] \in {"clear", "spoke", "end"}
      BY <2>2, AdvanceTyped DEF TearDown, TypeInv, TypeOK
    <3>3. pc'[m] = "clear" => cur'[m] = cur[m]
      BY <2>2, AdvanceTyped DEF TearDown, TypeInv, TypeOK
    <3> QED
      BY <3>1, <3>2, <3>3 DEF TearDown, Vacant, Alive
  <2> QED
    BY <2>1, <2>2
<1>6. \A p \in Pids : Alive(p)' => OnFileOr(m, p)'
  BY <1>1, <1>9, OnlyOne DEF TearDown, OnFileOr, Alive
<1> QED
  BY <1>2, <1>3, <1>4, <1>5, <1>6, FromSolo DEF SoloInv

LEMMA ClearKeeps ==
  ASSUME TypeInv, TypeInv', ProcInv, NEW m \in Mgrs, Clear(m)
  PROVE  ProcInv'
PROOF
<1> USE DEF Goto
<1>1. SoloInv(m) /\ cur[m] \in Spokes
  BY ToSolo DEF Clear, TypeInv, TypeOK
<1>2. Within(m)
  BY AdvanceTyped DEF Clear, Within, TypeInv, TypeOK
<1>3. Settling(m)'
  BY <1>1, AdvanceTyped, NullAssumption DEF Clear, SoloInv, Settling, Alive, TypeInv, TypeOK
<1>4. OnFile(m)'
  BY <1>1, AdvanceTyped, NullAssumption
     DEF Clear, SoloInv, OnFile, Vacant, Alive, TypeInv, TypeOK
<1>5. Vacant(m)'
  BY <1>1, AdvanceTyped, OnlyOne, NullAssumption
     DEF Clear, SoloInv, Vacant, Alive, TypeInv, TypeOK
<1>6. \A p \in Pids : Alive(p)' => OnFileOr(m, p)'
  BY <1>1, AdvanceTyped, OnlyOne, NullAssumption
     DEF Clear, SoloInv, Vacant, OnFileOr, Starting, Alive, TypeInv, TypeOK
<1> QED
  BY <1>2, <1>3, <1>4, <1>5, <1>6, FromSolo DEF SoloInv

LEMMA CheckSpokeKeeps ==
  ASSUME TypeInv, TypeInv', ProcInv, NEW m \in Mgrs, CheckSpoke(m)
  PROVE  ProcInv'
PROOF
<1> USE DEF Goto
<1>1. SoloInv(m) /\ cur[m] \in Spokes
  BY ToSolo DEF CheckSpoke, TypeInv, TypeOK
<1>2. Within(m)
  BY AdvanceTyped DEF CheckSpoke, Within, TypeInv, TypeOK
<1>3. Settling(m)'
  BY <1>1, AdvanceTyped, NullAssumption DEF CheckSpoke, SoloInv, Settling, Alive, TypeInv, TypeOK
<1>7. Tracked(m, cur[m]) \in Pids \cup {NoPid}
  BY <1>1, TrackedTyped
<1>10. CASE Alive(Tracked(m, cur[m]))
  <2>1. /\ procs'[m][cur[m]] = Tracked(m, cur[m])
        /\ \A j \in Spokes : j # cur[m] => procs'[m][j] = procs[m][j]
    BY <1>1, <1>7, <1>10, ProcsUpdate DEF CheckSpoke
  <2>2. pidfile' = pidfile /\ proc' = proc /\ pc'[m] \in {"spoke", "end"}
    BY <1>10, AdvanceTyped DEF CheckSpoke
  <2>3. OnFile(m)'
    <3> SUFFICES ASSUME NEW j \in Spokes, procs'[m][j] # NoPid
                 PROVE  /\ pidfile[j] \in {procs'[m][j], NoPid}
                        /\ Alive(procs'[m][j]) => /\ proc[procs'[m][j]].spoke = j
                                                  /\ pidfile[j] = procs'[m][j]
      BY <2>2 DEF OnFile, Alive
    <3>1. CASE j = cur[m]
      BY <1>1, <1>7, <1>10, <2>1, <3>1, TrackedOnFile, NullAssumption DEF CheckSpoke, Alive
    <3>2. CASE j # cur[m]
      BY <1>1, <2>1, <3>2 DEF CheckSpoke, SoloInv, OnFile
    <3> QED
      BY <3>1, <3>2
  <2>4. Vacant(m)' /\ \A p \in Pids : Alive(p)' => OnFileOr(m, p)'
    BY <1>1, <2>2, OnlyOne DEF CheckSpoke, Vacant, OnFileOr, Alive
  <2> QED
    BY <1>2, <1>3, <2>3, <2>4, FromSolo DEF SoloInv
<1>11. CASE ~Alive(Tracked(m, cur[m]))
  <2>1. /\ procs'[m][cur[m]] = NoPid
        /\ \A j \in Spokes : j # cur[m] => procs'[m][j] = procs[m][j]
    BY <1>1, <1>11, ProcsUpdate DEF CheckSpoke
  <2>2. /\ proc' = proc /\ pc'[m] \in {"spoke", "start", "end"}
        /\ pc'[m] = "start" => cur'[m] = cur[m]
        /\ pidfile'[cur[m]] = NoPid
        /\ \A j \in Spokes : j # cur[m] => pidfile'[j] = pidfile[j]
    BY <1>1, <1>11, AdvanceTyped DEF CheckSpoke, TypeInv, TypeOK
  <2>3. \A p \in Pids : Alive(p) => proc[p].spoke # cur[m] /\ proc[p].spoke \in Spokes
    BY <1>1, <1>11, OnlyOne DEF CheckSpoke
  <2>4. OnFile(m)'
    BY <1>1, <2>1, <2>2 DEF CheckSpoke, SoloInv, OnFile, Alive
  <2>5. Vacant(m)'
    BY <2>2, <2>3 DEF Vacant, Alive
  <2>6. \A p \in Pids : Alive(p)' => OnFileOr(m, p)'
    BY <1>1, <2>2, <2>3, OnlyOne DEF CheckSpoke, OnFileOr, Alive
  <2> QED
    BY <1>2, <1>3, <2>4, <2>5, <2>6, FromSolo DEF SoloInv
<1> QED
  BY <1>10, <1>11

LEMMA StopKeeps ==
  ASSUME TypeInv, TypeInv', ProcInv, NEW m \in Mgrs, Stop(m)
  PROVE  ProcInv'
PROOF
<1> USE DEF Goto
<1>1. SoloInv(m) /\ cur[m] \in Spokes
  BY ToSolo DEF Stop, TypeInv, TypeOK
<1>2. Within(m)
  BY AdvanceTyped DEF Stop, Within, TypeInv, TypeOK
<1>3. Settling(m)'
  BY <1>1, AdvanceTyped, NullAssumption DEF Stop, SoloInv, Settling, Alive, TypeInv, TypeOK
<1>4. OnFile(m)'
  BY <1>1, AdvanceTyped, NullAssumption
     DEF Stop, SoloInv, OnFile, Vacant, Alive, TypeInv, TypeOK
<1>5. Vacant(m)'
  <2> SUFFICES ASSUME NEW p \in Pids, Alive(p)' PROVE proc'[p].spoke # cur[m]
    BY <1>1 DEF Stop, Vacant, TypeInv, TypeOK
  <2>1. Alive(p) /\ proc'[p] = proc[p]
    BY DEF Stop, Alive, TypeInv, TypeOK
  <2>2. procs[m][cur[m]] = p => ~Alive(p)'
    BY DEF Stop, Alive, TypeInv, TypeOK
  <2>3. proc[p].spoke = cur[m] => pidfile[cur[m]] = p
    BY <1>1, <2>1, OnlyOne DEF Stop
  <2>4. procs[m][cur[m]] # NoPid
    BY <1>1 DEF Stop, SoloInv, Vacant
  <2>5. pidfile[cur[m]] \in {procs[m][cur[m]], NoPid}
    BY <1>1, <2>4 DEF SoloInv, OnFile
  <2> QED
    BY <2>1, <2>2, <2>3, <2>5, NullAssumption
<1>6. \A p \in Pids : Alive(p)' => OnFileOr(m, p)'
  BY <1>1, AdvanceTyped, OnlyOne, NullAssumption
     DEF Stop, SoloInv, Vacant, OnFileOr, Starting, Alive, TypeInv, TypeOK
<1> QED
  BY <1>2, <1>3, <1>4, <1>5, <1>6, FromSolo DEF SoloInv

LEMMA UnlinkKeeps ==
  ASSUME TypeInv, TypeInv', ProcInv, NEW m \in Mgrs, Unlink(m)
  PROVE  ProcInv'
PROOF
<1> USE DEF Goto
<1>1. SoloInv(m) /\ cur[m] \in Spokes
  BY ToSolo DEF Unlink, Wanted, TypeInv, TypeOK
<1>2. Within(m)
  BY AdvanceTyped DEF Unlink, Wanted, Within, TypeInv, TypeOK
<1>3. Settling(m)'
  BY <1>1, AdvanceTyped, NullAssumption DEF Unlink, Wanted, SoloInv, Settling, Alive, TypeInv, TypeOK
<1>4. OnFile(m)'
  BY <1>1, AdvanceTyped, NullAssumption
     DEF Unlink, Wanted, SoloInv, OnFile, Vacant, Alive, TypeInv, TypeOK
<1>5. Vacant(m)'
  BY <1>1, AdvanceTyped, OnlyOne, NullAssumption
     DEF Unlink, Wanted, SoloInv, Vacant, Alive, TypeInv, TypeOK
<1>6. \A p \in Pids : Alive(p)' => OnFileOr(m, p)'
  BY <1>1, AdvanceTyped, OnlyOne, NullAssumption
     DEF Unlink, Wanted, SoloInv, Vacant, OnFileOr, Starting, Alive, TypeInv, TypeOK
<1> QED
  BY <1>2, <1>3, <1>4, <1>5, <1>6, FromSolo DEF SoloInv

LEMMA StartAdoptsKeeps ==
  ASSUME TypeInv, TypeInv', ProcInv, NEW m \in Mgrs, StartAdopts(m)
  PROVE  ProcInv'
PROOF
<1> USE DEF Goto
<1>1. SoloInv(m) /\ cur[m] \in Spokes
  BY ToSolo DEF StartAdopts, TypeInv, TypeOK
<1>2. Within(m)
  BY AdvanceTyped DEF StartAdopts, Within, TypeInv, TypeOK
<1>3. Settling(m)'
  BY <1>1, AdvanceTyped, NullAssumption DEF StartAdopts, SoloInv, Settling, Alive, TypeInv, TypeOK
<1>7. \A p \in Pids : Alive(p) => proc[p].spoke # cur[m] /\ proc[p].spoke \in Spokes
  BY <1>1, OnlyOne DEF StartAdopts, SoloInv, Vacant
<1>8. Adoptable(cur[m]) = NoPid
  BY <1>7 DEF Adoptable, Alive
<1>9. /\ pc'[m] = "spawn" /\ cur' = cur /\ procs' = procs /\ proc' = proc
      /\ pidfile'[cur[m]] = NoPid
      /\ \A j \in Spokes : j # cur[m] => pidfile'[j] = pidfile[j]
  BY <1>1, <1>8 DEF StartAdopts, TypeInv, TypeOK
<1>4. OnFile(m)'
  BY <1>1, <1>7, <1>9 DEF StartAdopts, SoloInv, OnFile, Alive
<1>5. Vacant(m)'
  BY <1>7, <1>9 DEF Vacant, Alive
<1>6. \A p \in Pids : Alive(p)' => OnFileOr(m, p)'
  BY <1>1, <1>7, <1>9, OnlyOne DEF StartAdopts, OnFileOr, Alive
<1> QED
  BY <1>2, <1>3, <1>4, <1>5, <1>6, FromSolo DEF SoloInv

LEMMA SpawnKeeps ==
  ASSUME TypeInv, TypeInv', ProcInv, NEW m \in Mgrs, Spawn(m)
  PROVE  ProcInv'
PROOF
<1> USE DEF Goto
<1>1. SoloInv(m) /\ cur[m] \in Spokes
  BY ToSolo DEF Spawn, FreePids, TypeInv, TypeOK
<1>2. Within(m)
  BY AdvanceTyped DEF Spawn, FreePids, Within, TypeInv, TypeOK
<1>3. Settling(m)'
  BY <1>1, AdvanceTyped, NullAssumption DEF Spawn, FreePids, SoloInv, Settling, Alive, TypeInv, TypeOK
<1>4. OnFile(m)'
  BY <1>1, AdvanceTyped, NullAssumption
     DEF Spawn, FreePids, SoloInv, OnFile, Vacant, Alive, TypeInv, TypeOK
<1>5. Vacant(m)'
  BY <1>1, AdvanceTyped, OnlyOne, NullAssumption
     DEF Spawn, FreePids, SoloInv, Vacant, Alive, TypeInv, TypeOK
<1>6. \A p \in Pids : Alive(p)' => OnFileOr(m, p)'
  BY <1>1, AdvanceTyped, OnlyOne, NullAssumption
     DEF Spawn, FreePids, SoloInv, Vacant, OnFileOr, Starting, Alive, TypeInv, TypeOK
<1> QED
  BY <1>2, <1>3, <1>4, <1>5, <1>6, FromSolo DEF SoloInv

LEMMA SettleKeeps ==
  ASSUME TypeInv, TypeInv', ProcInv, NEW m \in Mgrs, Settle(m)
  PROVE  ProcInv'
PROOF
<1> USE DEF Goto
<1>1. SoloInv(m) /\ cur[m] \in Spokes
  BY ToSolo DEF Settle, machine, Running, TypeInv, TypeOK
<1>2. Within(m)
  BY AdvanceTyped DEF Settle, machine, Running, Within, TypeInv, TypeOK
<1>3. Settling(m)'
  BY <1>1, AdvanceTyped, NullAssumption DEF Settle, machine, Running, SoloInv, Settling, Alive, TypeInv, TypeOK
<1>7. CASE ~Alive(new[m])
  <2>1. procs' = procs /\ pidfile' = pidfile /\ proc' = proc /\ pc'[m] \in {"spoke", "end"}
    BY <1>7, AdvanceTyped DEF Settle, Running, machine
  <2>2. OnFile(m)' /\ Vacant(m)'
    BY <1>1, <2>1 DEF Settle, SoloInv, OnFile, Vacant, Alive
  <2>3. \A p \in Pids : Alive(p)' => OnFileOr(m, p)'
    BY <1>1, <1>7, <2>1 DEF Settle, SoloInv, OnFileOr, Starting, Alive
  <2> QED
    BY <1>2, <1>3, <2>2, <2>3, FromSolo DEF SoloInv
<1>8. CASE Alive(new[m])
  <2>1. /\ pidfile' = pidfile /\ proc' = proc /\ pc'[m] = "record" /\ cur' = cur
        /\ procs' = [procs EXCEPT ![m][cur[m]] = new[m]]
    BY <1>8 DEF Settle, Running, machine, TypeInv, TypeOK
  <2>2. /\ procs'[m][cur[m]] = new[m]
        /\ \A j \in Spokes : j # cur[m] => procs'[m][j] = procs[m][j]
    BY <1>1, <2>1 DEF TypeInv, TypeOK
  <2>3. pidfile[cur[m]] = NoPid /\ proc[new[m]].spoke = cur[m]
    BY <1>1, <1>8 DEF Settle, SoloInv, Vacant, Settling
  <2>4. OnFile(m)'
    <3> SUFFICES ASSUME NEW j \in Spokes, procs'[m][j] # NoPid
                 PROVE  /\ pidfile[j] \in {procs'[m][j], NoPid}
                        /\ Alive(procs'[m][j]) =>
                              /\ proc[procs'[m][j]].spoke = j
                              /\ pidfile[j] = procs'[m][j] \/ cur[m] = j
      BY <2>1 DEF OnFile, Alive
    <3>1. CASE j = cur[m]
      BY <2>2, <2>3, <3>1
    <3>2. CASE j # cur[m]
      BY <1>1, <2>2, <3>2 DEF Settle, SoloInv, OnFile
    <3> QED
      BY <3>1, <3>2
  <2>5. Vacant(m)'
    BY <2>1, <2>3 DEF Vacant
  <2>6. \A p \in Pids : Alive(p)' => OnFileOr(m, p)'
    BY <1>1, <2>1, <2>2, <2>3 DEF Settle, SoloInv, OnFileOr, Starting, Alive
  <2> QED
    BY <1>2, <1>3, <2>4, <2>5, <2>6, FromSolo DEF SoloInv
<1> QED
  BY <1>7, <1>8

LEMMA RecordKeeps ==
  ASSUME TypeInv, TypeInv', ProcInv, NEW m \in Mgrs, Record(m)
  PROVE  ProcInv'
PROOF
<1> USE DEF Goto
<1>1. SoloInv(m) /\ cur[m] \in Spokes
  BY ToSolo DEF Record, TypeInv, TypeOK
<1>2. Within(m)
  BY AdvanceTyped DEF Record, Within, TypeInv, TypeOK
<1>3. Settling(m)'
  BY <1>1, AdvanceTyped, NullAssumption DEF Record, SoloInv, Settling, Alive, TypeInv, TypeOK
<1>4. OnFile(m)'
  BY <1>1, AdvanceTyped, NullAssumption
     DEF Record, SoloInv, OnFile, Vacant, Alive, TypeInv, TypeOK
<1>5. Vacant(m)'
  BY <1>1, AdvanceTyped, OnlyOne, NullAssumption
     DEF Record, SoloInv, Vacant, Alive, TypeInv, TypeOK
<1>6. \A p \in Pids : Alive(p)' => OnFileOr(m, p)'
  BY <1>1, AdvanceTyped, OnlyOne, NullAssumption
     DEF Record, SoloInv, Vacant, OnFileOr, Starting, Alive, TypeInv, TypeOK
<1> QED
  BY <1>2, <1>3, <1>4, <1>5, <1>6, FromSolo DEF SoloInv

-----------------------------------------------------------------------------
(* The steps that begin and end a pass, and those of the environment *)

LEMMA BeginKeeps ==
  ASSUME Sheltered, TypeInv, ProcInv, NEW m \in Mgrs, NEW kind, NEW s,
         pc[m] = "idle" \/ MayStart(m), Begin(m, kind, s)
  PROVE  ProcInv'
PROOF
<1>1. \A k \in Mgrs : k # m => pc[k] = "down"
  BY DEF Sheltered, MayStart, ProcInv, Solo
<1>2. pc' = [pc EXCEPT ![m] = "spoke"] /\ pc \in [Mgrs -> Labels]
  BY DEF Begin, Goto, TypeInv, TypeOK
<1>3. proc' = proc /\ pidfile' = pidfile /\ procs' = procs /\ new' = new
  BY DEF Begin, machine
<1>4. Solo' /\ DownForgets'
  BY <1>1, <1>2, <1>3 DEF ProcInv, Solo, DownForgets, Forgotten
<1>5. \A k \in Mgrs : pc[k] \notin {"settle", "record"} /\ ~Alive(new[k]) /\ new[k] \notin Pids
  BY <1>1 DEF MayStart, ProcInv, Settling, Alive
<1>6. ASSUME NEW k \in Mgrs PROVE Settling(k)' /\ OnFile(k)' /\ Vacant(k)'
  <2>1. Settling(k)'
    BY <1>2, <1>3, <1>5 DEF Settling, Alive
  <2>2. OnFile(k)'
    BY <1>2, <1>3, <1>5 DEF ProcInv, OnFile, Alive
  <2>3. Vacant(k)'
    BY <1>1, <1>2, <1>3 DEF Vacant
  <2> QED
    BY <2>1, <2>2, <2>3
<1>7. Named'
  BY <1>2, <1>3, <1>5 DEF ProcInv, Named, Starting, Alive
<1> QED
  BY <1>4, <1>6, <1>7 DEF ProcInv

\* A manager that leaves takes its memory with it; the pid files remain.
LEMMA LeaveKeeps ==
  ASSUME TypeInv, ProcInv, NEW m \in Mgrs,
         pc[m] \notin {"down", "settle", "record"},
         Goto(m, "down"), Forget(m), Rest(m), UNCHANGED machine
  PROVE  ProcInv'
PROOF
<1>1. SoloInv(m) /\ \A k \in Mgrs : k # m => pc[k] = "down" /\ Forgotten(k)
  BY ToSolo
<1>2. \A k \in Mgrs : pc'[k] = "down" /\ Forgotten(k)'
  BY <1>1 DEF Goto, Forget, Rest, Forgotten, TypeInv, TypeOK
<1>3. \A p \in Pids : Alive(p) => pidfile[proc[p].spoke] = p
  BY <1>1, OnlyOne
<1>4. Named'
  BY <1>3 DEF machine, Named, Alive
<1>5. ASSUME NEW k \in Mgrs PROVE Settling(k)' /\ OnFile(k)' /\ Vacant(k)'
  BY <1>2, NullAssumption DEF Settling, OnFile, Vacant, Forgotten, Alive
<1> QED
  BY <1>2, <1>4, <1>5 DEF ProcInv, Solo, DownForgets

LEMMA EndPassKeeps ==
  ASSUME TypeInv, ProcInv, NEW m \in Mgrs, EndPass(m)
  PROVE  ProcInv'
PROOF
<1>1. CASE Goto(m, "down") /\ Forget(m)
  BY <1>1, LeaveKeeps DEF EndPass, machine
<1>2. CASE Goto(m, "idle") /\ UNCHANGED procs
  <2>1. SoloInv(m)
    BY ToSolo DEF EndPass
  <2>2. Within(m)
    BY <1>2 DEF EndPass, Rest, Goto, Within, TypeInv, TypeOK
  <2>3. pc'[m] = "idle" /\ new'[m] = NoPid /\ procs' = procs
    BY <1>2 DEF EndPass, Rest, Goto, TypeInv, TypeOK
  <2>4. proc' = proc /\ pidfile' = pidfile
    BY DEF EndPass, machine
  <2>5. Settling(m)' /\ OnFile(m)' /\ Vacant(m)'
    BY <2>1, <2>3, <2>4, NullAssumption DEF EndPass, SoloInv, Settling, OnFile, Vacant, Alive
  <2>6. \A p \in Pids : Alive(p)' => OnFileOr(m, p)'
    BY <2>1, <2>4 DEF EndPass, SoloInv, OnFileOr, Starting, Alive
  <2> QED
    BY <2>2, <2>5, <2>6, FromSolo DEF SoloInv
<1> QED
  BY <1>1, <1>2 DEF EndPass

\* An obfuscator that dies, or comes up, stays the obfuscator of its spoke.
LEMMA ProcessKeeps ==
  ASSUME TypeInv, ProcInv, NEW p \in Pids, Die(p) \/ ComeUp(p)
  PROVE  ProcInv'
PROOF
<1>1. UNCHANGED <<pidfile, procs, pc, cur, new>>
  BY DEF Die, ComeUp, control
<1>2. \A q \in Pids : Alive(q)' => Alive(q) /\ proc'[q].spoke = proc[q].spoke
  BY DEF Die, ComeUp, Alive, Running, TypeInv, TypeOK, Proc
<1>3. Solo' /\ DownForgets'
  BY <1>1 DEF ProcInv, Solo, DownForgets, Forgotten
<1>4. ASSUME NEW m \in Mgrs PROVE Settling(m)' /\ OnFile(m)' /\ Vacant(m)'
  <2>1. Settling(m)'
    BY <1>1, <1>2 DEF ProcInv, Settling, Alive
  <2>2. OnFile(m)'
    BY <1>1, <1>2 DEF ProcInv, OnFile, Alive
  <2>3. Vacant(m)'
    BY <1>1, <1>2 DEF ProcInv, Vacant, Alive
  <2> QED
    BY <2>1, <2>2, <2>3
<1>5. Named'
  BY <1>1, <1>2 DEF ProcInv, Named, Starting
<1> QED
  BY <1>3, <1>4, <1>5 DEF ProcInv

LEMMA NextProcInv ==
  ASSUME Sheltered, TypeInv, TypeInv', ProcInv, [Next]_vars
  PROVE  ProcInv'
PROOF
<1>1. CASE UNCHANGED <<machine, procs, control>>
  BY <1>1 DEF machine, control, ProcInv, Solo, DownForgets, Forgotten, Settling, OnFile,
              Vacant, Named, Starting, Alive
<1>2. ASSUME NEW m \in Mgrs, Crash(m) PROVE ProcInv'
  BY <1>2, LeaveKeeps DEF Crash, Sheltered, machine
<1>3. CASE Reboot
  BY <1>3, NullAssumption
     DEF Reboot, ProcInv, Solo, DownForgets, Forgotten, Settling, OnFile, Vacant, Named, Alive
<1>4. CASE SettingsUnavailable
  <2>1. CASE pc[Svc] = "idle"
    BY <1>4, <2>1 DEF SettingsUnavailable, Goto, machine, ProcInv, Solo, DownForgets, Forgotten,
                     Settling, OnFile, Vacant, Named, Starting, Alive, TypeInv, TypeOK
  <2>2. CASE MayStart(Svc)
    <3>1. \A k \in Mgrs : pc[k] = "down" /\ Forgotten(k)
      BY <2>2 DEF Sheltered, MayStart, ProcInv, DownForgets
    <3>2. /\ pc' = [pc EXCEPT ![Svc] = "idle"] /\ proc' = proc /\ pidfile' = pidfile
          /\ procs' = procs /\ new' = new /\ pc \in [Mgrs -> Labels]
      BY <1>4 DEF SettingsUnavailable, Goto, machine, TypeInv, TypeOK
    <3>3. Solo' /\ DownForgets' /\ Named'
      BY <3>1, <3>2 DEF ProcInv, Solo, DownForgets, Forgotten, Named, Starting, Alive
    <3>4. ASSUME NEW k \in Mgrs PROVE Settling(k)' /\ OnFile(k)' /\ Vacant(k)'
      BY <3>1, <3>2, NullAssumption DEF Settling, OnFile, Vacant, Forgotten, Alive
    <3> QED
      BY <3>3, <3>4 DEF ProcInv
  <2> QED
    BY <1>4, <2>1, <2>2 DEF SettingsUnavailable
<1>5. CASE StartService \/ BeginReconcile \/ BeginCheck \/ Shutdown
  BY <1>5, BeginKeeps DEF StartService, BeginReconcile, BeginCheck, Shutdown, Mgrs
<1>6. ASSUME NEW m \in Mgrs, RunReconcile(m) \/ RunTeardown(m) PROVE ProcInv'
  BY <1>6, BeginKeeps DEF RunReconcile, RunTeardown
<1>7. ASSUME NEW m \in Mgrs, Fail(m) PROVE ProcInv'
  BY <1>7, SpokeFailsKeeps, StartFailsKeeps DEF Fail, RecordFails, Sheltered
<1>8. ASSUME NEW m \in Mgrs, Step(m) PROVE ProcInv'
  BY <1>8, WriteConfigKeeps, LookKeeps, TearDownKeeps, ClearKeeps, CheckSpokeKeeps, StopKeeps,
     UnlinkKeeps, StartAdoptsKeeps, SpawnKeeps, SettleKeeps, RecordKeeps, EndPassKeeps DEF Step
<1> QED
  BY <1>1, <1>2, <1>3, <1>4, <1>5, <1>6, <1>7, <1>8, ProcessKeeps
     DEF Next, Disturb, PatchSettings, BackoffOver, vars

\* No obfuscator is ever lost: as long as managers do not overlap and none is
\* killed between Popen and the pid file, whoever comes next finds every
\* obfuscator, through all other crashes, restarts, reboots and failed starts.
THEOREM NothingLost == ASSUME Sheltered PROVE Spec => []Reachable
PROOF
<1>1. ProcInv => Reachable
  BY DEF ProcInv, Named, Starting, Reachable, Found
<1>2. TypeInv /\ ProcInv /\ [Next]_vars => TypeInv' /\ ProcInv'
  BY NextTypeInv, NextProcInv
<1> QED
  BY InitTypeInv, InitProcInv, <1>1, <1>2, PTL DEF Spec

\* Under the same conditions no spoke ever has two obfuscators.
THEOREM NeverTwo == ASSUME Sheltered PROVE Spec => []AtMostOne
PROOF
<1>1. TypeInv /\ ProcInv => AtMostOne
  <2> SUFFICES ASSUME TypeInv, ProcInv, NEW p \in Pids, NEW q \in Pids, Alive(p), Alive(q),
                      proc[p].spoke = proc[q].spoke
               PROVE  p = q
    BY DEF AtMostOne
  <2>1. \A r \in Pids, m \in Mgrs : Alive(r) /\ Starting(m, r) =>
            pidfile[proc[r].spoke] = NoPid
    BY DEF ProcInv, Starting, Settling, Vacant
  <2>2. \A m, k \in Mgrs : Starting(m, p) /\ Starting(k, q) => m = k
    BY DEF ProcInv, Solo, Starting
  <2>3. \A m \in Mgrs : Starting(m, p) /\ Starting(m, q) => p = q
    BY DEF Starting
  <2> QED
    BY <2>1, <2>2, <2>3, NullAssumption DEF ProcInv, Named
<1>2. TypeInv /\ ProcInv /\ [Next]_vars => TypeInv' /\ ProcInv'
  BY NextTypeInv, NextProcInv
<1> QED
  BY InitTypeInv, InitProcInv, <1>1, <1>2, PTL DEF Spec

\* A start is the only step that brings a process, and it is made in an empty place.
LEMMA NextServes ==
  ASSUME Sheltered, TypeInv, ProcInv, [Next]_vars
  PROVE  [Service!Next]_proc
PROOF
<1> SUFFICES ASSUME proc' # proc PROVE Service!Next
  OBVIOUS
<1>1. ASSUME NEW p \in Pids, Die(p) PROVE Service!Next
  BY <1>1 DEF Die, Alive, Service!Next, Service!End
<1>2. ASSUME NEW p \in Pids, ComeUp(p) PROVE Service!Next
  <2>1. proc[p] \in Proc /\ proc[p] # NoProc /\ proc[p].conf = NoConf
    BY <1>2 DEF ComeUp, Alive, Running, TypeInv, TypeOK
  <2>2. CASE proc' = [proc EXCEPT ![p] = NoProc]
    BY <2>1, <2>2 DEF Service!Next, Service!End
  <2>3. CASE /\ conffile[proc[p].spoke] # NoConf
             /\ proc' = [proc EXCEPT ![p] = [@ EXCEPT !.conf = conffile[proc[p].spoke]]]
    <3>1. conffile[proc[p].spoke] \in Confs
      BY <2>1, <2>3 DEF TypeInv, TypeOK, Proc
    <3>2. proc' = [proc EXCEPT ![p].conf = conffile[proc[p].spoke]]
      BY <2>3
    <3> QED
      BY <2>1, <3>1, <3>2 DEF Service!Next, Service!Load
  <2> QED
    BY <1>2, <2>2, <2>3 DEF ComeUp
<1>3. CASE Reboot
  BY <1>3 DEF Reboot, Service!Next, Service!Blackout
<1>4. ASSUME NEW m \in Mgrs, Stop(m) PROVE Service!Next
  <2>1. /\ Alive(procs[m][cur[m]])
        /\ proc' = [proc EXCEPT ![procs[m][cur[m]]] = NoProc]
    BY <1>4 DEF Stop
  <2> QED
    BY <2>1 DEF Alive, Service!Next, Service!End
<1>5. ASSUME NEW m \in Mgrs, Spawn(m) PROVE Service!Next
  <2>1. PICK p \in FreePids :
            proc' = [proc EXCEPT ![p] = [spoke |-> cur[m], bin |-> snap[m].bin, conf |-> NoConf]]
    BY <1>5 DEF Spawn
  <2>2. p \in Pids /\ proc[p] = NoProc
    BY DEF FreePids, Alive
  <2>3. cur[m] \in Spokes /\ snap[m].bin \in Bins
    BY <1>5 DEF Spawn, TypeInv, TypeOK, PassReads, Settings
  <2>4. Service!Vacant(cur[m])
    BY <1>5 DEF Spawn, ProcInv, Vacant, Service!Vacant, Alive
  <2>5. Service!Launch(p)
    BY <2>1, <2>2, <2>3, <2>4 DEF Service!Launch
  <2> QED
    BY <2>2, <2>5 DEF Service!Next
<1>6. ASSUME NEW m \in Mgrs, Step(m), ~Stop(m), ~Spawn(m) PROVE FALSE
  BY <1>6 DEF Step, WriteConfig, Look, TearDown, Clear, CheckSpoke, Unlink, StartAdopts,
              Settle, Record, EndPass, machine
<1>7. ASSUME NEW m \in Mgrs, Crash(m) \/ Fail(m) \/ RunReconcile(m) \/ RunTeardown(m)
      PROVE  FALSE
  BY <1>7 DEF Crash, Fail, SpokeFails, StartFails, RecordFails, RunReconcile, RunTeardown,
              Begin, machine
<1>8. CASE \/ PatchSettings \/ SettingsUnavailable \/ Shutdown
           \/ StartService \/ BeginReconcile \/ BeginCheck
           \/ \E i \in Spokes : BackoffOver(i)
           \/ UNCHANGED vars
  BY <1>8 DEF PatchSettings, SettingsUnavailable, Shutdown, StartService, BeginReconcile,
              BeginCheck, BackoffOver, Begin, machine, vars
<1> QED
  BY <1>1, <1>2, <1>3, <1>4, <1>5, <1>6, <1>7, <1>8 DEF Next, Disturb

\* Under the same conditions all that managers do is what the abstract service
\* promises: a spoke's process starts in an empty place and keeps its binary and
\* its config until it ends.
THEOREM ImplementsService == ASSUME Sheltered PROVE Spec => ServesSpokes
PROOF
<1>1. Init => Service!Init
  BY DEF Init, Service!Init
<1>2. TypeInv /\ ProcInv /\ [Next]_vars => TypeInv' /\ ProcInv'
  BY NextTypeInv, NextProcInv
<1>3. TypeInv /\ ProcInv /\ [Next]_vars => [Service!Next]_proc
  BY NextServes
<1> QED
  BY InitTypeInv, InitProcInv, <1>1, <1>2, <1>3, PTL DEF Spec, ServesSpokes, Service!Spec

-----------------------------------------------------------------------------
(* What a pass does where: labels and kinds of pass *)

\* Each kind of pass has its labels: what it is doing tells what it was begun for.
Shape(m) ==
    /\ mode[m] = "none" <=> pc[m] \in {"down", "idle"}
    /\ pc[m] \in {"settle", "record"} => mode[m] \in {"reconcile", "check"}
    /\ pc[m] = "clear" => mode[m] = "reconcile"
    /\ pc[m] = "look" => Wanted(m)
    /\ pc[m] = "stop" => Wanted(m) \/ Unwanted(m)
ShapeInv == \A m \in Mgrs : Shape(m)

\* What one manager does leaves the pass of every other where it is.
LEMMA OthersStay ==
  ASSUME TypeInv, NEW m \in Mgrs, NEW k \in Mgrs, k # m,
         Step(m) \/ Fail(m) \/ Crash(m) \/ \E kind, s : Begin(m, kind, s)
  PROVE  /\ pc'[k] = pc[k] /\ mode'[k] = mode[k] /\ cur'[k] = cur[k]
         /\ snap'[k] = snap[k] /\ chg'[k] = chg[k] /\ new'[k] = new[k]
PROOF
<1> USE DEF TypeInv, TypeOK, Goto
<1>1. CASE Crash(m) \/ EndPass(m) \/ \E kind, s : Begin(m, kind, s)
  BY <1>1 DEF Crash, EndPass, Rest, Begin
<1>2. CASE Fail(m)
  BY <1>2, AdvanceTyped DEF Fail, SpokeFails, StartFails, RecordFails
<1>3. CASE WriteConfig(m) \/ Look(m) \/ TearDown(m) \/ Clear(m)
  BY <1>3, AdvanceTyped DEF WriteConfig, Look, TearDown, Clear
<1>4. CASE CheckSpoke(m) \/ Stop(m) \/ Unlink(m) \/ StartAdopts(m)
  BY <1>4, AdvanceTyped DEF CheckSpoke, Stop, Unlink, StartAdopts
<1>5. CASE Spawn(m) \/ Settle(m) \/ Record(m)
  BY <1>5, AdvanceTyped DEF Spawn, Settle, Record
<1> QED
  BY <1>1, <1>2, <1>3, <1>4, <1>5 DEF Step

\* A step inside a pass keeps its kind and the settings it has read.
LEMMA PassStays ==
  ASSUME TypeInv, NEW m \in Mgrs, Step(m) \/ Fail(m), ~EndPass(m)
  PROVE  mode' = mode /\ snap' = snap
  BY DEF Fail, SpokeFails, StartFails, RecordFails, Step, WriteConfig, Look, TearDown, Clear,
         CheckSpoke, Stop, Unlink, StartAdopts, Spawn, Settle, Record

LEMMA InitShape == Init => ShapeInv
  BY DEF Init, ShapeInv, Shape

LEMMA StepShape ==
  ASSUME TypeInv, NEW m \in Mgrs, Shape(m), Step(m) \/ Fail(m)
  PROVE  Shape(m)'
PROOF
<1> USE DEF Goto, Shape, Wanted, Unwanted
<1>1. CASE EndPass(m)
  BY <1>1 DEF EndPass, Rest, TypeInv, TypeOK
<1>2. CASE ~EndPass(m)
  <2> mode' = mode /\ snap' = snap
    BY <1>2, PassStays
  <2>1. CASE Fail(m)
    <3>1. pc'[m] \in {"spoke", "end"} /\ pc[m] \notin {"down", "idle"}
      BY <2>1, AdvanceTyped DEF Fail, SpokeFails, StartFails, RecordFails
    <3> QED
      BY <3>1
  <2>2. CASE WriteConfig(m)
    BY <2>2 DEF WriteConfig, TypeInv, TypeOK
  <2>3. CASE Look(m)
    BY <2>3, AdvanceTyped DEF Look, TypeInv, TypeOK
  <2>4. CASE TearDown(m)
    BY <2>4, AdvanceTyped DEF TearDown, TypeInv, TypeOK
  <2>5. CASE Clear(m) \/ Record(m)
    BY <2>5, AdvanceTyped DEF Clear, Record
  <2>6. CASE CheckSpoke(m)
    BY <2>6, AdvanceTyped DEF CheckSpoke, TypeInv, TypeOK
  <2>7. CASE Stop(m)
    BY <2>7 DEF Stop, TypeInv, TypeOK
  <2>8. CASE Unlink(m)
    BY <2>8, AdvanceTyped DEF Unlink, TypeInv, TypeOK
  <2>9. CASE StartAdopts(m)
    BY <2>9, AdvanceTyped DEF StartAdopts, TypeInv, TypeOK, PassReads
  <2>10. CASE Spawn(m)
    BY <2>10 DEF Spawn, TypeInv, TypeOK, PassReads
  <2>11. CASE Settle(m)
    BY <2>11, AdvanceTyped DEF Settle, TypeInv, TypeOK
  <2> QED
    BY <1>2, <2>1, <2>2, <2>3, <2>4, <2>5, <2>6, <2>7, <2>8, <2>9, <2>10, <2>11 DEF Step
<1> QED
  BY <1>1, <1>2

LEMMA NextShape ==
  ASSUME TypeInv, ShapeInv, [Next]_vars
  PROVE  ShapeInv'
PROOF
<1> SUFFICES ASSUME NEW k \in Mgrs PROVE Shape(k)'
  BY DEF ShapeInv
<1>0. Shape(k)
  BY DEF ShapeInv
<1>1. CASE UNCHANGED <<pc, mode, cur, snap>>
  BY <1>0, <1>1 DEF Shape, Wanted, Unwanted
<1>2. ASSUME NEW m \in Mgrs, Step(m) \/ Fail(m) PROVE Shape(k)'
  <2>1. CASE k = m
    BY <1>0, <1>2, <2>1, StepShape
  <2>2. CASE k # m
    BY <1>0, <1>2, <2>2, OthersStay DEF Shape, Wanted, Unwanted
  <2> QED
    BY <2>1, <2>2
<1>3. ASSUME NEW m \in Mgrs, Crash(m) PROVE Shape(k)'
  <2>1. CASE k = m
    BY <1>3, <2>1 DEF Crash, Rest, Goto, Shape, TypeInv, TypeOK
  <2>2. CASE k # m
    BY <1>0, <1>3, <2>2, OthersStay DEF Shape, Wanted, Unwanted
  <2> QED
    BY <2>1, <2>2
<1>4. ASSUME NEW m \in Mgrs, NEW kind \in Modes \ {"none"}, NEW s, Begin(m, kind, s)
      PROVE  Shape(k)'
  <2>1. CASE k = m
    BY <1>4, <2>1 DEF Begin, Goto, Shape, TypeInv, TypeOK
  <2>2. CASE k # m
    BY <1>0, <1>4, <2>2, OthersStay DEF Shape, Wanted, Unwanted
  <2> QED
    BY <2>1, <2>2
<1>5. CASE Reboot
  BY <1>5 DEF Reboot, Shape
<1>6. CASE SettingsUnavailable
  BY <1>0, <1>6 DEF SettingsUnavailable, MayStart, Goto, Shape, Wanted, Unwanted, TypeInv, TypeOK
<1>7. CASE StartService \/ BeginReconcile \/ BeginCheck \/ Shutdown
  BY <1>4, <1>7 DEF StartService, BeginReconcile, BeginCheck, Shutdown, Mgrs, Modes
<1>8. ASSUME NEW m \in Mgrs, RunReconcile(m) \/ RunTeardown(m) PROVE Shape(k)'
  BY <1>4, <1>8 DEF RunReconcile, RunTeardown, Modes
<1> QED
  BY <1>1, <1>2, <1>3, <1>5, <1>6, <1>7, <1>8
     DEF Next, Disturb, vars, control, Die, ComeUp, PatchSettings, BackoffOver

\* Only a manager in a pass, and then no other, makes a step of a pass.
LEMMA StepperIsSolo ==
  ASSUME ProcInv, NEW m \in Mgrs, Step(m) \/ Fail(m)
  PROVE  pc[m] \notin {"down", "idle"} /\ \A k \in Mgrs : k # m => pc[k] = "down"
PROOF
<1>1. pc[m] \notin {"down", "idle"}
  BY DEF Fail, SpokeFails, StartFails, RecordFails, Step, WriteConfig, Look, TearDown, Clear,
         CheckSpoke, Stop, Unlink, StartAdopts, Spawn, Settle, Record, EndPass
<1> QED
  BY <1>1 DEF ProcInv, Solo

\* Who begins a pass is alone.
LEMMA BeginnerIsSolo ==
  ASSUME Sheltered, ProcInv, NEW m \in Mgrs, pc[m] = "idle" \/ MayStart(m)
  PROVE  pc[m] \in {"down", "idle"} /\ \A k \in Mgrs : k # m => pc[k] = "down"
  BY DEF Sheltered, MayStart, ProcInv, Solo

\* A process that dies or comes up brings no other, and keeps its spoke.
LEMMA NoneAppears ==
  ASSUME TypeInv, NEW p \in Pids, Die(p) \/ ComeUp(p)
  PROVE  \A q \in Pids : Alive(q)' => Alive(q) /\ proc'[q].spoke = proc[q].spoke
  BY DEF Die, ComeUp, Alive, Running, TypeInv, TypeOK, Proc

-----------------------------------------------------------------------------
(* A teardown leaves nothing *)

\* A teardown has emptied the spokes it has passed; at its end, all of them.
Torn(m) ==
    mode[m] = "teardown" =>
        \A p \in Pids : Alive(p) => pc[m] # "end" /\ cur[m] <= proc[p].spoke
TornInv == \A m \in Mgrs : Torn(m)

\* The loop moves past a spoke only when nothing lives there.
LEMMA TornAdvance ==
  ASSUME TypeInv, NEW m \in Mgrs, Torn(m), mode[m] = "teardown", Advance(m),
         \A p \in Pids : Alive(p) => proc[p].spoke # cur[m],
         UNCHANGED <<proc, mode>>, pc[m] # "end"
  PROVE  Torn(m)'
PROOF
<1> SUFFICES ASSUME NEW p \in Pids, Alive(p) PROVE pc'[m] # "end" /\ cur'[m] <= proc[p].spoke
  BY DEF Torn, Alive
<1>1. /\ cur[m] \in 1 .. SpokeMax /\ proc[p].spoke \in 1 .. SpokeMax
      /\ cur[m] <= proc[p].spoke /\ cur[m] # proc[p].spoke
  BY DEF Torn, TypeInv, TypeOK, Spokes, Alive, Proc
<1>2. cur[m] < SpokeMax /\ cur[m] + 1 <= proc[p].spoke
  BY <1>1, SpokeMaxAssumption
<1>3. Last(m) = SpokeMax
  BY DEF Last
<1> QED
  BY <1>2, <1>3 DEF Advance, Goto, TypeInv, TypeOK

LEMMA StepTorn ==
  ASSUME TypeInv, ProcInv, ShapeInv, NEW m \in Mgrs, Torn(m), Step(m) \/ Fail(m)
  PROVE  Torn(m)'
PROOF
<1>1. CASE EndPass(m)
  BY <1>1 DEF EndPass, Rest, Torn, TypeInv, TypeOK
<1>2. CASE ~EndPass(m) /\ mode[m] # "teardown"
  BY <1>2, PassStays DEF Torn
<1>3. CASE ~EndPass(m) /\ mode[m] = "teardown"
  <2>1. SoloInv(m) /\ Shape(m) /\ ~Wanted(m)
    BY <1>3, ToSolo, StepperIsSolo DEF ShapeInv, Wanted
  <2>2. TearDown(m) \/ Stop(m) \/ Unlink(m)
    BY <1>3, <2>1 DEF Shape, TypeInv, PassReads, Step, Fail, SpokeFails, StartFails, RecordFails,
                      WriteConfig, Look, Clear, CheckSpoke, StartAdopts, Spawn, Settle, Record
  <2>3. CASE TearDown(m)
    <3>1. CASE Tracked(m, cur[m]) = NoPid
      <4>1. \A p \in Pids : Alive(p) => proc[p].spoke # cur[m]
        BY <2>1, <2>3, <3>1, OnlyOne, NullAssumption DEF TearDown
      <4> QED
        BY <1>3, <2>3, <3>1, <4>1, TornAdvance DEF TearDown
    <3>2. CASE Tracked(m, cur[m]) # NoPid
      BY <1>3, <2>3, <3>2 DEF TearDown, Goto, Torn, Alive, TypeInv, TypeOK
    <3> QED
      BY <3>1, <3>2
  <2>4. CASE Stop(m)
    <3>1. \A p \in Pids : Alive(p)' => Alive(p) /\ proc'[p] = proc[p]
      BY <2>4 DEF Stop, Alive, TypeInv, TypeOK
    <3> QED
      BY <1>3, <2>4, <3>1 DEF Stop, Goto, Torn, TypeInv, TypeOK
  <2>5. CASE Unlink(m)
    BY <1>3, <2>1, <2>5, TornAdvance DEF Unlink, SoloInv, Vacant
  <2> QED
    BY <2>2, <2>3, <2>4, <2>5
<1> QED
  BY <1>1, <1>2, <1>3

LEMMA NextTorn ==
  ASSUME Sheltered, TypeInv, ProcInv, ShapeInv, TornInv, [Next]_vars
  PROVE  TornInv'
PROOF
<1> SUFFICES ASSUME NEW k \in Mgrs PROVE Torn(k)'
  BY DEF TornInv
<1>0. Torn(k) /\ Shape(k)
  BY DEF TornInv, ShapeInv
<1>1. CASE UNCHANGED <<proc, control>>
  BY <1>0, <1>1 DEF Torn, Alive, control
<1>2. ASSUME NEW m \in Mgrs, Step(m) \/ Fail(m) PROVE Torn(k)'
  <2>1. CASE k = m
    BY <1>0, <1>2, <2>1, StepTorn
  <2>2. CASE k # m
    BY <1>0, <1>2, <2>2, OthersStay, StepperIsSolo DEF Shape, Torn
  <2> QED
    BY <2>1, <2>2
<1>3. ASSUME NEW m \in Mgrs, Crash(m) PROVE Torn(k)'
  <2>1. CASE k = m
    BY <1>3, <2>1 DEF Crash, Rest, Torn, TypeInv, TypeOK
  <2>2. CASE k # m
    BY <1>0, <1>3, <2>2, OthersStay DEF Crash, machine, Torn, Alive
  <2> QED
    BY <2>1, <2>2
<1>4. ASSUME NEW m \in Mgrs, NEW kind, NEW s, pc[m] = "idle" \/ MayStart(m), Begin(m, kind, s)
      PROVE  Torn(k)'
  <2>1. CASE k = m
    <3>1. \A p \in Pids : Alive(p)' => proc'[p].spoke \in 1 .. SpokeMax
      BY <1>4 DEF Begin, machine, Alive, TypeInv, TypeOK, Proc, Spokes
    <3>2. pc'[k] = "spoke" /\ cur'[k] = 1
      BY <1>4, <2>1 DEF Begin, Goto, TypeInv, TypeOK
    <3> QED
      BY <3>1, <3>2, SpokeMaxAssumption DEF Torn
  <2>2. CASE k # m
    BY <1>0, <1>4, <2>2, OthersStay DEF Begin, machine, Torn, Alive
  <2> QED
    BY <2>1, <2>2
<1>5. CASE Reboot
  BY <1>5 DEF Reboot, Torn
<1>6. CASE SettingsUnavailable
  BY <1>0, <1>6 DEF SettingsUnavailable, MayStart, Goto, machine, Shape, Torn, Alive, TypeInv, TypeOK
<1>7. CASE StartService \/ BeginReconcile \/ BeginCheck \/ Shutdown
  BY <1>4, <1>7 DEF StartService, BeginReconcile, BeginCheck, Shutdown, Mgrs
<1>8. ASSUME NEW m \in Mgrs, RunReconcile(m) \/ RunTeardown(m) PROVE Torn(k)'
  BY <1>4, <1>8 DEF RunReconcile, RunTeardown
<1>9. ASSUME NEW p \in Pids, Die(p) \/ ComeUp(p) PROVE Torn(k)'
  BY <1>0, <1>9, NoneAppears DEF Die, ComeUp, control, Torn
<1> QED
  BY <1>1, <1>2, <1>3, <1>5, <1>6, <1>7, <1>8, <1>9
     DEF Next, Disturb, vars, machine, PatchSettings, BackoffOver

\* A teardown ends with no obfuscator alive on any spoke, wanted or not, whoever
\* started it, as long as managers do not overlap and none was killed between
\* Popen and the pid file.
THEOREM TornDown == ASSUME Sheltered PROVE Spec => []TeardownLeavesNothing
PROOF
<1>1. Init => TornInv
  BY DEF Init, TornInv, Torn
<1>2. TornInv => TeardownLeavesNothing
  BY DEF TornInv, Torn, TeardownLeavesNothing
<1>3. TypeInv /\ ProcInv /\ ShapeInv /\ TornInv /\ [Next]_vars
      => TypeInv' /\ ProcInv' /\ ShapeInv' /\ TornInv'
  BY NextTypeInv, NextProcInv, NextShape, NextTorn
<1> QED
  BY InitTypeInv, InitProcInv, InitShape, <1>1, <1>2, <1>3, PTL DEF Spec

-----------------------------------------------------------------------------
(* A running obfuscator has loaded its config file, and is stopped for a reason *)

\* What this needs besides: no manager is killed between a rewritten config file
\* and the restart it is for.
Guarded == Sheltered /\ CrashAt \cap {"look", "stop"} = {}

\* Only the Popen a manager waits on has not yet loaded its config.
Upright == \A p \in Pids : Alive(p) =>
               Running(p) \/ \E m \in Mgrs : pc[m] = "settle" /\ new[m] = p

\* Why a manager is about to restart the obfuscator of a wanted spoke.
Judged(m) ==
    \A p \in Pids : Running(p) /\ proc[p].spoke = cur[m] =>
        /\ pc[m] = "look" /\ chg[m] => proc[p].conf # snap[m].conf
        /\ pc[m] = "stop" /\ Wanted(m) => \/ proc[p].conf # snap[m].conf
                                          \/ proc[p].bin # snap[m].bin

FreshInv == FreshConfig /\ Upright /\ \A m \in Mgrs : Judged(m)

\* The invariant as the one manager in a pass sees it.
RestartDue(m, i) == cur[m] = i /\ (pc[m] = "stop" \/ (pc[m] = "look" /\ chg[m]))
FreshSolo(m) ==
    /\ \A p \in Pids : Running(p) =>
          proc[p].conf = conffile[proc[p].spoke] \/ RestartDue(m, proc[p].spoke)
    /\ \A p \in Pids : Alive(p) => Running(p) \/ (pc[m] = "settle" /\ new[m] = p)
    /\ Judged(m)

\* Outside a start and a restart every live obfuscator has loaded its file.
AllFresh == \A p \in Pids : Alive(p) => Running(p) /\ proc[p].conf = conffile[proc[p].spoke]

LEMMA ToFreshSolo ==
  ASSUME FreshInv, NEW m \in Mgrs, \A k \in Mgrs : k # m => pc[k] = "down"
  PROVE  FreshSolo(m)
PROOF
<1>1. ASSUME NEW p \in Pids, Running(p)
      PROVE  proc[p].conf = conffile[proc[p].spoke] \/ RestartDue(m, proc[p].spoke)
  BY <1>1 DEF FreshInv, FreshConfig, RestartDue
<1>2. ASSUME NEW p \in Pids, Alive(p)
      PROVE  Running(p) \/ (pc[m] = "settle" /\ new[m] = p)
  BY <1>2 DEF FreshInv, Upright
<1> QED
  BY <1>1, <1>2 DEF FreshInv, FreshSolo

LEMMA FromFreshSolo ==
  ASSUME NEW m \in Mgrs, FreshSolo(m)', \A k \in Mgrs : k # m => pc'[k] = "down"
  PROVE  FreshInv'
PROOF
<1>1. FreshConfig'
  BY DEF FreshSolo, FreshConfig, RestartDue
<1>2. Upright'
  BY DEF FreshSolo, Upright
<1>3. \A k \in Mgrs : Judged(k)'
  BY DEF FreshSolo, Judged
<1> QED
  BY <1>1, <1>2, <1>3 DEF FreshInv

LEMMA Calm ==
  ASSUME NEW m \in Mgrs, FreshSolo(m), pc[m] \notin {"look", "stop", "settle"}
  PROVE  AllFresh
  BY DEF FreshSolo, RestartDue, AllFresh

LEMMA FromCalm ==
  ASSUME AllFresh', NEW m \in Mgrs,
         pc'[m] # "look", pc'[m] = "stop" => ~Wanted(m)'
  PROVE  FreshSolo(m)'
  BY DEF AllFresh, FreshSolo, Judged, Running

LEMMA AllFreshStays ==
  ASSUME AllFresh, UNCHANGED <<proc, conffile>>
  PROVE  AllFresh'
  BY DEF AllFresh, Alive, Running

\* Steps at which all is fresh before and after.
LEMMA CalmSteps ==
  ASSUME TypeInv, ProcInv, NEW m \in Mgrs, FreshSolo(m),
         \/ Fail(m) \/ TearDown(m) \/ Clear(m) \/ CheckSpoke(m) \/ Unlink(m)
         \/ StartAdopts(m) \/ Record(m) \/ EndPass(m)
  PROVE  FreshSolo(m)'
PROOF
<1> USE DEF Goto
<1>1. pc[m] \notin {"down", "look", "stop", "settle"}
  BY DEF Fail, SpokeFails, StartFails, RecordFails, TearDown, Clear, CheckSpoke, Unlink,
         StartAdopts, Record, EndPass
<1>2. AllFresh
  BY <1>1, Calm
<1>3. CASE Clear(m)
  <2>1. \A p \in Pids : Alive(p) => proc[p].spoke # cur[m] /\ proc[p].spoke \in Spokes
    BY <1>3, ToSolo, OnlyOne DEF Clear, SoloInv, Vacant
  <2>2. \A j \in Spokes : j # cur[m] => conffile'[j] = conffile[j]
    BY <1>3 DEF Clear, TypeInv, TypeOK
  <2>3. AllFresh'
    BY <1>2, <1>3, <2>1, <2>2 DEF Clear, AllFresh, Alive, Running
  <2>4. pc'[m] \in {"spoke", "end"}
    BY <1>3, AdvanceTyped DEF Clear
  <2> QED
    BY <2>3, <2>4, FromCalm
<1>4. CASE ~Clear(m)
  <2>1. UNCHANGED <<proc, conffile>>
    BY <1>4 DEF Fail, SpokeFails, StartFails, RecordFails, TearDown, CheckSpoke, Unlink,
                StartAdopts, Record, EndPass, machine
  <2>2. AllFresh'
    BY <1>2, <2>1, AllFreshStays
  <2>3. CASE TearDown(m)
    <3>1. pc'[m] \in {"stop", "clear", "spoke", "end"} /\ ~Wanted(m)
      BY <2>3, AdvanceTyped DEF TearDown, Unwanted, Wanted, TypeInv, TypeOK, PassReads, Settings, Spokes
    <3>2. pc'[m] = "stop" => ~Wanted(m)'
      BY <2>3, <3>1, AdvanceTyped DEF TearDown, Wanted, TypeInv, TypeOK
    <3> QED
      BY <2>2, <3>1, <3>2, FromCalm
  <2>4. CASE ~TearDown(m)
    <3>1. pc'[m] \notin {"look", "stop"}
      BY <1>4, <2>4, AdvanceTyped
         DEF Fail, SpokeFails, StartFails, RecordFails, CheckSpoke, Unlink, StartAdopts, Record,
             EndPass, TypeInv, TypeOK
    <3> QED
      BY <2>2, <3>1, FromCalm
  <2> QED
    BY <2>3, <2>4
<1> QED
  BY <1>3, <1>4

\* A rewritten file marks the obfuscator that loaded the old one for a restart.
LEMMA WriteConfigFresh ==
  ASSUME TypeInv, NEW m \in Mgrs, FreshSolo(m), WriteConfig(m)
  PROVE  FreshSolo(m)'
PROOF
<1>1. AllFresh
  BY Calm DEF WriteConfig
<1>2. /\ proc' = proc /\ cur' = cur /\ snap' = snap /\ mode' = mode /\ pc'[m] = "look"
      /\ chg'[m] <=> conffile[cur[m]] # snap[m].conf
      /\ conffile'[cur[m]] = snap[m].conf
      /\ \A j \in Spokes : j # cur[m] => conffile'[j] = conffile[j]
  BY DEF WriteConfig, Goto, TypeInv, TypeOK
<1>3. \A p \in Pids : Alive(p) => proc[p].spoke \in Spokes
  BY DEF TypeInv, TypeOK, Alive, Proc
<1>4. ASSUME NEW p \in Pids, Running(p)'
      PROVE  proc'[p].conf = conffile'[proc'[p].spoke] \/ RestartDue(m, proc[p].spoke)'
  <2>1. Alive(p) /\ proc[p].conf = conffile[proc[p].spoke]
    BY <1>1, <1>2, <1>4 DEF AllFresh, Running, Alive
  <2>2. CASE proc[p].spoke # cur[m]
    BY <1>2, <1>3, <2>1, <2>2
  <2>3. CASE proc[p].spoke = cur[m] /\ conffile[cur[m]] = snap[m].conf
    BY <1>2, <2>1, <2>3
  <2>4. CASE proc[p].spoke = cur[m] /\ conffile[cur[m]] # snap[m].conf
    <3>1. pc'[m] = "look" /\ chg'[m] /\ cur'[m] = proc'[p].spoke
      BY <1>2, <2>4
    <3> QED
      BY <3>1 DEF RestartDue
  <2> QED
    BY <2>2, <2>3, <2>4
<1>5. \A p \in Pids : Alive(p)' => Running(p)'
  BY <1>1, <1>2 DEF AllFresh, Running, Alive
<1>6. Judged(m)'
  <2> SUFFICES ASSUME NEW p \in Pids, Running(p), proc[p].spoke = cur[m], chg'[m]
               PROVE  proc[p].conf # snap[m].conf
    BY <1>2 DEF Judged, Running, Alive
  <2>1. conffile[cur[m]] # snap[m].conf
    BY <1>2
  <2> QED
    BY <1>1, <2>1 DEF AllFresh, Running
<1> QED
  BY <1>4, <1>5, <1>6 DEF FreshSolo

\* The look finds the obfuscator whose file was rewritten, and stops it.
LEMMA LookFresh ==
  ASSUME TypeInv, ProcInv, ShapeInv, NEW m \in Mgrs, FreshSolo(m), Look(m)
  PROVE  FreshSolo(m)'
PROOF
<1>1. SoloInv(m) /\ cur[m] \in Spokes /\ pc[m] = "look"
  BY ToSolo DEF Look, TypeInv, TypeOK
<1>2. UNCHANGED <<proc, conffile, snap, mode, new>>
  BY DEF Look
<1>3. \A p \in Pids : Alive(p) => Tracked(m, proc[p].spoke) = p
  BY <1>1, OnlyOne
<1>4. CASE Alive(Tracked(m, cur[m])) /\ (chg[m] \/ proc[Tracked(m, cur[m])].bin # snap[m].bin)
  <2>1. pc'[m] = "stop" /\ cur' = cur
    BY <1>4 DEF Look, Goto, TypeInv, TypeOK
  <2>2. Judged(m)'
    BY <1>1, <1>2, <1>3, <1>4, <2>1 DEF FreshSolo, Judged, Running, Alive
  <2> QED
    BY <1>1, <1>2, <2>1, <2>2 DEF FreshSolo, RestartDue, Running, Alive
<1>5. CASE ~(Alive(Tracked(m, cur[m])) /\ (chg[m] \/ proc[Tracked(m, cur[m])].bin # snap[m].bin))
  <2>1. AllFresh
    BY <1>1, <1>3, <1>5 DEF FreshSolo, RestartDue, AllFresh
  <2>2. pc'[m] \in {"start", "spoke", "end"}
    BY <1>5, AdvanceTyped DEF Look, Goto, TypeInv, TypeOK
  <2> QED
    BY <1>2, <2>1, <2>2, AllFreshStays, FromCalm
<1> QED
  BY <1>4, <1>5

\* What is stopped is the one obfuscator of the spoke: those that are left are fresh.
LEMMA StopFresh ==
  ASSUME TypeInv, TypeInv', ProcInv, NEW m \in Mgrs, FreshSolo(m), Stop(m)
  PROVE  FreshSolo(m)'
PROOF
<1>1. ProcInv' /\ pc'[m] = "unlink" /\ cur' = cur
  BY StopKeeps DEF Stop, Goto, TypeInv, TypeOK
<1>2. \A p \in Pids : Alive(p)' => proc'[p].spoke # cur[m]
  BY <1>1 DEF ProcInv, Vacant
<1>3. \A p \in Pids : Alive(p)' => Alive(p) /\ proc'[p] = proc[p]
  BY DEF Stop, Alive, TypeInv, TypeOK
<1>4. AllFresh'
  BY <1>2, <1>3 DEF Stop, FreshSolo, RestartDue, AllFresh, Running
<1> QED
  BY <1>1, <1>4, FromCalm

LEMMA StartFresh ==
  ASSUME TypeInv, NEW m \in Mgrs, FreshSolo(m), Spawn(m) \/ Settle(m)
  PROVE  FreshSolo(m)'
PROOF
<1>1. CASE Spawn(m)
  <2>1. AllFresh
    BY <1>1, Calm DEF Spawn
  <2>2. PICK p \in FreePids :
            /\ proc' = [proc EXCEPT ![p] = [spoke |-> cur[m], bin |-> snap[m].bin, conf |-> NoConf]]
            /\ new' = [new EXCEPT ![m] = p]
    BY <1>1 DEF Spawn
  <2>3. /\ pc'[m] = "settle" /\ new'[m] = p /\ conffile' = conffile
        /\ proc'[p].conf = NoConf
        /\ \A q \in Pids : q # p => proc'[q] = proc[q]
    BY <1>1, <2>2 DEF Spawn, Goto, FreePids, TypeInv, TypeOK
  <2> QED
    BY <2>1, <2>3 DEF AllFresh, FreshSolo, Judged, Running, Alive
<1>2. CASE Settle(m)
  <2>1. UNCHANGED <<proc, conffile>>
    BY <1>2 DEF Settle, machine
  <2>2. pc[m] = "settle" /\ (~Alive(new[m]) \/ Running(new[m]))
    BY <1>2 DEF Settle
  <2>3. AllFresh
    BY <2>2 DEF FreshSolo, RestartDue, AllFresh
  <2>4. pc'[m] \in {"record", "spoke", "end"}
    BY <1>2, AdvanceTyped DEF Settle, Goto, TypeInv, TypeOK
  <2> QED
    BY <2>1, <2>3, <2>4, AllFreshStays, FromCalm
<1> QED
  BY <1>1, <1>2

LEMMA StepFresh ==
  ASSUME TypeInv, TypeInv', ProcInv, ShapeInv, FreshInv, NEW m \in Mgrs, Step(m) \/ Fail(m)
  PROVE  FreshInv'
PROOF
<1>1. /\ FreshSolo(m)
      /\ \A k \in Mgrs : k # m => pc[k] = "down" /\ pc'[k] = pc[k]
  BY StepperIsSolo, ToFreshSolo, OthersStay
<1>2. FreshSolo(m)'
  BY <1>1, CalmSteps, WriteConfigFresh, LookFresh, StopFresh, StartFresh DEF Step
<1> QED
  BY <1>1, <1>2, FromFreshSolo

LEMMA NextFresh ==
  ASSUME Guarded, TypeInv, TypeInv', ProcInv, ShapeInv, FreshInv, [Next]_vars
  PROVE  FreshInv'
PROOF
<1>1. CASE UNCHANGED <<proc, conffile, control>>
  BY <1>1 DEF FreshInv, FreshConfig, Upright, Judged, Wanted, Running, Alive, control
<1>2. ASSUME NEW m \in Mgrs, Crash(m) PROVE FreshInv'
  <2>1. /\ pc[m] \notin {"down", "look", "stop", "settle"}
        /\ \A k \in Mgrs : k # m => pc[k] = "down" /\ pc'[k] = pc[k]
    BY <1>2, OthersStay DEF Crash, Guarded, Sheltered, ProcInv, Solo
  <2>2. AllFresh'
    BY <1>2, <2>1, ToFreshSolo, Calm, AllFreshStays DEF Crash, machine
  <2>3. pc'[m] = "down"
    BY <1>2 DEF Crash, Goto, TypeInv, TypeOK
  <2> QED
    BY <2>1, <2>2, <2>3, FromCalm, FromFreshSolo
<1>3. ASSUME NEW m \in Mgrs, NEW kind, NEW s, pc[m] = "idle" \/ MayStart(m), Begin(m, kind, s)
      PROVE  FreshInv'
  <2>1. /\ pc[m] \in {"down", "idle"}
        /\ \A k \in Mgrs : k # m => pc[k] = "down" /\ pc'[k] = pc[k]
    BY <1>3, BeginnerIsSolo, OthersStay DEF Guarded
  <2>2. AllFresh'
    BY <1>3, <2>1, ToFreshSolo, Calm, AllFreshStays DEF Begin, machine
  <2>3. pc'[m] = "spoke"
    BY <1>3 DEF Begin, Goto, TypeInv, TypeOK
  <2> QED
    BY <2>1, <2>2, <2>3, FromCalm, FromFreshSolo
<1>4. CASE Reboot
  BY <1>4 DEF Reboot, FreshInv, FreshConfig, Upright, Judged, Running, Alive
<1>5. CASE SettingsUnavailable
  <2>1. /\ pc[Svc] \in {"down", "idle"} /\ Svc \in Mgrs
        /\ \A k \in Mgrs : k # Svc => pc[k] = "down"
    BY <1>5, BeginnerIsSolo DEF SettingsUnavailable, Guarded, Mgrs
  <2>2. pc'[Svc] = "idle" /\ \A k \in Mgrs : k # Svc => pc'[k] = pc[k]
    BY <1>5, <2>1 DEF SettingsUnavailable, Goto, TypeInv, TypeOK
  <2>3. AllFresh'
    BY <1>5, <2>1, ToFreshSolo, Calm, AllFreshStays DEF SettingsUnavailable, machine
  <2> QED
    BY <2>1, <2>2, <2>3, FromCalm, FromFreshSolo
<1>6. CASE StartService \/ BeginReconcile \/ BeginCheck \/ Shutdown
  BY <1>3, <1>6 DEF StartService, BeginReconcile, BeginCheck, Shutdown, Mgrs
<1>7. ASSUME NEW m \in Mgrs, RunReconcile(m) \/ RunTeardown(m) PROVE FreshInv'
  BY <1>3, <1>7 DEF RunReconcile, RunTeardown
<1>8. ASSUME NEW p \in Pids, Die(p) PROVE FreshInv'
  <2>1. \A q \in Pids : Alive(q)' => Alive(q) /\ proc'[q] = proc[q]
    BY <1>8 DEF Die, Alive, TypeInv, TypeOK
  <2> QED
    BY <1>8, <2>1 DEF Die, control, FreshInv, FreshConfig, Upright, Judged, Wanted, Running
<1>9. ASSUME NEW p \in Pids, ComeUp(p) PROVE FreshInv'
  <2>1. PICK m \in Mgrs : pc[m] = "settle" /\ new[m] = p
    BY <1>9 DEF ComeUp, FreshInv, Upright
  <2>2. FreshSolo(m) /\ \A k \in Mgrs : k # m => pc[k] = "down"
    BY <2>1, ToFreshSolo DEF ProcInv, Solo
  <2>3. /\ \A q \in Pids : q # p => proc'[q] = proc[q]
        /\ proc'[p] = NoProc \/ /\ proc'[p].conf = conffile[proc[p].spoke]
                                /\ proc'[p].spoke = proc[p].spoke
                                /\ proc'[p].conf # NoConf
    BY <1>9 DEF ComeUp, Alive, TypeInv, TypeOK, Proc
  <2>4. UNCHANGED <<conffile, control>>
    BY <1>9 DEF ComeUp
  <2>5. FreshSolo(m)'
    BY <2>1, <2>2, <2>3, <2>4 DEF FreshSolo, RestartDue, Judged, Running, Alive, control
  <2> QED
    BY <2>2, <2>4, <2>5, FromFreshSolo DEF control
<1>10. ASSUME NEW m \in Mgrs, Step(m) \/ Fail(m) PROVE FreshInv'
  BY <1>10, StepFresh
<1> QED
  BY <1>1, <1>2, <1>4, <1>5, <1>6, <1>7, <1>8, <1>9, <1>10
     DEF Next, Disturb, vars, machine, PatchSettings, BackoffOver

LEMMA InitFresh == Init => FreshInv
  BY DEF Init, FreshInv, FreshConfig, Upright, Judged, Running, Alive

LEMMA NextGuarded ==
  ASSUME Guarded
  PROVE  TypeInv /\ ProcInv /\ ShapeInv /\ FreshInv /\ [Next]_vars
         => TypeInv' /\ ProcInv' /\ ShapeInv' /\ FreshInv'
  BY NextTypeInv, NextProcInv, NextShape, NextFresh DEF Guarded

\* A running obfuscator has loaded what its config file says now, or the pass
\* that rewrote the file is about to restart it.
THEOREM ConfigIsFresh == ASSUME Guarded PROVE Spec => []FreshConfig
PROOF
<1>1. FreshInv => FreshConfig
  BY DEF FreshInv
<1> QED
  BY InitTypeInv, InitProcInv, InitShape, InitFresh, NextGuarded, <1>1, PTL DEF Spec

\* The manager at a stop ends the obfuscator of its own spoke, and for a reason.
LEMMA StopHasReason ==
  ASSUME Guarded, TypeInv, ProcInv, ShapeInv, FreshInv, [Next]_vars,
         NEW m \in Mgrs, pc[m] = "stop", pc'[m] = "unlink",
         NEW p \in Pids, Running(p), ~Alive(p)'
  PROVE  /\ proc[p].spoke = cur[m]
         /\ Unwanted(m) \/ proc[p].conf # snap[m].conf \/ proc[p].bin # snap[m].bin
PROOF
<1>1. Stop(m)
  <2>1. ~UNCHANGED pc
    BY DEF TypeInv, TypeOK
  <2>2. ASSUME NEW k \in Mgrs, Crash(k) \/ \E kind, s : Begin(k, kind, s) PROVE FALSE
    <3>1. k = m
      BY <2>2, OthersStay
    <3> QED
      BY <2>2, <3>1 DEF Crash, Begin, Goto, TypeInv, TypeOK
  <2>3. ASSUME NEW k \in Mgrs, Step(k) \/ Fail(k) PROVE Stop(m)
    <3>1. k = m
      BY <2>3, OthersStay
    <3> QED
      BY <2>3, <3>1 DEF Step, Fail, SpokeFails, StartFails, RecordFails, WriteConfig, Look, TearDown,
                  Clear, CheckSpoke, Unlink, StartAdopts, Spawn, Settle, Record, EndPass
  <2>4. CASE Reboot \/ SettingsUnavailable
    BY <2>4 DEF Reboot, SettingsUnavailable, Goto, MayStart, TypeInv, TypeOK
  <2>5. CASE \/ StartService \/ BeginReconcile \/ BeginCheck \/ Shutdown
             \/ \E k \in Mgrs : RunReconcile(k) \/ RunTeardown(k)
    BY <2>2, <2>5 DEF StartService, BeginReconcile, BeginCheck, Shutdown, RunReconcile, RunTeardown, Mgrs
  <2> QED
    BY <2>1, <2>2, <2>3, <2>4, <2>5
       DEF Next, Disturb, vars, control, Die, ComeUp, PatchSettings, BackoffOver
<1>2. SoloInv(m) /\ cur[m] \in Spokes
  BY ToSolo DEF TypeInv, TypeOK
<1>3. procs[m][cur[m]] = p
  BY <1>1 DEF Stop, Alive, Running, TypeInv, TypeOK
<1>4. proc[p].spoke = cur[m]
  BY <1>2, <1>3, NullAssumption DEF SoloInv, OnFile, Running, Alive
<1> QED
  BY <1>4 DEF ShapeInv, Shape, FreshInv, Judged

\* A working spoke is left alone: what a manager stops is the obfuscator of the
\* spoke it is at, when that spoke is not wanted or the process has another
\* config or another binary than the settings of the pass.
THEOREM StopsAreJustified == ASSUME Guarded PROVE Spec => StopJustified
PROOF
<1>1. TypeInv /\ ProcInv /\ ShapeInv /\ FreshInv /\ [Next]_vars
      => [\A m \in Mgrs : (pc[m] = "stop" /\ pc'[m] = "unlink") =>
          \A p \in Pids : (Running(p) /\ ~Alive(p)') =>
              /\ proc[p].spoke = cur[m]
              /\ \/ Unwanted(m)
                 \/ proc[p].conf # snap[m].conf
                 \/ proc[p].bin # snap[m].bin]_vars
  BY StopHasReason
<1> QED
  BY InitTypeInv, InitProcInv, InitShape, InitFresh, NextGuarded, <1>1, PTL
     DEF Spec, StopJustified

-----------------------------------------------------------------------------
(* The supervisor starts what is missing, and nothing else *)

\* A supervisor that goes on to start an obfuscator has found none on its spoke.
LEMMA CheckFindsNone ==
  ASSUME Sheltered, TypeInv, ProcInv, [Next]_vars,
         NEW m \in Mgrs, mode[m] = "check", pc[m] = "spoke", pc'[m] = "start",
         NEW p \in Pids, Running(p)
  PROVE  proc[p].spoke # cur[m]
PROOF
<1>1. CheckSpoke(m)
  <2>1. ~UNCHANGED pc
    BY DEF TypeInv, TypeOK
  <2>2. ASSUME NEW k \in Mgrs, Crash(k) \/ \E kind, s : Begin(k, kind, s) PROVE FALSE
    <3>1. k = m
      BY <2>2, OthersStay
    <3> QED
      BY <2>2, <3>1 DEF Crash, Begin, Goto, TypeInv, TypeOK
  <2>3. ASSUME NEW k \in Mgrs, Step(k) \/ Fail(k) PROVE CheckSpoke(m)
    <3>1. k = m
      BY <2>3, OthersStay
    <3> QED
      BY <2>3, <3>1 DEF Step, Fail, SpokeFails, StartFails, RecordFails, WriteConfig, Look, TearDown,
                        Clear, Stop, Unlink, StartAdopts, Spawn, Settle, Record, EndPass,
                        Wanted, Unwanted
  <2>4. CASE Reboot \/ SettingsUnavailable
    BY <2>4 DEF Reboot, SettingsUnavailable, Goto, MayStart, TypeInv, TypeOK
  <2>5. CASE \/ StartService \/ BeginReconcile \/ BeginCheck \/ Shutdown
             \/ \E k \in Mgrs : RunReconcile(k) \/ RunTeardown(k)
    BY <2>2, <2>5 DEF StartService, BeginReconcile, BeginCheck, Shutdown, RunReconcile,
                      RunTeardown, Mgrs
  <2> QED
    BY <2>1, <2>2, <2>3, <2>4, <2>5
       DEF Next, Disturb, vars, control, Die, ComeUp, PatchSettings, BackoffOver
<1>2. SoloInv(m)
  BY ToSolo
<1>3. ~Alive(Tracked(m, cur[m]))
  BY <1>1, AdvanceTyped DEF CheckSpoke
<1> QED
  BY <1>2, <1>3, OnlyOne DEF Running

\* While managers do not overlap the supervisor finds an obfuscator missing only
\* where none runs; that it can be wrong is owed to the overlap alone.
THEOREM SupervisorIsRight == ASSUME Sheltered PROVE Spec => SupervisorStartsMissing
PROOF
<1>1. TypeInv /\ ProcInv /\ [Next]_vars => TypeInv' /\ ProcInv'
  BY NextTypeInv, NextProcInv
<1>2. TypeInv /\ ProcInv /\ [Next]_vars
      => [\A m \in Mgrs :
             /\ mode[m] = "check" /\ pc[m] = "spoke" /\ pc'[m] = "start"
             /\ \A k \in Mgrs \ {m} : pc[k] = "down"
             => \A p \in Pids : Running(p) => proc[p].spoke # cur[m]]_vars
  BY CheckFindsNone
<1> QED
  BY InitTypeInv, InitProcInv, <1>1, <1>2, PTL DEF Spec, SupervisorStartsMissing
=============================================================================
