----------------------------- MODULE SpokeService -----------------------------
(***************************************************************************)
(* What the orchestrator promises of the obfuscators of the spokes, seen   *)
(* from the machine alone: no manager, no pid file, no memory, no pass.    *)
(* A spoke has one process or none.  A process keeps the binary it was     *)
(* started with and the config it has loaded until it ends: to change      *)
(* either is to end it first, and to start in the empty place after that.  *)
(***************************************************************************)
CONSTANTS Spokes, Pids, Bins, Confs,
          NoConf,   \* the config of a process that is starting up
          NoProc

VARIABLE proc       \* the live processes by pid

Init == proc = [p \in Pids |-> NoProc]

Vacant(i) == \A p \in Pids : proc[p] # NoProc => proc[p].spoke # i

\* A start takes the place of nothing.
Launch(p) ==
    /\ proc[p] = NoProc
    /\ \E i \in Spokes, b \in Bins :
         /\ Vacant(i)
         /\ proc' = [proc EXCEPT ![p] = [spoke |-> i, bin |-> b, conf |-> NoConf]]

Load(p) ==
    /\ proc[p] # NoProc /\ proc[p].conf = NoConf
    /\ \E c \in Confs : proc' = [proc EXCEPT ![p].conf = c]

\* Stopped, or dead by itself.
End(p) == proc[p] # NoProc /\ proc' = [proc EXCEPT ![p] = NoProc]

\* A reboot.
Blackout == proc' = [p \in Pids |-> NoProc]

Next == (\E p \in Pids : Launch(p) \/ Load(p) \/ End(p)) \/ Blackout

Spec == Init /\ [][Next]_proc
=============================================================================
