---------------------------- MODULE MCObfuscators ----------------------------
(* Instances of Obfuscators for TLC. *)
EXTENDS Obfuscators, TLC

CONSTANTS c1, c2, c3

\* c2 differs from c1 in the key, c3 in the port base: under c3 every spoke
\* listens where its right-hand neighbour listens under c1.
MCBase == [c \in Confs |-> IF c = c3 THEN 1 ELSE 0]

\* Every point but the two windows of a pass that the service does not survive
\* unharmed: between a rewritten config file and the restart, and between Popen
\* and the pid file.
CrashOutside == {"idle", "spoke", "unlink", "clear", "start", "spawn", "end"}
CrashNowhere == {}

FailNowhere == {}
FailBefore == {"begin", "spoke", "start", "spawn"}
FailStarting == {"start", "spawn", "record"}

PidSymmetry == Permutations(Pids)
=============================================================================
