--------------------------- MODULE Firewall_proofs ---------------------------
(* Theorems about the numbers of models.py: addresses and ports never meet; and proofs *)
(* about the firewall, which takes its ports from them, for any number of spokes and   *)
(* values of port_base.                                                                *)
EXTENDS Firewall, WellFoundedInduction, TLAPS

-----------------------------------------------------------------------------
(* Numbers *)

\* An address is one client's on one spoke, or the server's on one spoke.  Peers
\* are told apart by AllowedIPs alone (models.py, client_allowed_ips): an address
\* on two of them would move silently to the one set last.
THEOREM AddressesDistinct ==
    \A i, j \in Indexes : \A k, l \in ClientSlots :
        /\ client_address(i, k) = client_address(j, l) => i = j /\ k = l
        /\ client_address(i, k) # server_address(j)
        /\ server_address(i) = server_address(j) => i = j
  BY DEF Indexes, ClientSlots, SPOKE_MIN, SPOKE_MAX, CLIENT_SLOT_MAX,
         CLIENT_SLOT_STRIDE, client_address, server_address

\* The /30 a router puts on its end is its own: no other client's address is in
\* it, it lies inside the /24 of the spoke, and the address is neither the first
\* (network) nor the last (broadcast) of its four.
THEOREM SlicesDisjoint ==
    \A i \in Indexes : \A k, l \in ClientSlots :
        LET host == client_address(i, k)[2]
        IN  /\ Slice(host) = Slice(client_address(i, l)[2]) => k = l
            /\ host % 4 \in {1, 2} /\ host \in 1 .. 254
            /\ 4 * Slice(host) >= 0 /\ 4 * Slice(host) + 3 <= 255
<1> SUFFICES ASSUME NEW i \in Indexes, NEW k \in ClientSlots, NEW l \in ClientSlots
             PROVE  LET host == client_address(i, k)[2]
                    IN  /\ Slice(host) = Slice(client_address(i, l)[2]) => k = l
                        /\ host % 4 \in {1, 2} /\ host \in 1 .. 254
                        /\ 4 * Slice(host) >= 0 /\ 4 * Slice(host) + 3 <= 255
  OBVIOUS
<1>1. k \in 0 .. 63 /\ l \in 0 .. 63
  BY DEF ClientSlots, CLIENT_SLOT_MAX
<1>2. client_address(i, k)[2] = 4 * k + 2 /\ client_address(i, l)[2] = 4 * l + 2
  BY DEF client_address, CLIENT_SLOT_STRIDE
<1>3. (4 * k + 2) \div 4 = k /\ (4 * l + 2) \div 4 = l /\ (4 * k + 2) % 4 = 2
  BY <1>1
<1> QED
  BY <1>1, <1>2, <1>3 DEF Slice

\* What the message of _check_port_collisions() advises is enough: a base outside
\* 51810 .. 51830 never meets the WireGuard ports.  The check itself is exact.
THEOREM AdviceIsEnough ==
    \A b \in Nat :
        /\ b \notin WG_PORT_BASE - SPOKE_MAX .. WG_PORT_BASE + SPOKE_MAX
              => ObfPorts(b) \cap WgPorts = {}
        /\ ObfPorts(b) \cap WgPorts # {} <=> b \in 51811 .. 51829
<1> SUFFICES ASSUME NEW b \in Nat
             PROVE  /\ b \notin WG_PORT_BASE - SPOKE_MAX .. WG_PORT_BASE + SPOKE_MAX
                          => ObfPorts(b) \cap WgPorts = {}
                    /\ ObfPorts(b) \cap WgPorts # {} <=> b \in 51811 .. 51829
  OBVIOUS
<1>1. ASSUME ObfPorts(b) \cap WgPorts # {} PROVE b \in 51811 .. 51829
  <2>1. PICK i \in 1 .. 10, j \in 1 .. 10 : b + i = 51820 + j
    BY <1>1 DEF ObfPorts, WgPorts, Indexes, SPOKE_MIN, SPOKE_MAX, server_obf_port,
                wg_port, WG_PORT_BASE
  <2> QED BY <2>1
<1>2. ASSUME b \in 51811 .. 51829 PROVE ObfPorts(b) \cap WgPorts # {}
  <2>1. CASE b <= 51820
    <3>1. server_obf_port(10, b) = wg_port(b - 51810) /\ b - 51810 \in 1 .. 10
      BY <1>2, <2>1 DEF server_obf_port, wg_port, WG_PORT_BASE
    <3>2. 10 \in Indexes /\ b - 51810 \in Indexes
      BY <3>1 DEF Indexes, SPOKE_MIN, SPOKE_MAX
    <3> QED BY <3>1, <3>2 DEF ObfPorts, WgPorts
  <2>2. CASE b > 51820
    <3>1. server_obf_port(1, b) = wg_port(b - 51819) /\ b - 51819 \in 1 .. 10
      BY <1>2, <2>2 DEF server_obf_port, wg_port, WG_PORT_BASE
    <3>2. 1 \in Indexes /\ b - 51819 \in Indexes
      BY <3>1 DEF Indexes, SPOKE_MIN, SPOKE_MAX
    <3> QED BY <3>1, <3>2 DEF ObfPorts, WgPorts
  <2> QED BY <2>1, <2>2
<1> QED BY <1>1, <1>2 DEF WG_PORT_BASE, SPOKE_MAX

\* Validated settings stay good for any number of spokes set later: no spoke's
\* obfuscator takes a port of WireGuard, of the API or of another spoke, or one
\* that does not exist.
THEOREM ObfuscatorsCanBind ==
    \A b \in Int : ValidPortBase(b) =>
        \A i, j \in Indexes :
            /\ 1024 < server_obf_port(i, b) /\ server_obf_port(i, b) <= 65535
            /\ server_obf_port(i, b) # wg_port(j)
            /\ server_obf_port(i, b) # ApiPort
            /\ i # j => server_obf_port(i, b) # server_obf_port(j, b)
<1> TAKE b \in Int
<1>1. HAVE ValidPortBase(b)
<1> TAKE i, j \in Indexes
<1>2. 1024 <= b /\ b <= 65525 /\ i \in 1 .. 10 /\ j \in 1 .. 10
  BY <1>1 DEF ValidPortBase, Indexes, SPOKE_MIN, SPOKE_MAX
<1>3. ObfPorts(b) \cap WgPorts = {} /\ ApiPort \notin ObfPorts(b)
  BY <1>1 DEF ValidPortBase, PortsCollide
<1>4. server_obf_port(i, b) \in ObfPorts(b) /\ wg_port(j) \in WgPorts
  BY DEF ObfPorts, WgPorts
<1>5. server_obf_port(i, b) # wg_port(j) /\ server_obf_port(i, b) # ApiPort
  BY <1>3, <1>4
<1>6. 1024 < server_obf_port(i, b) /\ server_obf_port(i, b) <= 65535
  BY <1>2 DEF server_obf_port
<1>7. i # j => server_obf_port(i, b) # server_obf_port(j, b)
  BY <1>2 DEF server_obf_port
<1> QED BY <1>5, <1>6, <1>7

-----------------------------------------------------------------------------
(* Types *)

\* What a pass takes next is one of what is left.
LEMMA LeastIsOne == ASSUME NEW S \in SUBSET Nat, S # {} PROVE Min(S) \in S
<1> DEFINE R == {ss \in Nat \X Nat : ss[1] < ss[2]}
<1>1. IsWellFoundedOn(R, Nat)
  BY NatLessThanWellFounded DEF OpToRel
<1>2. PICK x \in S : \A y \in S : ~ (<<y, x>> \in R)
  BY <1>1, WFMin
<1>3. ASSUME NEW y \in S PROVE x =< y
  <2>1. ~(<<y, x>> \in R) /\ y \in Nat /\ x \in Nat
    BY <1>2
  <2> QED BY <2>1
<1> QED BY <1>3 DEF Min

LEMMA WantsArePorts ==
  /\ Ports \subseteq Nat
  /\ \A w \in Wants \cup {{}} : w \subseteq Ports
<1>1. \A w \in Wants : w \subseteq Nat
  BY FirewallAssumption DEF Wants, server_obf_port, Indexes
<1> QED
  BY <1>1 DEF Ports

\* The port a pass is at.
LEMMA NextPort ==
  ASSUME TypeOK, todo # {}
  PROVE  Min(todo) \in todo /\ Min(todo) \in Ports /\ rules[Min(todo)] \in 0 .. 2
BY LeastIsOne, WantsArePorts DEF TypeOK

LEMMA NoRules == [p \in Ports |-> 0] \in [Ports -> 0 .. 2]
OBVIOUS

LEMMA InitTypes == Init => TypeOK
BY NoRules DEF Init, TypeOK

LEMMA NextTypes == TypeOK /\ [Next]_vars => TypeOK'
<1> SUFFICES ASSUME TypeOK, [Next]_vars PROVE TypeOK'
  OBVIOUS
<1> USE DEF TypeOK
<1>1. CASE Patch
  BY <1>1 DEF Patch, pass
<1>2. CASE BeginPass
  BY <1>2 DEF BeginPass
<1>3. CASE AddBaseRule
  BY <1>3 DEF AddBaseRule, pass
<1>4. CASE ReadJournal \/ JournalUnread
  BY <1>4, WantsArePorts DEF ReadJournal, JournalUnread, Stale
<1>5. CASE Drop \/ Insert
  <2>1. /\ todo # {} /\ todo' = todo \ {Min(todo)}
        /\ rules' \in {rules, [rules EXCEPT ![Min(todo)] = @ - 1], [rules EXCEPT ![Min(todo)] = 1]}
        /\ rules' = [rules EXCEPT ![Min(todo)] = @ - 1] => rules[Min(todo)] > 0 \/ rules' = rules
                                                          \/ rules' = [rules EXCEPT ![Min(todo)] = 1]
        /\ UNCHANGED <<wanted, base, journal, pc, snap, recorded, failed, flushed, torn>>
    BY <1>5 DEF Drop, Insert
  <2>2. rules' \in [Ports -> 0 .. 2]
    BY <2>1, NextPort
  <2> QED
    BY <2>1, <2>2
<1>6. CASE BeginOpen
  BY <1>6, WantsArePorts DEF BeginOpen, ToOpen
<1>7. CASE CheckFails
  BY <1>7, NextPort DEF CheckFails
<1>8. CASE CommandFails
  BY <1>8 DEF CommandFails
<1>9. CASE WriteJournal \/ JournalFails
  BY <1>9 DEF WriteJournal, JournalFails, JournalAfter
<1>10. CASE EndPass
  BY <1>10 DEF EndPass
<1>11. CASE Flush
  BY <1>11, NoRules DEF Flush, pass
<1>12. CASE Crash \/ Reboot
  BY <1>12, NoRules DEF Crash, Reboot, Stopped
<1>13. CASE UNCHANGED vars
  BY <1>13 DEF vars, pass
<1> QED
  BY <1>1, <1>2, <1>3, <1>4, <1>5, <1>6, <1>7, <1>8, <1>9, <1>10, <1>11, <1>12, <1>13
     DEF Next, Disturb, Step

\* The firewall is well typed: no rule is ever there three times, and what the journal
\* and the pass hold are sets of ports some settings want.
THEOREM FirewallTypeCorrect == Spec => []TypeOK
BY InitTypes, NextTypes, PTL DEF Spec

-----------------------------------------------------------------------------
(* What a pass leaves, and what is forgotten *)

\* Past the base rules they are all there, unless somebody has removed them since.
BaseDone ==
    (pc \in {"drop", "open"} \/ (pc = "end" /\ ~failed)) /\ ~flushed => base = BaseRules

\* What the pass has left to do: closing is for ports it does not want, opening
\* for those it does, and those it has dealt with are open.
LeftToDo ==
    /\ pc = "drop" => todo \cap snap = {}
    /\ pc = "open" => todo \subseteq snap /\ (~flushed => snap \ todo \subseteq Opened)
    /\ pc = "end" /\ ~failed /\ ~flushed => snap \subseteq Opened

\* Unless something went wrong, no rule is doubled, and what is open is known: to the
\* journal between passes, and to the pass while it is at it.
Accounted ==
    ~torn =>
        /\ \A p \in Ports : rules[p] <= 1
        /\ pc \notin {"drop", "open"} => Opened \subseteq journal
        /\ pc = "drop" => Opened \subseteq snap \cup todo
        /\ pc = "open" \/ (pc = "end" /\ ~failed) => Opened \subseteq snap

FirewallInv == BaseDone /\ LeftToDo /\ Accounted

LEMMA InitInv == Init => FirewallInv
BY DEF Init, FirewallInv, BaseDone, LeftToDo, Accounted, Opened

\* One step of the loops: the port is as the loop wants it, and no other has changed.
LEMMA DropStep ==
  ASSUME TypeOK, Drop
  PROVE  /\ todo' = todo \ {Min(todo)} /\ Min(todo) \in todo
         /\ \A p \in Ports : p # Min(todo) => rules'[p] = rules[p]
         /\ \A p \in Ports : rules'[p] <= rules[p] /\ rules'[p] \in Nat
         /\ rules[Min(todo)] <= 1 => rules'[Min(todo)] = 0
BY NextPort DEF Drop, TypeOK

LEMMA InsertStep ==
  ASSUME TypeOK, Insert
  PROVE  /\ todo' = todo \ {Min(todo)} /\ Min(todo) \in todo
         /\ \A p \in Ports : p # Min(todo) => rules'[p] = rules[p]
         /\ rules'[Min(todo)] > 0
         /\ rules[Min(todo)] <= 1 => rules'[Min(todo)] <= 1
BY NextPort DEF Insert, TypeOK

LEMMA NextInv == TypeOK /\ FirewallInv /\ [Next]_vars => FirewallInv'
<1> SUFFICES ASSUME TypeOK, FirewallInv, [Next]_vars PROVE FirewallInv'
  OBVIOUS
<1> USE DEF FirewallInv, BaseDone, LeftToDo, Accounted, Opened
<1>1. CASE Patch
  BY <1>1 DEF Patch, pass
<1>2. CASE BeginPass
  BY <1>2 DEF BeginPass
<1>3. CASE AddBaseRule
  BY <1>3 DEF AddBaseRule, pass
<1>4. CASE ReadJournal \/ JournalUnread
  BY <1>4 DEF ReadJournal, JournalUnread, Stale, TypeOK
<1>5. CASE Drop
  <2>1. UNCHANGED <<base, journal, pc, snap, failed, flushed, torn>> /\ pc = "drop"
    BY <1>5 DEF Drop
  <2>2. todo' \cap snap = {}
    BY <1>5, <2>1, DropStep
  <2>3. ASSUME ~torn PROVE (\A p \in Ports : rules'[p] <= 1) /\ Opened' \subseteq snap \cup todo'
    BY <1>5, <2>1, <2>3, DropStep DEF TypeOK
  <2> QED
    BY <2>1, <2>2, <2>3
<1>6. CASE BeginOpen
  BY <1>6 DEF BeginOpen, ToOpen
<1>7. CASE Insert
  <2>1. UNCHANGED <<base, journal, pc, snap, failed, flushed, torn>> /\ pc = "open"
    BY <1>7 DEF Insert
  <2>2. todo' \subseteq snap /\ (~flushed => snap \ todo' \subseteq Opened')
    BY <1>7, <2>1, InsertStep, NextPort DEF Insert
  <2>3. ASSUME ~torn PROVE (\A p \in Ports : rules'[p] <= 1) /\ Opened' \subseteq snap
    BY <1>7, <2>1, <2>3, InsertStep DEF TypeOK
  <2> QED
    BY <2>1, <2>2, <2>3
<1>8. CASE CheckFails
  <2>1. UNCHANGED <<base, journal, pc, snap, failed, flushed>> /\ torn' /\ pc \in {"drop", "open"}
    BY <1>8 DEF CheckFails
  <2>2. todo' = todo \ {Min(todo)} /\ rules[Min(todo)] > 0 /\ (pc = "open" => Opened' = Opened)
    BY <1>8, NextPort DEF CheckFails, TypeOK
  <2> QED
    BY <2>1, <2>2, NextPort DEF CheckFails
<1>9. CASE CommandFails
  BY <1>9 DEF CommandFails
<1>10. CASE WriteJournal
  BY <1>10 DEF WriteJournal, JournalAfter, TypeOK
<1>11. CASE JournalFails
  BY <1>11 DEF JournalFails
<1>12. CASE EndPass
  BY <1>12 DEF EndPass
<1>13. CASE Flush
  BY <1>13 DEF Flush, pass
<1>14. CASE Crash
  BY <1>14 DEF Crash, Stopped
<1>15. CASE Reboot
  BY <1>15 DEF Reboot, Stopped
<1>16. CASE UNCHANGED vars
  BY <1>16 DEF vars, pass
<1> QED
  BY <1>1, <1>2, <1>3, <1>4, <1>5, <1>6, <1>7, <1>8, <1>9, <1>10, <1>11, <1>12, <1>13, <1>14,
     <1>15, <1>16 DEF Next, Disturb, Step

LEMMA FirewallInvariant == Spec => []FirewallInv
BY InitInv, NextInv, FirewallTypeCorrect, PTL DEF Spec

\* orchestrator.py, _reconcile_nat(): a pass without an error leaves every wanted port
\* open and the tunnels routed, whatever earlier passes, crashes and the journal left.
THEOREM WantedIsOpen == Spec => []WantedOpen
<1>1. FirewallInv => WantedOpen
  BY DEF FirewallInv, BaseDone, LeftToDo, WantedOpen
<1> QED
  BY <1>1, FirewallInvariant, PTL

\* The journal is enough: unless something went wrong in the middle of a pass, no port of
\* earlier settings is open after one, across any changes, restarts and reboots.
THEOREM NoPortForgotten == Spec => []NothingForgotten
<1>1. FirewallInv => NothingForgotten
  BY DEF FirewallInv, Accounted, NothingForgotten, NothingStaysOpen
<1> QED
  BY <1>1, FirewallInvariant, PTL

-----------------------------------------------------------------------------
(* What stays open throughout *)

LEMMA StepKeepsOpen ==
  ASSUME TypeOK, FirewallInv, [Next]_vars, NEW p \in snap \cap Opened,
         pc \in {"drop", "open"}, ~flushed', pc' # "down"
  PROVE  p \in Opened'
<1> USE DEF Opened
<1>1. CASE Drop
  <2>1. p # Min(todo)
    BY <1>1, DropStep DEF FirewallInv, LeftToDo, Drop
  <2> QED
    BY <1>1, <2>1, DropStep
<1>2. CASE Insert
  BY <1>2, InsertStep
<1>3. CASE CheckFails
  BY <1>3, NextPort DEF CheckFails, TypeOK
<1>4. CASE Flush \/ Crash \/ Reboot
  BY <1>4 DEF Flush, Crash, Reboot, Stopped
<1>5. CASE UNCHANGED rules
  BY <1>5
<1>6. CASE Patch \/ CommandFails \/ JournalFails \/ BeginPass
  BY <1>5, <1>6 DEF Patch, CommandFails, JournalFails, BeginPass
<1>7. CASE AddBaseRule \/ ReadJournal \/ JournalUnread \/ BeginOpen \/ WriteJournal \/ EndPass
  BY <1>5, <1>7 DEF AddBaseRule, ReadJournal, JournalUnread, BeginOpen, WriteJournal, EndPass
<1>8. CASE UNCHANGED vars
  BY <1>5, <1>8 DEF vars
<1> QED
  BY <1>1, <1>2, <1>3, <1>4, <1>6, <1>7, <1>8 DEF Next, Disturb, Step

\* A port that is wanted before and after a change of the settings is not closed for a
\* moment, unless somebody else removes the rule.
THEOREM WantedStays == Spec => WantedStaysOpen
<1>1. TypeOK /\ FirewallInv /\ [Next]_vars =>
        [\A p \in snap \cap Opened : pc \in {"drop", "open"} /\ ~flushed' /\ pc' # "down"
             => p \in Opened']_vars
  BY StepKeepsOpen
<1> QED
  BY <1>1, FirewallTypeCorrect, FirewallInvariant, PTL DEF Spec, WantedStaysOpen
=============================================================================
