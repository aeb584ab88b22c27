------------------------------ MODULE Numbering ------------------------------
(***************************************************************************)
(* The arithmetic of addresses and ports (models.py): functions of a spoke *)
(* number, a client's slot and port_base, which every other part of the    *)
(* program takes its numbers from.                                         *)
(*                                                                         *)
(* Abstracted: an address 10.77.a.b is the pair <<a, b>>; fields of the    *)
(* settings whose validation is a matter of spelling (host, key, path of   *)
(* the binary, masking) are left out.                                      *)
(***************************************************************************)
EXTENDS Integers

CONSTANT ApiPort    \* api_port(): where uvicorn listens

ASSUME ApiPortAssumption == ApiPort \in Nat /\ 1 <= ApiPort /\ ApiPort <= 65535

SPOKE_MIN == 1
SPOKE_MAX == 10
WG_PORT_BASE == 51820
MTU_MIN == 1280
MTU_MAX == 1500
CLIENT_SLOT_STRIDE == 4
CLIENT_SLOT_MAX == 63

\* What validate_spoke_index() and validate_client_slot() let pass.
Indexes == SPOKE_MIN .. SPOKE_MAX
ClientSlots == 0 .. CLIENT_SLOT_MAX

wg_port(i) == WG_PORT_BASE + i
server_obf_port(i, base) == base + i

\* Both ends of the tunnel of a client on spoke i.
server_address(i) == <<i, 1>>
client_address(i, slot) == <<i, CLIENT_SLOT_STRIDE * slot + 2>>

\* The block of length 4 a /30 mask makes of a host number.
Slice(host) == host \div 4

ObfPorts(base) == {server_obf_port(i, base) : i \in Indexes}
WgPorts == {wg_port(i) : i \in Indexes}

\* _check_port_collisions(): all ten spokes, however many there are now.
PortsCollide(base) == ObfPorts(base) \cap WgPorts # {} \/ ApiPort \in ObfPorts(base)

ValidPortBase(base) == 1024 <= base /\ base <= 65535 - SPOKE_MAX /\ ~PortsCollide(base)

\* Settings.validate()
ValidSettings(s) ==
    /\ s.spokes \in Indexes
    /\ s.mtu \in MTU_MIN .. MTU_MAX
    /\ ValidPortBase(s.port_base)
=============================================================================
