-------------------------------- MODULE Store --------------------------------
(***************************************************************************)
(* The SQLite store of src/server/obfmesh/db.py: the settings row, the     *)
(* spokes and the clients with their keys.  Every method of Database is    *)
(* one transaction (BEGIN IMMEDIATE), so each is one operator here, to be  *)
(* used as one step of whoever calls it.                                   *)
(*                                                                         *)
(* Abstracted: masking, mtu, external_host and obfuscation_key are the     *)
(* single field mtu, for they do the same thing (they go into the bundle   *)
(* and move no port); a client's keys and peers are told apart by its id,  *)
(* and its address on a spoke by its slot (models.client_address is        *)
(* one-to-one in the slot); tokens and timestamps are left out.  The       *)
(* config_version column is a variable of module Bundles.                  *)
(***************************************************************************)
EXTENDS Naturals, FiniteSetsExt

CONSTANTS
    SpokeMax,   \* SPOKE_MAX
    SlotMax,    \* CLIENT_SLOT_MAX
    Names,      \* names of clients
    Ids,        \* clients; two with the same name are different ids
    Bases,      \* values of port_base
    Mtus,       \* values of a field that goes into the bundle
    Bins,       \* values of obfuscator_bin, which does not
    NoRow

ASSUME StoreAssumption == /\ SpokeMax \in Nat \ {0}
                          /\ SlotMax \in Nat
                          /\ NoRow \notin [on: BOOLEAN, base: Bases, key: Nat]

Spokes == 1 .. SpokeMax
Slots == 0 .. SlotMax

Settings == [n: Spokes, base: Bases, mtu: Mtus, bin: Bins]

\* key counts the key pairs generated for the spoke.
Row == [on: BOOLEAN, base: Bases, key: Nat]

\* keys: the spokes the client has keys for.
Client == [id: Ids, name: Names, slot: Slots, keys: SUBSET Spokes]

VARIABLES
    settings,   \* the settings row
    rows,       \* the spokes table; a spoke that was never wanted has no row
    clients     \* the clients table joined with client_keys

store == <<settings, rows, clients>>

StoreTypeOK ==
    /\ settings \in Settings
    /\ rows \in [Spokes -> Row \cup {NoRow}]
    /\ clients \subseteq Client

\* A fresh store, or one written by a release that knew fewer spokes, whose
\* clients have keys for the first spokes only.
StoreInit ==
    /\ settings \in Settings
    /\ rows = [i \in Spokes |-> NoRow]
    /\ clients \in {{}} \cup {{[id |-> d, name |-> x, slot |-> 0, keys |-> 1 .. k]} :
                                d \in Ids, x \in Names, k \in Spokes}

WantedSpokes(s) == 1 .. s.n

\* _BUNDLE_FIELDS: a change of one of these changes every bundle.
BundleFields(s) == <<s.n, s.base, s.mtu>>

UpdateSettings(s) ==
    /\ s \in Settings /\ s # settings
    /\ settings' = s
    /\ UNCHANGED <<rows, clients>>

-----------------------------------------------------------------------------
(* Spokes *)

\* Mutant: a spoke that comes back gets new keys.
RowEnsuredNewKeys(i, base) ==
    IF rows[i] = NoRow THEN [on |-> TRUE, base |-> base, key |-> 1]
    ELSE IF rows[i].on THEN [rows[i] EXCEPT !.base = base]
    ELSE [on |-> TRUE, base |-> base, key |-> (rows[i].key % 2) + 1]

\* Created if missing, else enabled and its port put right; never re-keyed.
RowEnsured(i, base) ==
    IF rows[i] = NoRow THEN [on |-> TRUE, base |-> base, key |-> 1]
    ELSE [rows[i] EXCEPT !.on = TRUE, !.base = base]

EnsureSpoke(i, base) ==
    /\ rows' = [rows EXCEPT ![i] = RowEnsured(i, base)]
    /\ UNCHANGED <<settings, clients>>

DisableSpoke(i) ==
    /\ rows' = [rows EXCEPT ![i] = IF @ = NoRow THEN NoRow ELSE [@ EXCEPT !.on = FALSE]]
    /\ UNCHANGED <<settings, clients>>

Enabled == {i \in Spokes : rows[i] # NoRow /\ rows[i].on}

-----------------------------------------------------------------------------
(* Clients *)

FreeSlots == Slots \ {c.slot : c \in clients}

\* Keys for every spoke at once: a later change of the number of spokes needs
\* no new keys.  An id stands for its key pairs, so it is a fresh one.
CreateClient(name, id) ==
    /\ \A c \in clients : c.name # name /\ c.id # id
    /\ FreeSlots # {}
    /\ clients' = clients \cup {[id |-> id, name |-> name, slot |-> Min(FreeSlots), keys |-> Spokes]}
    /\ UNCHANGED <<settings, rows>>

DeleteClient(name) ==
    /\ \E c \in clients : c.name = name
    /\ clients' = {c \in clients : c.name # name}
    /\ UNCHANGED <<settings, rows>>

\* Mutant: no keys are added for the spokes a client lacks.
WithKeysNever(s) == IF s \in Settings THEN clients ELSE {}

\* ensure_client_keys: what is missing is added, nothing is replaced.
WithKeys(s) == {[c EXCEPT !.keys = @ \cup WantedSpokes(s)] : c \in clients}

EnsureClientKeys(s) ==
    /\ clients' = WithKeys(s)
    /\ UNCHANGED <<settings, rows>>

\* client_peers: who may talk on the spoke, and from which address.
ClientPeers(i) == {[id |-> c.id, slot |-> c.slot] : c \in {x \in clients : i \in x.keys}}
=============================================================================
