----------------------------- MODULE Mesh_proofs -----------------------------
(***************************************************************************)
(* Proofs about the interfaces and the peers, for any number of spokes,    *)
(* slots, clients and values of the settings.                              *)
(***************************************************************************)
EXTENDS Mesh, WellFoundedInduction, TLAPS

-----------------------------------------------------------------------------
(* The store: as for module Bundles *)

LEMMA OneIsASpoke == 1 \in Spokes
  BY StoreAssumption DEF Spokes

LEMMA RowsTyped ==
  ASSUME StoreTypeOK, NEW i \in Spokes, NEW base \in Bases
  PROVE  /\ RowEnsured(i, base) \in Row
         /\ rows[i] # NoRow => rows[i] \in Row /\ RowEnsured(i, base).key = rows[i].key
PROOF
<1>1. CASE rows[i] = NoRow
  BY <1>1 DEF RowEnsured, Row
<1>2. CASE rows[i] # NoRow
  <2>1. rows[i] \in Row
    BY <1>2 DEF StoreTypeOK
  <2>2. RowEnsured(i, base) = [rows[i] EXCEPT !.on = TRUE, !.base = base]
    BY <1>2 DEF RowEnsured
  <2> QED
    BY <2>1, <2>2 DEF Row
<1> QED
  BY <1>1, <1>2

\* A set of natural numbers that is not empty has its least member in it.
LEMMA LeastIsOne == ASSUME NEW S \in SUBSET Nat, S # {} PROVE Min(S) \in S
PROOF
<1> DEFINE R == {ss \in Nat \X Nat : ss[1] < ss[2]}
<1>1. IsWellFoundedOn(R, Nat)
  BY NatLessThanWellFounded DEF OpToRel
<1>2. PICK x \in S : \A y \in S : ~ (<<y, x>> \in R)
  BY <1>1, WFMin
<1>3. ASSUME NEW y \in S PROVE x <= y
  <2>1. ~(<<y, x>> \in R) /\ y \in Nat /\ x \in Nat
    BY <1>2
  <2> QED
    BY <2>1
<1> QED
  BY <1>3 DEF Min

LEMMA FreeSlotIsFree ==
  ASSUME FreeSlots # {}
  PROVE  Min(FreeSlots) \in Slots /\ \A c \in clients : c.slot # Min(FreeSlots)
PROOF
<1>1. FreeSlots \in SUBSET Nat
  BY StoreAssumption DEF FreeSlots, Slots
<1>2. Min(FreeSlots) \in FreeSlots
  BY <1>1, LeastIsOne
<1> QED
  BY <1>2 DEF FreeSlots

\* A client gets keys for what it lacks and is otherwise the same.
LEMMA WithKeysTyped ==
  ASSUME StoreTypeOK, NEW s \in Settings
  PROVE  WithKeys(s) \subseteq Client
PROOF
<1>1. WantedSpokes(s) \subseteq Spokes
  BY StoreAssumption DEF WantedSpokes, Settings, Spokes
<1>2. \A c \in clients : [c EXCEPT !.keys = @ \cup WantedSpokes(s)] \in Client
  BY <1>1 DEF StoreTypeOK, Client
<1> QED
  BY <1>2 DEF WithKeys

LEMMA InitStore == StoreInit => StoreTypeOK
PROOF
<1> SUFFICES ASSUME StoreInit PROVE StoreTypeOK
  OBVIOUS
<1>1. clients \subseteq Client
  <2>1. \A k \in Spokes : 1 .. k \subseteq Spokes
    BY StoreAssumption DEF Spokes
  <2>2. 0 \in Slots
    BY StoreAssumption DEF Slots
  <2>3. \A d \in Ids, x \in Names, k \in Spokes :
            [id |-> d, name |-> x, slot |-> 0, keys |-> 1 .. k] \in Client
    BY <2>1, <2>2 DEF Client
  <2>4. clients \in {{}} \cup {{[id |-> d, name |-> x, slot |-> 0, keys |-> 1 .. k]} :
                                 d \in Ids, x \in Names, k \in Spokes}
    BY DEF StoreInit
  <2>5. CASE clients = {}
    BY <2>5
  <2>6. CASE clients # {}
    <3>1. PICK d \in Ids, x \in Names, k \in Spokes :
              clients = {[id |-> d, name |-> x, slot |-> 0, keys |-> 1 .. k]}
      BY <2>4, <2>6
    <3> QED
      BY <2>3, <3>1
  <2> QED
    BY <2>5, <2>6
<1> QED
  BY <1>1 DEF StoreInit, StoreTypeOK

-----------------------------------------------------------------------------
(* Interfaces *)

Fields == {"address", "stray", "mtu", "key", "port", "up"}

\* A command sets one field of the interface, to what it should be.
LEMMA CommandIsOne ==
  ASSUME NEW i \in Spokes, NEW s, Wrong(i, s) # {}
  PROVE  /\ Commands[Min(Wrong(i, s))] \in Fields
         /\ link[i][Commands[Min(Wrong(i, s))]] # RightLink(i, s)[Commands[Min(Wrong(i, s))]]
PROOF
<1>1. Wrong(i, s) \in SUBSET Nat
  BY DEF Wrong, Commands
<1>2. Min(Wrong(i, s)) \in Wrong(i, s)
  BY <1>1, LeastIsOne
<1>3. \A k \in DOMAIN Commands : Commands[k] \in Fields
  BY DEF Commands, Fields
<1> QED
  BY <1>2, <1>3 DEF Wrong

\* It leaves the peers, and every other field.
LEMMA CommandTyped ==
  ASSUME NEW r \in Link, NEW c \in Fields, NEW i \in Spokes, NEW s \in Settings,
         rows[i].key \in Nat,
         NEW set, set = [r EXCEPT ![c] = RightLink(i, s)[c]]
  PROVE  set \in Link /\ set.peers = r.peers /\ (c # "key" => set.key = r.key)
PROOF
<1> DEFINE right == RightLink(i, s)
<1>0. set = [r EXCEPT ![c] = right[c]]
  OBVIOUS
<1>1. /\ right["address"] \in BOOLEAN /\ right["stray"] \in BOOLEAN /\ right["mtu"] \in Mtus
      /\ right["key"] \in Nat /\ right["port"] \in BOOLEAN /\ right["up"] \in BOOLEAN
  BY DEF RightLink, Settings
<1> HIDE DEF right
<1>2. set \in Link
  <2>1. CASE c = "address"
    BY <1>0, <1>1, <2>1 DEF Link
  <2>2. CASE c = "stray"
    BY <1>0, <1>1, <2>2 DEF Link
  <2>3. CASE c = "mtu"
    BY <1>0, <1>1, <2>3 DEF Link
  <2>4. CASE c = "key"
    BY <1>0, <1>1, <2>4 DEF Link
  <2>5. CASE c = "port"
    BY <1>0, <1>1, <2>5 DEF Link
  <2>6. CASE c = "up"
    BY <1>0, <1>1, <2>6 DEF Link
  <2> QED
    BY <2>1, <2>2, <2>3, <2>4, <2>5, <2>6 DEF Fields
<1>3. set.peers = r.peers /\ (c # "key" => set.key = r.key)
  BY <1>0 DEF Link, Fields
<1> QED
  BY <1>2, <1>3

LEMMA GivenTyped ==
  ASSUME NEW peers \in SUBSET Peer, NEW p \in Peer
  PROVE  Given(peers, p) \in SUBSET Peer
  BY DEF Given, Peer

LEMMA PeersTyped ==
  ASSUME StoreTypeOK, NEW i \in Spokes
  PROVE  ClientPeers(i) \in SUBSET Peer
  BY DEF ClientPeers, StoreTypeOK, Client, Peer

-----------------------------------------------------------------------------
(* Types, and where a pass is *)

InPass == {"row", "link", "peers", "obf", "undo"}

\* Which spokes a pass handles where, and what it has put right on its way to
\* the label it is at.
Shape ==
    /\ pc \in InPass \cup {"keys"} => snap \in Settings
    /\ pc \in {"down", "idle"} => snap = NoSettings
    /\ pc \in {"row", "link", "peers", "obf"} => cur <= snap.n
    /\ pc = "undo" => cur > snap.n
    /\ pc = "keys" => cur = 1
    /\ pc # "peers" => toset = {} /\ todel = {}
    /\ pc \in {"link", "peers", "obf"} => cur \in Enabled
    /\ pc \in {"peers", "obf"} => link[cur] # NoLink /\ Wrong(cur, snap) = {}

TypeInv == TypeOK /\ Shape

\* The loop of a pass goes on with a wanted spoke, an unwanted one, or the end.
LEMMA NextSpokeTyped ==
  ASSUME cur \in Spokes, snap \in Settings, NextSpoke
  PROVE  /\ cur' \in Spokes /\ pc' \in {"row", "undo", "end"}
         /\ toset' = {} /\ todel' = {}
         /\ pc' = "row" => cur' <= snap.n
         /\ pc' = "undo" => cur' > snap.n
         /\ pc' # "end" => cur' = cur + 1
         /\ pc' = "end" => cur = SpokeMax
PROOF
<1>1. cur \in 1 .. SpokeMax /\ snap.n \in 1 .. SpokeMax
  BY DEF Spokes, Settings
<1> QED
  BY <1>1, StoreAssumption DEF NextSpoke, Spokes

LEMMA InitType == Init => TypeInv
PROOF
<1> SUFFICES ASSUME Init PROVE TypeInv
  OBVIOUS
<1>1. StoreTypeOK
  BY InitStore DEF Init
<1>2. link \in [Spokes -> Link \cup {NoLink}]
  <2>1. PICK m \in Mtus : link \in [Spokes -> {NoLink, OldLink(m)}]
    BY DEF Init
  <2> DEFINE old == {[id |-> Stranger, slot |-> 0]} \cup {[id |-> c.id, slot |-> NoSlot] : c \in clients}
  <2>2. old \subseteq Peer
    BY <1>1, StoreAssumption DEF StoreTypeOK, Client, Peer, Slots
  <2>3. OldLink(m) = [NewLink(m) EXCEPT !.stray = TRUE, !.up = TRUE, !.peers = old]
    BY DEF OldLink
  <2> HIDE DEF old
  <2>4. OldLink(m) \in Link
    <3>1. OldLink(m) = [address |-> FALSE, stray |-> TRUE, mtu |-> m, key |-> 0,
                        port |-> FALSE, up |-> TRUE, peers |-> old]
      BY <2>3 DEF NewLink
    <3> QED
      BY <2>2, <3>1 DEF Link
  <2> QED
    BY <2>1, <2>4
<1> QED
  BY <1>1, <1>2, OneIsASpoke DEF Init, TypeInv, TypeOK, Shape, InPass

LEMMA RequestsType ==
  ASSUME TypeInv, Patch \/ PostClient \/ RemoveClient
  PROVE  TypeInv'
PROOF
<1>1. StoreTypeOK' /\ rows' = rows
  <2>1. CASE Patch
    BY <2>1 DEF Patch, UpdateSettings, TypeInv, TypeOK, StoreTypeOK
  <2>2. CASE PostClient
    <3>1. PICK x \in Names, d \in Ids : CreateClient(x, d)
      BY <2>2 DEF PostClient
    <3>2. [id |-> d, name |-> x, slot |-> Min(FreeSlots), keys |-> Spokes] \in Client
      BY <3>1, FreeSlotIsFree DEF CreateClient, Client
    <3> QED
      BY <3>1, <3>2 DEF CreateClient, TypeInv, TypeOK, StoreTypeOK
  <2>3. CASE RemoveClient
    BY <2>3 DEF RemoveClient, DeleteClient, TypeInv, TypeOK, StoreTypeOK
  <2> QED
    BY <2>1, <2>2, <2>3
<1>2. \E kind \in {"patch", "create", "delete"} : Commits(kind)
  BY DEF Patch, PostClient, RemoveClient
<1>3. TypeOK'
  BY <1>1, <1>2 DEF Commits, TypeInv, TypeOK, pass
<1>4. UNCHANGED <<pc, cur, snap, toset, todel, link, rows>>
  BY <1>1, <1>2 DEF Commits, pass
<1> QED
  BY <1>3, <1>4 DEF TypeInv, Shape, Enabled, Wrong, RightLink

LEMMA BeginPassType ==
  ASSUME TypeInv, pc \in {"down", "idle"}, BeginPass,
         req' \in {"none", "boot", "committed", "passing"},
         what' \in {"none", "patch", "create", "delete", "teardown"},
         answer' \in {"none", "ok", "errors"}
  PROVE  TypeInv'
PROOF
<1>1. StoreTypeOK' /\ settings \in Settings
  BY DEF BeginPass, TypeInv, TypeOK, StoreTypeOK, store
<1>2. TypeOK'
  BY <1>1, OneIsASpoke DEF BeginPass, TypeInv, TypeOK
<1>3. Shape'
  BY <1>1 DEF BeginPass, TypeInv, Shape, InPass
<1> QED
  BY <1>2, <1>3 DEF TypeInv

\* A step that leaves the store.
LEMMA StoreKept ==
  ASSUME TypeInv, UNCHANGED store
  PROVE  StoreTypeOK' /\ rows' = rows /\ settings' = settings /\ clients' = clients
  BY DEF TypeInv, TypeOK, StoreTypeOK, store

\* The steps of a pass up to the end of a spoke's part of it.
LEMMA PassType ==
  ASSUME TypeInv,
         \/ SettingsFail \/ Keys \/ KeysFail \/ EnsureRow \/ CreateLink \/ Configure
         \/ ReadPeers \/ ReadNoPeers \/ SetPeer \/ RemovePeer \/ PeersDone
  PROVE  TypeInv'
PROOF
<1> USE DEF TypeInv
<1>1. CASE SettingsFail
  <2>1. TypeOK'
    BY <1>1, StoreKept DEF SettingsFail, TypeOK
  <2> QED
    BY <1>1, <2>1 DEF SettingsFail, Shape, InPass
<1>2. CASE Keys
  <2>1. StoreTypeOK'
    BY <1>2, WithKeysTyped DEF Keys, EnsureClientKeys, TypeOK, StoreTypeOK, Shape
  <2>2. TypeOK'
    BY <1>2, <2>1 DEF Keys, TypeOK
  <2>3. snap.n >= 1
    BY <1>2 DEF Keys, Shape, Settings, Spokes
  <2> QED
    BY <1>2, <2>2, <2>3 DEF Keys, Shape, InPass
<1>3. CASE KeysFail
  <2>1. TypeOK'
    BY <1>3, StoreKept DEF KeysFail, TypeOK
  <2>2. snap.n >= 1
    BY <1>3 DEF KeysFail, Shape, Settings, Spokes
  <2> QED
    BY <1>3, <2>1, <2>2 DEF KeysFail, Shape, InPass
<1>4. CASE EnsureRow
  <2>1. snap.base \in Bases /\ cur \in Spokes
    BY <1>4 DEF EnsureRow, TypeOK, Shape, InPass, Settings
  <2>2. RowEnsured(cur, snap.base) \in Row
    BY <2>1, RowsTyped DEF TypeOK
  <2>3. rows' = [rows EXCEPT ![cur] = RowEnsured(cur, snap.base)]
    BY <1>4 DEF EnsureRow, EnsureSpoke
  <2>4. StoreTypeOK'
    BY <1>4, <2>2, <2>3 DEF EnsureRow, EnsureSpoke, TypeOK, StoreTypeOK
  <2>5. TypeOK'
    BY <1>4, <2>4 DEF EnsureRow, TypeOK
  <2>6. rows'[cur] = RowEnsured(cur, snap.base)
    BY <2>1, <2>3 DEF TypeOK, StoreTypeOK
  <2>7. RowEnsured(cur, snap.base).on
    <3>1. CASE rows[cur] = NoRow
      BY <3>1 DEF RowEnsured
    <3>2. CASE rows[cur] # NoRow
      BY <2>1, <3>2 DEF RowEnsured, TypeOK, StoreTypeOK, Row
    <3> QED
      BY <3>1, <3>2
  <2>8. cur \in Enabled'
    BY <2>1, <2>2, <2>6, <2>7, StoreAssumption DEF Enabled, Row
  <2> QED
    BY <1>4, <2>5, <2>8 DEF EnsureRow, Shape, InPass
<1>5. CASE CreateLink
  <2>1. PICK m \in Mtus : link' = [link EXCEPT ![cur] = NewLink(m)]
    BY <1>5 DEF CreateLink
  <2>2. NewLink(m) \in Link
    BY DEF NewLink, Link
  <2>3. link' \in [Spokes -> Link \cup {NoLink}]
    BY <2>1, <2>2 DEF TypeOK
  <2>4. TypeOK'
    BY <1>5, <2>3, StoreKept DEF CreateLink, TypeOK, pass
  <2>5. Enabled' = Enabled
    BY <1>5, StoreKept DEF CreateLink, Enabled
  <2> QED
    BY <1>5, <2>4, <2>5 DEF CreateLink, Shape, InPass, pass
<1>6. CASE Configure
  <2> DEFINE c == Commands[Min(Wrong(cur, snap))]
  <2>1. cur \in Spokes /\ snap \in Settings /\ link[cur] \in Link /\ rows[cur] \in Row
    BY <1>6 DEF Configure, TypeOK, Shape, InPass, Enabled, StoreTypeOK
  <2>2. c \in Fields
    BY <1>6, <2>1, CommandIsOne DEF Configure
  <2>3. rows[cur].key \in Nat
    BY <2>1 DEF Row
  <2> DEFINE set == [link[cur] EXCEPT ![c] = RightLink(cur, snap)[c]]
  <2>4. set \in Link
    BY <2>1, <2>2, <2>3, CommandTyped
  <2>5. link' = [link EXCEPT ![cur] = set]
    BY <1>6 DEF Configure
  <2> HIDE DEF set
  <2>6. link' \in [Spokes -> Link \cup {NoLink}]
    BY <2>4, <2>5 DEF TypeOK
  <2>7. TypeOK'
    BY <1>6, <2>6, StoreKept DEF Configure, TypeOK, pass
  <2>8. Enabled' = Enabled
    BY <1>6, StoreKept DEF Configure, Enabled
  <2> QED
    BY <1>6, <2>7, <2>8 DEF Configure, Shape, InPass, pass
<1>7. CASE ReadPeers \/ ReadNoPeers
  <2>1. cur \in Spokes /\ link[cur] \in Link
    BY <1>7 DEF ReadPeers, ReadNoPeers, TypeOK
  <2>2. link[cur].peers \in SUBSET Peer
    BY <2>1 DEF Link
  <2>3. toset' \subseteq Peer /\ todel' \subseteq Peer
    BY <1>7, <2>1, <2>2, PeersTyped DEF ReadPeers, ReadNoPeers, PeersToSet, PeersToRemove, TypeOK
  <2>4. TypeOK'
    BY <1>7, <2>3, StoreKept DEF ReadPeers, ReadNoPeers, TypeOK
  <2>5. Enabled' = Enabled /\ Wrong(cur, snap)' = Wrong(cur, snap) /\ UNCHANGED <<link, cur, snap>>
    BY <1>7, StoreKept DEF ReadPeers, ReadNoPeers, Enabled, Wrong, RightLink
  <2> QED
    BY <1>7, <2>4, <2>5 DEF ReadPeers, ReadNoPeers, Shape, InPass
<1>8. CASE SetPeer \/ RemovePeer
  <2>1. cur \in Spokes /\ link[cur] \in Link /\ link[cur] # NoLink
    BY <1>8 DEF SetPeer, RemovePeer, TypeOK, Shape
  <2>2. PICK ps \in SUBSET Peer : link' = [link EXCEPT ![cur].peers = ps]
    <3>1. link[cur].peers \in SUBSET Peer
      BY <2>1 DEF Link
    <3>2. CASE SetPeer
      <4>1. PICK p \in toset : link' = [link EXCEPT ![cur].peers = Given(@, p)]
        BY <3>2 DEF SetPeer
      <4>2. Given(link[cur].peers, p) \in SUBSET Peer
        BY <3>1, GivenTyped DEF TypeOK
      <4> QED
        BY <4>1, <4>2
    <3>3. CASE RemovePeer
      <4>1. PICK p \in todel : link' = [link EXCEPT ![cur].peers = {q \in @ : q.id # p.id}]
        BY <3>3 DEF RemovePeer
      <4>2. {q \in link[cur].peers : q.id # p.id} \in SUBSET Peer
        BY <3>1
      <4> QED
        BY <4>1, <4>2
    <3> QED
      BY <1>8, <3>2, <3>3
  <2> DEFINE set == [link[cur] EXCEPT !.peers = ps]
  <2>3. set \in Link /\ \A k \in Fields : set[k] = link[cur][k]
    BY <2>1 DEF Link, Fields
  <2>4. link' = [link EXCEPT ![cur] = set]
    BY <2>2
  <2> HIDE DEF set
  <2>5. link' \in [Spokes -> Link \cup {NoLink}] /\ link'[cur] = set
    BY <2>1, <2>3, <2>4 DEF TypeOK
  <2>6. toset' \subseteq Peer /\ todel' \subseteq Peer
    BY <1>8 DEF SetPeer, RemovePeer, TypeOK
  <2>7. TypeOK'
    BY <1>8, <2>5, <2>6, StoreKept DEF SetPeer, RemovePeer, TypeOK
  <2>8. Enabled' = Enabled /\ UNCHANGED <<cur, snap, pc, rows>>
    BY <1>8, StoreKept DEF SetPeer, RemovePeer, Enabled
  <2>9. \A k \in DOMAIN Commands : Commands[k] \in Fields
    BY DEF Commands, Fields
  <2>10. Wrong(cur, snap)' = Wrong(cur, snap)
    BY <2>3, <2>5, <2>8, <2>9 DEF Wrong, RightLink
  <2>11. link'[cur] # NoLink
    BY <2>3, <2>5, NullAssumption
  <2> QED
    BY <1>8, <2>7, <2>8, <2>10, <2>11 DEF SetPeer, RemovePeer, Shape, InPass
<1>9. CASE PeersDone
  <2>1. TypeOK'
    BY <1>9, StoreKept DEF PeersDone, TypeOK
  <2>2. Enabled' = Enabled /\ Wrong(cur, snap)' = Wrong(cur, snap)
    BY <1>9, StoreKept DEF PeersDone, Enabled, Wrong, RightLink
  <2> QED
    BY <1>9, <2>1, <2>2 DEF PeersDone, Shape, InPass
<1> QED
  BY <1>1, <1>2, <1>3, <1>4, <1>5, <1>6, <1>7, <1>8, <1>9

\* The rows stay rows, with their keys, when a spoke is put out of use.
LEMMA DisableTyped ==
  ASSUME StoreTypeOK, NEW j \in Spokes, DisableSpoke(j)
  PROVE  /\ StoreTypeOK' /\ settings' = settings /\ clients' = clients
         /\ j \notin Enabled'
         /\ \A i \in Spokes \ {j} : rows'[i] = rows[i]
         /\ \A i \in Spokes : (rows[i] # NoRow => rows'[i] # NoRow /\ rows'[i].key = rows[i].key)
PROOF
<1> DEFINE off == IF rows[j] = NoRow THEN NoRow ELSE [rows[j] EXCEPT !.on = FALSE]
<1>1. off \in Row \cup {NoRow}
  BY DEF StoreTypeOK, Row
<1>2. /\ off # NoRow => ~off.on
      /\ rows[j] # NoRow => off # NoRow /\ off.key = rows[j].key
  <2>1. CASE rows[j] = NoRow
    BY <2>1
  <2>2. CASE rows[j] # NoRow
    <3>1. rows[j] \in Row
      BY <2>2 DEF StoreTypeOK
    <3>2. off \in Row /\ ~off.on /\ off.key = rows[j].key
      BY <2>2, <3>1 DEF Row
    <3> QED
      BY <3>2, StoreAssumption DEF Row
  <2> QED
    BY <2>1, <2>2
<1>3. rows' = [rows EXCEPT ![j] = off]
  BY DEF DisableSpoke
<1> HIDE DEF off
<1>4. rows' \in [Spokes -> Row \cup {NoRow}]
  BY <1>1, <1>3 DEF StoreTypeOK
<1>5. StoreTypeOK' /\ settings' = settings /\ clients' = clients
  BY <1>4 DEF StoreTypeOK, DisableSpoke
<1>6. rows'[j] = off /\ \A i \in Spokes \ {j} : rows'[i] = rows[i]
  BY <1>3 DEF StoreTypeOK
<1>7. j \notin Enabled'
  BY <1>2, <1>6 DEF Enabled
<1> QED
  BY <1>2, <1>5, <1>6, <1>7

\* The end of one spoke's part of the pass.
LEMMA NextSpokeType ==
  ASSUME TypeInv, pc \in InPass, NextSpoke, StoreTypeOK', snap' = snap,
         link' \in [Spokes -> Link \cup {NoLink}],
         obf' \subseteq Spokes, errs' \subseteq Spokes \cup {0},
         req' = req, what' = what, answer' = answer
  PROVE  TypeInv'
PROOF
<1>1. cur \in Spokes /\ snap \in Settings
  BY DEF TypeInv, TypeOK, Shape, InPass
<1>2. /\ cur' \in Spokes /\ pc' \in {"row", "undo", "end"}
      /\ toset' = {} /\ todel' = {}
      /\ pc' = "row" => cur' <= snap.n
      /\ pc' = "undo" => cur' > snap.n
  BY <1>1, NextSpokeTyped
<1>3. TypeOK'
  BY <1>2 DEF TypeInv, TypeOK
<1>4. Shape'
  BY <1>1, <1>2 DEF Shape, InPass
<1> QED
  BY <1>3, <1>4 DEF TypeInv

LEMMA SpokeEndsType ==
  ASSUME TypeInv, Obfuscator \/ Undo \/ UndoFails \/ SpokeFails
  PROVE  TypeInv'
PROOF
<1>1. pc \in InPass /\ NextSpoke /\ UNCHANGED <<snap, req, what, answer>> /\ cur \in Spokes
  BY DEF Obfuscator, Undo, UndoFails, SpokeFails, InPass, TypeInv, TypeOK
<1>2. StoreTypeOK'
  <2>1. CASE Undo
    BY <1>1, <2>1, DisableTyped DEF Undo, TypeInv, TypeOK
  <2>2. CASE Obfuscator \/ UndoFails \/ SpokeFails
    BY <2>2, StoreKept DEF Obfuscator, UndoFails, SpokeFails
  <2> QED
    BY <2>1, <2>2
<1>3. link' \in [Spokes -> Link \cup {NoLink}]
  <2>1. CASE Undo
    BY <2>1 DEF Undo, TypeInv, TypeOK
  <2>2. CASE Obfuscator \/ UndoFails \/ SpokeFails
    BY <2>2 DEF Obfuscator, UndoFails, SpokeFails, TypeInv, TypeOK
  <2> QED
    BY <2>1, <2>2
<1>4. obf' \subseteq Spokes /\ errs' \subseteq Spokes \cup {0}
  BY <1>1 DEF Obfuscator, Undo, UndoFails, SpokeFails, TypeInv, TypeOK
<1> QED
  BY <1>1, <1>2, <1>3, <1>4, NextSpokeType

\* The steps that leave no pass under way, and those that leave the pass.
LEMMA AroundType ==
  ASSUME TypeInv, Return \/ Abort \/ Restart \/ Die \/ Crash \/ Reboot \/ Teardown
  PROVE  TypeInv'
PROOF
<1> USE DEF TypeInv
<1>1. CASE Return \/ Abort
  <2>1. TypeOK'
    BY <1>1, StoreKept, OneIsASpoke DEF Return, Abort, AfterPass, TypeOK
  <2>2. Shape'
    BY <1>1 DEF Return, Abort, Shape, InPass
  <2> QED
    BY <2>1, <2>2
<1>2. CASE Restart \/ Die
  <2>1. WantedSpokes(settings) \subseteq Spokes
    BY StoreAssumption DEF TypeOK, StoreTypeOK, WantedSpokes, Settings, Spokes
  <2>2. obf' \subseteq Spokes
    BY <1>2, <2>1 DEF Restart, Die, TypeOK
  <2>3. TypeOK'
    BY <1>2, <2>2, StoreKept DEF Restart, Die, TypeOK, pass
  <2>4. Enabled' = Enabled /\ Wrong(cur, snap)' = Wrong(cur, snap)
    BY <1>2, StoreKept DEF Restart, Die, Enabled, Wrong, RightLink, pass
  <2> QED
    BY <1>2, <2>3, <2>4 DEF Restart, Die, Shape, pass
<1>3. CASE Crash \/ Reboot
  <2>1. link' \in [Spokes -> Link \cup {NoLink}] /\ obf' \subseteq Spokes
    BY <1>3 DEF Crash, Reboot, TypeOK
  <2>2. Stopped
    BY <1>3 DEF Crash, Reboot
  <2>3. TypeOK'
    BY <2>1, <2>2, StoreKept, OneIsASpoke DEF Stopped, TypeOK
  <2> QED
    BY <2>2, <2>3 DEF Stopped, Shape, InPass
<1>4. CASE Teardown
  <2>1. link' \in [Spokes -> Link \cup {NoLink}] /\ obf' \subseteq Spokes
    BY <1>4 DEF Teardown, TypeOK
  <2>2. TypeOK'
    BY <1>4, <2>1, StoreKept DEF Teardown, TypeOK, pass
  <2> QED
    BY <1>4, <2>2 DEF Teardown, Shape, InPass, pass
<1> QED
  BY <1>1, <1>2, <1>3, <1>4

LEMMA NextType == TypeInv /\ [Next]_vars => TypeInv'
PROOF
<1> SUFFICES ASSUME TypeInv, [Next]_vars PROVE TypeInv'
  OBVIOUS
<1>1. CASE Patch \/ PostClient \/ RemoveClient
  BY <1>1, RequestsType
<1>2. CASE StartService \/ PeriodicPass \/ RequestPass
  BY <1>2, BeginPassType DEF StartService, PeriodicPass, RequestPass, TypeInv, TypeOK
<1>3. CASE \/ SettingsFail \/ Keys \/ KeysFail \/ EnsureRow \/ CreateLink \/ Configure
           \/ ReadPeers \/ ReadNoPeers \/ SetPeer \/ RemovePeer \/ PeersDone
  BY <1>3, PassType
<1>4. CASE Obfuscator \/ Undo \/ UndoFails \/ SpokeFails
  BY <1>4, SpokeEndsType
<1>5. CASE Return \/ Abort \/ Restart \/ Die \/ Crash \/ Reboot \/ Teardown
  BY <1>5, AroundType
<1>6. CASE UNCHANGED vars
  <2>1. UNCHANGED <<store, link, obf, pc, cur, snap, toset, todel, errs, req, what, answer>>
    BY <1>6 DEF vars, pass
  <2>2. Enabled' = Enabled /\ Wrong(cur, snap)' = Wrong(cur, snap)
    BY <2>1, StoreKept DEF Enabled, Wrong, RightLink
  <2>3. TypeOK'
    BY <2>1, StoreKept DEF TypeInv, TypeOK
  <2> QED
    BY <2>1, <2>2, <2>3 DEF TypeInv, Shape
<1> QED
  BY <1>1, <1>2, <1>3, <1>4, <1>5, <1>6 DEF Next, Disturb, Fail, Step

LEMMA AlwaysTyped == Spec => []TypeInv
  BY InitType, NextType, PTL DEF Spec

\* Whatever the number of spokes, slots and clients, every variable has its
\* type: no pass leaves the spokes there are, and no report names others.
THEOREM MeshTypeCorrect == Spec => []TypeOK
PROOF
<1>1. TypeInv => TypeOK
  BY DEF TypeInv
<1> QED
  BY <1>1, AlwaysTyped, PTL

-----------------------------------------------------------------------------
(* Clients are told apart *)

Apart == \A c, d \in clients : c.id = d.id \/ c.name = d.name \/ c.slot = d.slot => c = d

LEMMA InitApart == Init => Apart
PROOF
<1> SUFFICES ASSUME Init, NEW c \in clients, NEW d \in clients PROVE c = d
  BY DEF Apart
<1>1. clients \in {{}} \cup {{[id |-> e, name |-> x, slot |-> 0, keys |-> 1 .. k]} :
                               e \in Ids, x \in Names, k \in Spokes}
  BY DEF Init, StoreInit
<1> QED
  BY <1>1

\* Only these steps write clients.
LEMMA ClientsKept ==
  ASSUME TypeInv, [Next]_vars
  PROVE  clients' = clients \/ PostClient \/ RemoveClient \/ Keys
PROOF
<1>1. CASE UNCHANGED store
  BY <1>1 DEF store
<1>2. CASE Patch \/ EnsureRow
  BY <1>2 DEF Patch, UpdateSettings, EnsureRow, EnsureSpoke
<1>3. CASE Undo
  BY <1>3, DisableTyped DEF Undo, TypeInv, TypeOK
<1>4. CASE PostClient \/ RemoveClient \/ Keys
  BY <1>4
<1>5. CASE StartService \/ PeriodicPass \/ RequestPass \/ SettingsFail \/ KeysFail
  BY <1>1, <1>5 DEF StartService, PeriodicPass, RequestPass, BeginPass, SettingsFail, KeysFail
<1>6. CASE \/ CreateLink \/ Configure \/ ReadPeers \/ ReadNoPeers \/ SetPeer \/ RemovePeer
           \/ PeersDone
  BY <1>1, <1>6 DEF CreateLink, Configure, ReadPeers, ReadNoPeers, SetPeer, RemovePeer, PeersDone
<1>7. CASE Obfuscator \/ UndoFails \/ SpokeFails \/ Return \/ Abort
  BY <1>1, <1>7 DEF Obfuscator, UndoFails, SpokeFails, Return, Abort
<1>8. CASE Restart \/ Die \/ Crash \/ Reboot \/ Teardown
  BY <1>1, <1>8 DEF Restart, Die, Crash, Reboot, Stopped, Teardown
<1>9. CASE UNCHANGED vars
  BY <1>1, <1>9 DEF vars
<1> QED
  BY <1>2, <1>3, <1>4, <1>5, <1>6, <1>7, <1>8, <1>9 DEF Next, Disturb, Fail, Step

\* A new client: its id and its slot are nobody else's.
LEMMA NewClient ==
  ASSUME TypeInv, NEW x \in Names, NEW d \in Ids, CreateClient(x, d)
  PROVE  \E fresh \in Client :
            /\ clients' = clients \cup {fresh} /\ fresh.id = d /\ fresh.keys = Spokes
            /\ \A c \in clients : c.id # fresh.id /\ c.name # fresh.name /\ c.slot # fresh.slot
PROOF
<1> DEFINE fresh == [id |-> d, name |-> x, slot |-> Min(FreeSlots), keys |-> Spokes]
<1>1. fresh \in Client
  BY FreeSlotIsFree DEF CreateClient, Client
<1>2. clients' = clients \cup {fresh}
  BY DEF CreateClient
<1>3. \A c \in clients : c.id # fresh.id /\ c.name # fresh.name /\ c.slot # fresh.slot
  BY FreeSlotIsFree DEF CreateClient
<1>4. fresh.id = d /\ fresh.keys = Spokes
  OBVIOUS
<1> HIDE DEF fresh
<1> QED
  BY <1>1, <1>2, <1>3, <1>4

\* ensure_client_keys adds keys and is otherwise without effect.
LEMMA KeysAdded ==
  ASSUME TypeInv, NEW s \in Settings
  PROVE  \A k \in WithKeys(s) : \E c \in clients :
            /\ k.id = c.id /\ k.name = c.name /\ k.slot = c.slot
            /\ k = [c EXCEPT !.keys = @ \cup WantedSpokes(s)]
            /\ k.keys = c.keys \cup WantedSpokes(s)
PROOF
<1> SUFFICES ASSUME NEW k \in WithKeys(s)
             PROVE  \E c \in clients :
                       /\ k.id = c.id /\ k.name = c.name /\ k.slot = c.slot
                       /\ k = [c EXCEPT !.keys = @ \cup WantedSpokes(s)]
                       /\ k.keys = c.keys \cup WantedSpokes(s)
  OBVIOUS
<1>1. PICK c \in clients : k = [c EXCEPT !.keys = @ \cup WantedSpokes(s)]
  BY DEF WithKeys
<1>2. c \in Client
  BY DEF TypeInv, TypeOK, StoreTypeOK
<1> QED
  BY <1>1, <1>2 DEF Client

LEMMA NextApart == ASSUME TypeInv, Apart, [Next]_vars PROVE Apart'
PROOF
<1>1. CASE clients' = clients
  BY <1>1 DEF Apart
<1>2. CASE PostClient
  <2>1. PICK x \in Names, d \in Ids : CreateClient(x, d)
    BY <1>2 DEF PostClient
  <2>2. PICK fresh \in Client :
            /\ clients' = clients \cup {fresh}
            /\ \A c \in clients : c.id # fresh.id /\ c.name # fresh.name /\ c.slot # fresh.slot
    BY <2>1, NewClient
  <2> QED
    BY <2>2 DEF Apart
<1>3. CASE RemoveClient
  BY <1>3 DEF RemoveClient, DeleteClient, Apart
<1>4. CASE Keys
  <2>1. clients' = WithKeys(snap) /\ snap \in Settings
    BY <1>4 DEF Keys, EnsureClientKeys, TypeInv, Shape
  <2> SUFFICES ASSUME NEW j \in clients', NEW k \in clients',
                      j.id = k.id \/ j.name = k.name \/ j.slot = k.slot
               PROVE  j = k
    BY DEF Apart
  <2>2. PICK c \in clients : /\ j.id = c.id /\ j.name = c.name /\ j.slot = c.slot
                             /\ j = [c EXCEPT !.keys = @ \cup WantedSpokes(snap)]
    BY <2>1, KeysAdded
  <2>3. PICK d \in clients : /\ k.id = d.id /\ k.name = d.name /\ k.slot = d.slot
                             /\ k = [d EXCEPT !.keys = @ \cup WantedSpokes(snap)]
    BY <2>1, KeysAdded
  <2>4. c = d
    BY <2>2, <2>3 DEF Apart
  <2> QED
    BY <2>2, <2>3, <2>4
<1> QED
  BY <1>1, <1>2, <1>3, <1>4, ClientsKept

-----------------------------------------------------------------------------
(* What works is left alone *)

\* A peer still to be set is no client's but the one it was read from, and a
\* peer still to be removed is no client's at all, also after the clients have
\* changed under the pass: a slot or an id that is handed out again while the
\* pass runs would break this, but no request commits before the pass of the
\* removal has come round.
Match ==
    /\ \A p \in toset, c \in clients : c.id = p.id <=> c.slot = p.slot
    /\ \A p \in todel, q \in ClientPeers(cur) : q.id # p.id
    /\ req # "committed" => toset \subseteq ClientPeers(cur)

\* What a spoke has of a client is the client's.
LEMMA PeerOf ==
  ASSUME NEW i, NEW q \in ClientPeers(i)
  PROVE  \E c \in clients : i \in c.keys /\ q.id = c.id /\ q.slot = c.slot
  BY DEF ClientPeers

LEMMA InitMatch == Init => Match
  BY DEF Init, Match

\* A pass that is at no spoke's peers has none to set or to remove.
LEMMA NothingToMatch == ASSUME toset' = {}, todel' = {} PROVE Match'
  BY DEF Match

LEMMA NextMatch == ASSUME TypeInv, Apart, Match, [Next]_vars PROVE Match'
PROOF
<1>1. CASE UNCHANGED <<toset, todel, cur, clients>> /\ (req' = req \/ req' = "committed")
  BY <1>1 DEF Match, ClientPeers
<1>2. CASE toset' = {} /\ todel' = {}
  BY <1>2, NothingToMatch
<1>3. CASE PostClient
  <2>1. PICK x \in Names, d \in Ids : Unused(d) /\ CreateClient(x, d)
    BY <1>3 DEF PostClient
  <2>2. PICK fresh \in Client :
            /\ clients' = clients \cup {fresh} /\ fresh.id = d
            /\ \A c \in clients : c.id # fresh.id /\ c.name # fresh.name /\ c.slot # fresh.slot
    BY <2>1, NewClient
  <2>3. req = "none" /\ req' = "committed" /\ UNCHANGED <<toset, todel, cur>>
    BY <1>3 DEF PostClient, Commits, pass
  <2>4. \A p \in toset : p.id # fresh.id /\ p.slot # fresh.slot
    <3> SUFFICES ASSUME NEW p \in toset PROVE p.id # fresh.id /\ p.slot # fresh.slot
      OBVIOUS
    <3>1. p \in ClientPeers(cur)
      BY <2>3 DEF Match
    <3>2. PICK c \in clients : p.id = c.id /\ p.slot = c.slot
      BY <3>1 DEF ClientPeers
    <3> QED
      BY <2>2, <3>2
  <2>5. \A p \in todel : p.id # fresh.id
    BY <2>1, <2>2 DEF Unused
  <2>6. \A p \in toset', c \in clients' : c.id = p.id <=> c.slot = p.slot
    BY <2>2, <2>3, <2>4 DEF Match
  <2>7. \A p \in todel', q \in ClientPeers(cur)' : q.id # p.id
    <3> SUFFICES ASSUME NEW p \in todel, NEW c \in clients', cur \in c.keys
                 PROVE  c.id # p.id
      BY <2>3 DEF ClientPeers
    <3>1. CASE c = fresh
      BY <2>5, <3>1
    <3>2. CASE c \in clients
      <4> DEFINE q == [id |-> c.id, slot |-> c.slot]
      <4>1. q \in ClientPeers(cur) /\ q.id = c.id
        BY <3>2 DEF ClientPeers
      <4> HIDE DEF q
      <4> QED
        BY <4>1 DEF Match
    <3> QED
      BY <2>2, <3>1, <3>2
  <2> QED
    BY <2>3, <2>6, <2>7 DEF Match
<1>4. CASE RemoveClient
  <2>1. clients' \subseteq clients /\ req' = "committed" /\ UNCHANGED <<toset, todel, cur>>
    BY <1>4 DEF RemoveClient, DeleteClient, Commits, pass
  <2>2. ClientPeers(cur)' \subseteq ClientPeers(cur)
    BY <2>1 DEF ClientPeers
  <2> QED
    BY <2>1, <2>2 DEF Match
<1>5. CASE ReadPeers \/ ReadNoPeers
  <2>1. /\ toset' \subseteq ClientPeers(cur) /\ UNCHANGED <<clients, cur>>
        /\ \A p \in todel', q \in ClientPeers(cur) : q.id # p.id
    BY <1>5, StoreKept DEF ReadPeers, ReadNoPeers, PeersToSet, PeersToRemove
  <2>2. ClientPeers(cur)' = ClientPeers(cur)
    BY <2>1 DEF ClientPeers
  <2>3. \A p \in ClientPeers(cur), c \in clients : c.id = p.id <=> c.slot = p.slot
    BY PeerOf DEF Apart
  <2> QED
    BY <2>1, <2>2, <2>3 DEF Match
<1>6. CASE SetPeer \/ RemovePeer
  <2>1. toset' \subseteq toset /\ todel' \subseteq todel /\ UNCHANGED <<clients, cur, req>>
    BY <1>6, StoreKept DEF SetPeer, RemovePeer
  <2>2. ClientPeers(cur)' = ClientPeers(cur)
    BY <2>1 DEF ClientPeers
  <2> QED
    BY <2>1, <2>2 DEF Match
<1>7. CASE Patch \/ Restart \/ Die
  BY <1>7, <1>1, StoreKept DEF Patch, UpdateSettings, Commits, Restart, Die, pass
<1>8. CASE StartService \/ PeriodicPass \/ RequestPass \/ SettingsFail \/ Keys \/ KeysFail
  BY <1>8, <1>2 DEF StartService, PeriodicPass, RequestPass, BeginPass, SettingsFail, Keys,
                    KeysFail, TypeInv, Shape
<1>9. CASE EnsureRow \/ CreateLink \/ Configure \/ PeersDone \/ Return
  BY <1>9, <1>2 DEF EnsureRow, CreateLink, Configure, PeersDone, Return, pass, TypeInv, Shape
<1>10. CASE \/ Obfuscator \/ Undo \/ UndoFails \/ SpokeFails \/ Abort \/ Crash \/ Reboot
  BY <1>10, <1>2 DEF Obfuscator, Undo, UndoFails, SpokeFails, NextSpoke, Abort, Crash, Reboot,
                     Stopped
<1>11. CASE Teardown
  BY <1>11, <1>2 DEF Teardown, pass, TypeInv, Shape
<1>12. CASE UNCHANGED vars
  <2>1. UNCHANGED <<toset, todel, cur, req, store>>
    BY <1>12 DEF vars, pass
  <2> QED
    BY <2>1, <1>1, StoreKept
<1> QED
  BY <1>3, <1>4, <1>5, <1>6, <1>7, <1>8, <1>9, <1>10, <1>11, <1>12
     DEF Next, Disturb, Fail, Step

\* A peer that is set gives way to itself: whoever else is a client's, at the
\* client's address, keeps it.
LEMMA GivenKeeps ==
  ASSUME TypeInv, Match, NEW i \in Spokes, NEW p \in toset,
         NEW peers \in SUBSET Peer, NEW q \in peers \cap ClientPeers(i)
  PROVE  q \in Given(peers, p)
PROOF
<1>1. PICK c \in clients : q.id = c.id /\ q.slot = c.slot
  BY DEF ClientPeers
<1>2. q \in Peer /\ p \in Peer
  BY DEF TypeInv, TypeOK
<1>3. q.id = p.id <=> q.slot = p.slot
  BY <1>1 DEF Match
<1>4. CASE q.id = p.id
  <2>1. q = p
    BY <1>2, <1>3, <1>4 DEF Peer
  <2> QED
    BY <2>1 DEF Given
<1>5. CASE q.id # p.id
  <2>1. [q EXCEPT !.slot = IF @ = p.slot THEN NoSlot ELSE @] = q
    BY <1>2, <1>3, <1>5 DEF Peer
  <2>2. q \in {x \in peers : x.id # p.id}
    BY <1>5
  <2> QED
    BY <2>1, <2>2 DEF Given
<1> QED
  BY <1>4, <1>5

\* The steps of a pass that write an interface write the one it is at.
Untouched(i) ==
    /\ link'[i] # NoLink
    /\ link[i].key = rows[i].key => link'[i].key = link[i].key
    /\ link[i].peers \cap ClientPeers(i) \cap ClientPeers(i)' \subseteq link'[i].peers

LEMMA StepUntouched ==
  ASSUME TypeInv, Match, [Next]_vars, NEW i \in WantedSpokes(settings),
         pc # "down", pc' # "down", link[i] # NoLink, rows[i] # NoRow,
         snap # NoSettings => i <= snap.n
  PROVE  Untouched(i)
PROOF
<1>1. i \in Spokes /\ link \in [Spokes -> Link \cup {NoLink}] /\ link[i] \in Link
  BY StoreAssumption DEF WantedSpokes, Settings, Spokes, TypeInv, TypeOK, StoreTypeOK
<1>2. CASE link'[i] = link[i]
  BY <1>2 DEF Untouched
<1>3. CASE CreateLink
  <2>1. i # cur /\ cur \in Spokes
    BY <1>3 DEF CreateLink, TypeInv, TypeOK
  <2>2. link'[i] = link[i]
    BY <1>1, <1>3, <2>1 DEF CreateLink
  <2> QED
    BY <2>2, <1>2
<1>4. CASE Configure
  <2> DEFINE c == Commands[Min(Wrong(cur, snap))]
             set == [link[cur] EXCEPT ![c] = RightLink(cur, snap)[c]]
  <2>1. link' = [link EXCEPT ![cur] = set] /\ cur \in Spokes /\ Wrong(cur, snap) # {}
    BY <1>4 DEF Configure, TypeInv, TypeOK
  <2>2. CASE i # cur
    BY <1>1, <1>2, <2>1, <2>2
  <2>3. CASE i = cur
    <3>1. snap \in Settings /\ rows[cur].key \in Nat
      BY <1>1, <1>4, <2>3 DEF Configure, TypeInv, TypeOK, StoreTypeOK, Row, Shape, InPass
    <3>2. c \in Fields /\ link[cur][c] # RightLink(cur, snap)[c]
      BY <2>1, CommandIsOne
    <3>3. c = "key" => link[cur].key # rows[cur].key
      BY <3>2 DEF RightLink
    <3>4. link'[i] = set
      BY <1>1, <2>1, <2>3
    <3> HIDE DEF c
    <3>5. set = [link[cur] EXCEPT ![c] = RightLink(cur, snap)[c]]
      OBVIOUS
    <3> HIDE DEF set
    <3>6. set \in Link /\ set.peers = link[cur].peers /\ (c # "key" => set.key = link[cur].key)
      <4>1. link[cur] \in Link
        BY <1>1, <2>3
      <4> QED
        BY <2>1, <3>1, <3>2, <3>5, <4>1, CommandTyped
    <3> QED
      BY <2>3, <3>6, <3>3, <3>4, NullAssumption DEF Untouched
  <2> QED
    BY <2>2, <2>3
<1>5. CASE SetPeer \/ RemovePeer
  <2>1. cur \in Spokes /\ UNCHANGED clients /\ link[i].peers \in SUBSET Peer
    BY <1>1, <1>5, StoreKept DEF SetPeer, RemovePeer, TypeInv, TypeOK, Link
  <2>2. CASE i # cur
    <3>1. link'[i] = link[i]
      BY <1>1, <1>5, <2>1, <2>2 DEF SetPeer, RemovePeer
    <3> QED
      BY <1>2, <3>1
  <2>3. CASE i = cur
    <3>1. PICK ps : /\ link' = [link EXCEPT ![cur].peers = ps]
                    /\ link[cur].peers \cap ClientPeers(cur) \subseteq ps
      <4>1. CASE SetPeer
        <5>1. PICK p \in toset : link' = [link EXCEPT ![cur].peers = Given(@, p)]
          BY <4>1 DEF SetPeer
        <5>2. link[cur].peers \cap ClientPeers(cur) \subseteq Given(link[cur].peers, p)
          BY <2>1, <2>3, GivenKeeps
        <5> QED
          BY <5>1, <5>2
      <4>2. CASE RemovePeer
        <5>1. PICK p \in todel : link' = [link EXCEPT ![cur].peers = {q \in @ : q.id # p.id}]
          BY <4>2 DEF RemovePeer
        <5>2. link[cur].peers \cap ClientPeers(cur) \subseteq {q \in link[cur].peers : q.id # p.id}
          BY DEF Match
        <5> QED
          BY <5>1, <5>2
      <4> QED
        BY <1>5, <4>1, <4>2
    <3> DEFINE set == [link[cur] EXCEPT !.peers = ps]
    <3>2. link'[i] = set
      BY <1>1, <2>1, <2>3, <3>1
    <3>3. set.key = link[i].key /\ set.peers = ps /\ set # NoLink
      <4>1. NoLink # set
        <5>1. Shape' /\ pc' = "peers" /\ cur' = cur
          BY <1>5, NextType DEF TypeInv, SetPeer, RemovePeer
        <5> QED
          BY <2>3, <3>2, <5>1 DEF Shape
      <4> QED
        BY <1>1, <2>3, <4>1 DEF Link
    <3> HIDE DEF set
    <3> QED
      BY <2>3, <3>1, <3>2, <3>3 DEF Untouched
  <2> QED
    BY <2>2, <2>3
<1>6. CASE Undo
  <2>1. cur \in Spokes /\ snap \in Settings /\ cur > snap.n
    BY <1>6 DEF Undo, TypeInv, TypeOK, Shape, InPass
  <2>2. snap.n \in Nat /\ cur \in Nat /\ i \in Nat /\ i <= snap.n
    BY <1>1, <2>1, NullAssumption DEF Settings, Spokes
  <2>3. link'[i] = link[i]
    BY <1>1, <1>6, <2>1, <2>2 DEF Undo
  <2> QED
    BY <1>2, <2>3
<1>7. CASE Patch \/ PostClient \/ RemoveClient
  BY <1>2, <1>7 DEF Patch, PostClient, RemoveClient, Commits
<1>8. CASE StartService \/ PeriodicPass \/ RequestPass \/ SettingsFail \/ Keys \/ KeysFail
  BY <1>2, <1>8 DEF StartService, PeriodicPass, RequestPass, BeginPass, SettingsFail, Keys, KeysFail
<1>9. CASE EnsureRow \/ ReadPeers \/ ReadNoPeers \/ PeersDone \/ Return \/ Abort
  BY <1>2, <1>9 DEF EnsureRow, ReadPeers, ReadNoPeers, PeersDone, Return, Abort
<1>10. CASE Obfuscator \/ UndoFails \/ SpokeFails \/ Restart \/ Die \/ Crash
  BY <1>2, <1>10 DEF Obfuscator, UndoFails, SpokeFails, Restart, Die, Crash
<1>11. CASE Reboot \/ Teardown
  BY <1>11 DEF Reboot, Stopped, Teardown
<1>12. CASE UNCHANGED vars
  BY <1>2, <1>12 DEF vars
<1> QED
  BY <1>3, <1>4, <1>5, <1>6, <1>7, <1>8, <1>9, <1>10, <1>11, <1>12
     DEF Next, Disturb, Fail, Step

\* A pass never takes what works: the interface of a spoke that stays wanted
\* is neither deleted nor re-keyed while the service is up, and a client's
\* peer that has its address keeps it, however the clients come and go
\* meanwhile (the in-place set-up of _reconcile_interface and _sync_peers).
THEOREM WorkingIsLeftAlone == Spec => WorkingSpokesUntouched
PROOF
<1>1. TypeInv /\ Apart /\ Match /\ [Next]_vars => TypeInv' /\ Apart' /\ Match'
  BY NextType, NextApart, NextMatch
<1>2. TypeInv /\ Match /\ [Next]_vars
        => [\A i \in WantedSpokes(settings) :
             /\ pc # "down" /\ pc' # "down" /\ link[i] # NoLink /\ rows[i] # NoRow
             /\ i <= settings'.n /\ (snap # NoSettings => i <= snap.n)
             => /\ link'[i] # NoLink
                /\ link[i].key = rows[i].key => link'[i].key = link[i].key
                /\ link[i].peers \cap ClientPeers(i) \cap ClientPeers(i)' \subseteq link'[i].peers]_vars
  BY StepUntouched DEF Untouched
<1> QED
  BY InitType, InitApart, InitMatch, <1>1, <1>2, PTL DEF Spec, WorkingSpokesUntouched

-----------------------------------------------------------------------------
(* What a pass has put right *)

\* An interface has no public key twice.
OnePeer == \A i \in Spokes : link[i] # NoLink =>
               \A p, q \in link[i].peers : p.id = q.id => p = q

LEMMA InitOnePeer == Init => OnePeer
PROOF
<1> SUFFICES ASSUME Init, NEW i \in Spokes, link[i] # NoLink,
                    NEW p \in link[i].peers, NEW q \in link[i].peers, p.id = q.id
             PROVE  p = q
  BY DEF OnePeer
<1>1. PICK m \in Mtus : link[i] = OldLink(m)
  BY DEF Init
<1> DEFINE old == {[id |-> Stranger, slot |-> 0]} \cup {[id |-> c.id, slot |-> NoSlot] : c \in clients}
<1>2. OldLink(m).peers = old
  BY DEF OldLink, NewLink
<1>3. \A c \in clients : c.id \in Ids
  BY InitStore DEF Init, StoreTypeOK, Client
<1> QED
  BY <1>1, <1>2, <1>3, PeerAssumption

LEMMA GivenOnce ==
  ASSUME NEW peers \in SUBSET Peer, NEW p \in Peer, \A q, r \in peers : q.id = r.id => q = r
  PROVE  \A q, r \in Given(peers, p) : q.id = r.id => q = r
PROOF
<1> DEFINE Moved(x) == [x EXCEPT !.slot = IF @ = p.slot THEN NoSlot ELSE @]
<1>1. \A x \in peers : Moved(x).id = x.id
  BY DEF Peer
<1>2. Given(peers, p) = {p} \cup {Moved(x) : x \in {y \in peers : y.id # p.id}}
  BY DEF Given
<1> HIDE DEF Moved
<1> QED
  BY <1>1, <1>2

\* Only these steps write the interfaces of a pass, and only that of the spoke
\* it is at.
LEMMA LinksKept ==
  ASSUME TypeInv, [Next]_vars
  PROVE  \/ link' = link
         \/ link' = [i \in Spokes |-> NoLink] /\ snap' = NoSettings /\ pc' = "down"
         \/ CreateLink \/ Configure \/ SetPeer \/ RemovePeer \/ Undo
PROOF
<1>1. CASE Patch \/ PostClient \/ RemoveClient
  BY <1>1 DEF Patch, PostClient, RemoveClient, Commits
<1>2. CASE StartService \/ PeriodicPass \/ RequestPass \/ SettingsFail \/ Keys \/ KeysFail
  BY <1>2 DEF StartService, PeriodicPass, RequestPass, BeginPass, SettingsFail, Keys, KeysFail
<1>3. CASE EnsureRow \/ ReadPeers \/ ReadNoPeers \/ PeersDone \/ Return \/ Abort
  BY <1>3 DEF EnsureRow, ReadPeers, ReadNoPeers, PeersDone, Return, Abort
<1>4. CASE Obfuscator \/ UndoFails \/ SpokeFails \/ Restart \/ Die \/ Crash
  BY <1>4 DEF Obfuscator, UndoFails, SpokeFails, Restart, Die, Crash
<1>5. CASE Reboot \/ Teardown
  BY <1>5 DEF Reboot, Stopped, Teardown, pass, TypeInv, Shape
<1>6. CASE UNCHANGED vars
  BY <1>6 DEF vars
<1>7. CASE CreateLink \/ Configure \/ SetPeer \/ RemovePeer \/ Undo
  BY <1>7
<1> QED
  BY <1>1, <1>2, <1>3, <1>4, <1>5, <1>6, <1>7 DEF Next, Disturb, Fail, Step

\* A command on an interface, and what it leaves.
LEMMA ConfiguredKeepsPeers ==
  ASSUME TypeInv, Configure
  PROVE  /\ link' = [link EXCEPT ![cur] = link'[cur]]
         /\ link'[cur].peers = link[cur].peers /\ cur \in Spokes
PROOF
<1> DEFINE c == Commands[Min(Wrong(cur, snap))]
           set == [link[cur] EXCEPT ![c] = RightLink(cur, snap)[c]]
<1>1. cur \in Spokes /\ Wrong(cur, snap) # {} /\ link[cur] \in Link /\ snap \in Settings
  BY DEF Configure, TypeInv, TypeOK, Shape, InPass
<1>2. c \in Fields
  BY <1>1, CommandIsOne
<1>3. rows[cur].key \in Nat
  BY DEF Configure, TypeInv, TypeOK, StoreTypeOK, Row, Shape, Enabled
<1>4. link' = [link EXCEPT ![cur] = set]
  BY DEF Configure
<1> HIDE DEF c
<1>5. set = [link[cur] EXCEPT ![c] = RightLink(cur, snap)[c]]
  OBVIOUS
<1> HIDE DEF set
<1>6. set.peers = link[cur].peers
  BY <1>1, <1>2, <1>3, <1>5, CommandTyped
<1>7. link'[cur] = set
  BY <1>1, <1>4 DEF TypeInv, TypeOK
<1> QED
  BY <1>1, <1>4, <1>6, <1>7

LEMMA NextOnePeer == ASSUME TypeInv, OnePeer, [Next]_vars PROVE OnePeer'
PROOF
<1> DEFINE Once(peers) == \A p, q \in peers : p.id = q.id => p = q
<1>0. /\ \A i \in Spokes : link[i] # NoLink => Once(link[i].peers)
      /\ link \in [Spokes -> Link \cup {NoLink}] /\ cur \in Spokes
  BY DEF OnePeer, TypeInv, TypeOK
<1>1. ASSUME link' = [link EXCEPT ![cur] = link'[cur]],
             link'[cur] # NoLink => Once(link'[cur].peers)
      PROVE  OnePeer'
  <2>1. \A i \in Spokes : link'[i] # NoLink => Once(link'[i].peers)
    <3> SUFFICES ASSUME NEW i \in Spokes, link'[i] # NoLink PROVE Once(link'[i].peers)
      OBVIOUS
    <3> HIDE DEF Once
    <3>1. CASE i = cur
      BY <1>1, <3>1
    <3>2. CASE i # cur
      <4>1. link'[i] = link[i]
        BY <1>0, <1>1, <3>2
      <4> QED
        BY <1>0, <4>1
    <3> QED
      BY <3>1, <3>2
  <2> QED
    BY <2>1 DEF OnePeer
<1>2. CASE link' = link
  BY <1>2 DEF OnePeer
<1>3. CASE link' = [i \in Spokes |-> NoLink]
  BY <1>3 DEF OnePeer
<1>4. CASE CreateLink
  <2>1. PICK m \in Mtus : link' = [link EXCEPT ![cur] = NewLink(m)]
    BY <1>4 DEF CreateLink
  <2>2. link'[cur].peers = {}
    BY <1>0, <2>1 DEF NewLink
  <2> QED
    BY <1>0, <1>1, <2>1, <2>2
<1>5. CASE Configure
  <2>1. link[cur] # NoLink
    BY <1>5 DEF Configure
  <2> QED
    BY <1>0, <1>1, <1>5, <2>1, ConfiguredKeepsPeers
<1>6. CASE SetPeer \/ RemovePeer
  <2>1. link[cur] # NoLink /\ link[cur].peers \in SUBSET Peer /\ Once(link[cur].peers)
    BY <1>0, <1>6 DEF SetPeer, RemovePeer, TypeInv, Shape, Link
  <2>2. PICK ps : link' = [link EXCEPT ![cur].peers = ps] /\ Once(ps)
    <3>1. CASE SetPeer
      <4>1. PICK p \in toset : link' = [link EXCEPT ![cur].peers = Given(@, p)]
        BY <3>1 DEF SetPeer
      <4>2. Once(Given(link[cur].peers, p))
        BY <2>1, GivenOnce DEF TypeInv, TypeOK
      <4> QED
        BY <4>1, <4>2
    <3>2. CASE RemovePeer
      <4>1. PICK p \in todel : link' = [link EXCEPT ![cur].peers = {q \in @ : q.id # p.id}]
        BY <3>2 DEF RemovePeer
      <4>2. Once({q \in link[cur].peers : q.id # p.id})
        BY <2>1
      <4> QED
        BY <4>1, <4>2
    <3> QED
      BY <1>6, <3>1, <3>2
  <2> HIDE DEF Once
  <2>3. link'[cur].peers = ps
    BY <1>0, <2>1, <2>2 DEF Link
  <2> QED
    BY <1>0, <1>1, <2>2, <2>3
<1>7. CASE Undo
  BY <1>0, <1>1, <1>7 DEF Undo
<1> QED
  BY <1>2, <1>3, <1>4, <1>5, <1>6, <1>7, LinksKept

\* A pass that sees the clients as they are: no request has committed since it
\* began, or will be waiting for the next one.
Known == req # "committed" /\ snap # NoSettings

\* The spokes the pass has been at.
Passed(i) == (pc \in InPass /\ i < cur) \/ pc = "end"

SpokesLeft == Known => \A i \in Spokes \ errs : Passed(i) => AsWanted(i, snap)

KeysMade == Known /\ pc \in InPass \cup {"end"} /\ 0 \notin errs =>
                \A c \in clients : WantedSpokes(snap) \subseteq c.keys

\* Half-way through the peers, what is wrong is what is still to be done.
PeersLeft ==
    /\ Known /\ pc = "peers" =>
         /\ ClientPeers(cur) \subseteq toset \cup link[cur].peers
         /\ \A q \in link[cur].peers \ ClientPeers(cur) : \E p \in toset \cup todel : p.id = q.id
    /\ Known /\ pc = "obf" => link[cur].peers = ClientPeers(cur)

Contained == SpokesLeft /\ KeysMade /\ PeersLeft

\* A pass that sees the clients as they are has seen them so from its first
\* spoke on.
LEMMA StepsOfPass ==
  ASSUME TypeInv, [Next]_vars, Known', pc' \in InPass \cup {"end"}
  PROVE  \/ Keys \/ KeysFail
         \/ /\ Known /\ snap' = snap /\ clients' = clients /\ errs \subseteq errs'
            /\ pc \in InPass \cup {"end"}
            /\ \/ EnsureRow \/ CreateLink \/ Configure \/ ReadPeers \/ ReadNoPeers
               \/ SetPeer \/ RemovePeer \/ PeersDone
               \/ Obfuscator \/ Undo \/ UndoFails \/ SpokeFails
               \/ UNCHANGED <<rows, link, pc, cur, toset, todel, errs>>
PROOF
<1> USE DEF Known
<1>1. CASE Patch \/ PostClient \/ RemoveClient
  BY <1>1 DEF Patch, PostClient, RemoveClient, Commits
<1>2. CASE StartService \/ PeriodicPass \/ RequestPass
  BY <1>2 DEF StartService, PeriodicPass, RequestPass, BeginPass, InPass
<1>3. CASE SettingsFail
  BY <1>3 DEF SettingsFail, TypeInv, Shape
<1>4. CASE Keys \/ KeysFail
  BY <1>4
<1>5. CASE EnsureRow \/ CreateLink \/ Configure
  BY <1>5, StoreKept DEF EnsureRow, EnsureSpoke, CreateLink, Configure, pass, InPass
<1>6. CASE ReadPeers \/ ReadNoPeers \/ SetPeer \/ RemovePeer \/ PeersDone
  BY <1>6, StoreKept DEF ReadPeers, ReadNoPeers, SetPeer, RemovePeer, PeersDone, InPass
<1>7. CASE Undo
  <2>1. clients' = clients
    BY <1>7, DisableTyped DEF Undo, TypeInv, TypeOK
  <2> QED
    BY <1>7, <2>1 DEF Undo, InPass
<1>8. CASE Obfuscator \/ UndoFails \/ SpokeFails
  BY <1>8, StoreKept DEF Obfuscator, UndoFails, SpokeFails, InPass
<1>9. CASE Return \/ Abort \/ Crash \/ Reboot
  BY <1>9 DEF Return, Abort, Crash, Reboot, Stopped
<1>10. CASE Restart \/ Die \/ Teardown \/ UNCHANGED vars
  <2>1. UNCHANGED <<pc, cur, snap, toset, todel, errs, req, store>>
    BY <1>10 DEF Restart, Die, Teardown, pass, vars
  <2>2. pc \notin {"down", "idle"}
    BY <2>1 DEF InPass
  <2>3. link' = link
    BY <1>10, <2>2 DEF Restart, Die, Teardown, vars
  <2> QED
    BY <2>1, <2>3, StoreKept
<1> QED
  BY <1>1, <1>2, <1>3, <1>4, <1>5, <1>6, <1>7, <1>8, <1>9, <1>10 DEF Next, Disturb, Fail, Step

LEMMA NextKeysMade == ASSUME TypeInv, KeysMade, [Next]_vars PROVE KeysMade'
PROOF
<1> SUFFICES ASSUME Known', pc' \in InPass \cup {"end"}, 0 \notin errs', NEW c \in clients'
             PROVE  WantedSpokes(snap') \subseteq c.keys
  BY DEF KeysMade
<1>1. CASE Keys
  <2>1. clients' = WithKeys(snap) /\ snap \in Settings /\ snap' = snap
    BY <1>1 DEF Keys, EnsureClientKeys, TypeInv, Shape
  <2>2. PICK k : c.keys = k \cup WantedSpokes(snap)
    BY <2>1, KeysAdded
  <2> QED
    BY <2>1, <2>2
<1>2. CASE KeysFail
  BY <1>2 DEF KeysFail
<1>3. CASE Known /\ snap' = snap /\ clients' = clients /\ errs \subseteq errs' /\ pc \in InPass \cup {"end"}
  BY <1>3 DEF KeysMade
<1> QED
  BY <1>1, <1>2, <1>3, StepsOfPass

\* What the interface and the row of a spoke have, they keep.
LEMMA KeptAsRead ==
  ASSUME NEW i \in Spokes, AsWanted(i, snap), snap' = snap, clients' = clients,
         link'[i] = link[i], rows'[i] = rows[i]
  PROVE  AsWanted(i, snap)'
  BY DEF AsWanted, Carried, Wrong, RightLink, ClientPeers, Enabled, WantedSpokes

\* The next spoke is the one after this one: no other has been passed by.
LEMMA PassedNext ==
  ASSUME TypeInv, pc \in InPass, NextSpoke, NEW i \in Spokes, Passed(i)', i # cur
  PROVE  Passed(i)
PROOF
<1>1. cur \in Spokes /\ snap \in Settings
  BY DEF TypeInv, TypeOK, Shape, InPass
<1>2. /\ pc' # "end" => cur' = cur + 1
      /\ pc' = "end" => cur = SpokeMax
  BY <1>1, NextSpokeTyped
<1> QED
  BY <1>1, <1>2, StoreAssumption DEF Passed, Spokes

LEMMA NextSpokesLeft ==
  ASSUME TypeInv, SpokesLeft, PeersLeft, [Next]_vars
  PROVE  SpokesLeft'
PROOF
<1> SUFFICES ASSUME Known', NEW i \in Spokes, i \notin errs', Passed(i)'
             PROVE  AsWanted(i, snap)'
  BY DEF SpokesLeft
<1>1. pc' \in InPass \cup {"end"} /\ cur \in Spokes
  BY DEF Passed, TypeInv, TypeOK
<1>2. CASE Keys \/ KeysFail
  <2>1. cur' = 1 /\ pc' = "row"
    BY <1>2 DEF Keys, KeysFail, TypeInv, Shape
  <2> QED
    BY <2>1 DEF Passed, Spokes
<1>3. ASSUME Known, snap' = snap, clients' = clients, errs \subseteq errs', Passed(i),
             link'[i] = link[i], rows'[i] = rows[i]
      PROVE  AsWanted(i, snap)'
  <2>1. AsWanted(i, snap)
    BY <1>3 DEF SpokesLeft
  <2> QED
    BY <1>3, <2>1, KeptAsRead
<1>4. ASSUME Known, snap' = snap, clients' = clients, errs \subseteq errs', pc \in InPass \cup {"end"}
      PROVE  AsWanted(i, snap)'
  <2>1. CASE EnsureRow \/ CreateLink \/ Configure \/ SetPeer \/ RemovePeer
    <3>1. pc \in InPass /\ pc' \in InPass /\ cur' = cur
      BY <2>1 DEF EnsureRow, CreateLink, Configure, SetPeer, RemovePeer, pass, InPass
    <3>2. i # cur /\ Passed(i)
      BY <1>1, <3>1 DEF Passed, InPass, Spokes
    <3>3. link'[i] = link[i] /\ rows'[i] = rows[i]
      <4>1. CASE EnsureRow
        BY <1>1, <3>2, <4>1 DEF EnsureRow, EnsureSpoke, TypeInv, TypeOK, StoreTypeOK
      <4>2. CASE Configure
        BY <1>1, <3>2, <4>2, StoreKept, ConfiguredKeepsPeers DEF Configure, TypeInv, TypeOK
      <4>3. CASE CreateLink \/ SetPeer \/ RemovePeer
        BY <1>1, <3>2, <4>3, StoreKept DEF CreateLink, SetPeer, RemovePeer, TypeInv, TypeOK
      <4> QED
        BY <2>1, <4>1, <4>2, <4>3
    <3> QED
      BY <1>3, <1>4, <3>2, <3>3
  <2>2. CASE ReadPeers \/ ReadNoPeers \/ PeersDone
    <3>1. UNCHANGED <<rows, link, cur>> /\ pc \in InPass /\ pc' \in InPass
      BY <2>2, StoreKept DEF ReadPeers, ReadNoPeers, PeersDone, InPass
    <3>2. Passed(i)
      BY <3>1 DEF Passed, InPass
    <3> QED
      BY <1>3, <1>4, <3>1, <3>2
  <2>3. CASE UNCHANGED <<rows, link, pc, cur, toset, todel, errs>>
    BY <1>3, <1>4, <2>3 DEF Passed
  <2>4. CASE i # cur /\ (Obfuscator \/ Undo \/ UndoFails \/ SpokeFails)
    <3>1. NextSpoke /\ pc \in InPass
      BY <2>4 DEF Obfuscator, Undo, UndoFails, SpokeFails, InPass
    <3>2. Passed(i)
      BY <2>4, <3>1, PassedNext
    <3>3. link'[i] = link[i] /\ rows'[i] = rows[i]
      <4>1. CASE Undo
        BY <1>1, <2>4, <4>1, DisableTyped DEF Undo, TypeInv, TypeOK
      <4>2. CASE Obfuscator \/ UndoFails \/ SpokeFails
        BY <4>2, StoreKept DEF Obfuscator, UndoFails, SpokeFails
      <4> QED
        BY <2>4, <4>1, <4>2
    <3> QED
      BY <1>3, <1>4, <3>2, <3>3
  <2>5. CASE i = cur /\ Obfuscator
    <3>1. /\ pc = "obf" /\ link[i] # NoLink /\ rows[i] # NoRow /\ Wrong(i, snap) = {}
          /\ link[i].peers = ClientPeers(i) /\ i <= snap.n /\ UNCHANGED <<link, rows>>
      BY <1>4, <2>5, StoreKept DEF Obfuscator, TypeInv, Shape, PeersLeft, Enabled
    <3>2. AsWanted(i, snap)
      <4>1. snap.n \in Nat /\ i \in Nat /\ 1 <= i
        BY <3>1 DEF TypeInv, Shape, InPass, Settings, Spokes
      <4> QED
        BY <3>1, <4>1 DEF AsWanted, WantedSpokes, Carried
    <3> QED
      BY <1>4, <3>1, <3>2, KeptAsRead
  <2>6. CASE i = cur /\ Undo
    <3>1. i > snap.n /\ snap \in Settings /\ DisableSpoke(i) /\ link'[i] = NoLink
      BY <1>1, <2>6 DEF Undo, TypeInv, TypeOK, Shape, InPass
    <3>2. i \notin Enabled'
      BY <1>1, <3>1, DisableTyped DEF TypeInv, TypeOK
    <3>3. i \notin WantedSpokes(snap)
      BY <3>1 DEF WantedSpokes, Settings, Spokes
    <3> QED
      BY <1>4, <3>1, <3>2, <3>3 DEF AsWanted, WantedSpokes
  <2>7. CASE i = cur /\ (UndoFails \/ SpokeFails)
    BY <2>7 DEF UndoFails, SpokeFails
  <2> QED
    BY <1>1, <1>2, <1>4, <2>1, <2>2, <2>3, <2>4, <2>5, <2>6, <2>7, StepsOfPass
<1> QED
  BY <1>1, <1>2, <1>4, StepsOfPass

\* What a set peer leaves to be done: itself no more, and what was wrong still.
LEMMA GivenLeaves ==
  ASSUME TypeInv, Match, NEW p \in toset, NEW peers \in SUBSET Peer,
         NEW q \in Given(peers, p), q \notin ClientPeers(cur), p \in ClientPeers(cur)
  PROVE  \E x \in peers \ ClientPeers(cur) : x.id = q.id /\ x.id # p.id
PROOF
<1>1. PICK x \in peers : /\ x.id # p.id
                         /\ q = [x EXCEPT !.slot = IF @ = p.slot THEN NoSlot ELSE @]
  BY DEF Given
<1>2. x.id = q.id
  BY <1>1 DEF Peer
<1>3. x \notin ClientPeers(cur)
  <2> SUFFICES ASSUME x \in ClientPeers(cur) PROVE FALSE
    OBVIOUS
  <2>1. PICK c \in clients : x.id = c.id /\ x.slot = c.slot
    BY DEF ClientPeers
  <2>2. x.slot # p.slot
    BY <1>1, <2>1 DEF Match
  <2>3. q = x
    BY <1>1, <2>2 DEF Peer
  <2> QED
    BY <2>3
<1> QED
  BY <1>1, <1>2, <1>3

LEMMA NextPeersLeft ==
  ASSUME "dump" \notin FailAt, TypeInv, Match, OnePeer, PeersLeft, [Next]_vars
  PROVE  PeersLeft'
PROOF
<1> SUFFICES ASSUME Known', pc' \in {"peers", "obf"} PROVE PeersLeft'
  BY DEF PeersLeft
<1>1. pc' \in InPass \cup {"end"} /\ ~Keys /\ ~KeysFail
  BY DEF InPass, Keys, KeysFail
<1>2. Known /\ snap' = snap /\ clients' = clients
  BY <1>1, StepsOfPass
<1>3. cur \in Spokes /\ link \in [Spokes -> Link \cup {NoLink}]
  BY DEF TypeInv, TypeOK
<1>4. CASE UNCHANGED <<rows, link, pc, cur, toset, todel, errs>>
  BY <1>2, <1>4 DEF PeersLeft, ClientPeers
<1>5. CASE ReadPeers
  <2>1. /\ UNCHANGED <<cur, link>> /\ pc' = "peers" /\ link[cur] # NoLink
        /\ toset' = ClientPeers(cur) \ link[cur].peers
        /\ todel' = {q \in link[cur].peers : \A p \in ClientPeers(cur) : p.id # q.id}
    BY <1>5 DEF ReadPeers, PeersToSet, PeersToRemove
  <2>2. ClientPeers(cur)' = ClientPeers(cur)
    BY <1>2, <2>1 DEF ClientPeers
  <2>3. \A q \in link[cur].peers \ ClientPeers(cur) : \E p \in toset' \cup todel' : p.id = q.id
    <3> SUFFICES ASSUME NEW q \in link[cur].peers, q \notin ClientPeers(cur)
                 PROVE  \E p \in toset' \cup todel' : p.id = q.id
      OBVIOUS
    <3>1. CASE \A p \in ClientPeers(cur) : p.id # q.id
      BY <2>1, <3>1
    <3>2. ASSUME NEW p \in ClientPeers(cur), p.id = q.id
          PROVE  \E x \in toset' \cup todel' : x.id = q.id
      <4>1. p \notin link[cur].peers
        BY <1>3, <2>1, <3>2 DEF OnePeer
      <4> QED
        BY <2>1, <3>2, <4>1
    <3> QED
      BY <3>1, <3>2
  <2> QED
    BY <2>1, <2>2, <2>3 DEF PeersLeft
<1>6. CASE SetPeer
  <2>1. PICK p \in toset : /\ link' = [link EXCEPT ![cur].peers = Given(@, p)]
                           /\ toset' = toset \ {p}
    BY <1>6 DEF SetPeer
  <2>2. UNCHANGED <<cur, todel, pc>> /\ pc = "peers" /\ link[cur] \in Link
    BY <1>3, <1>6 DEF SetPeer, TypeInv, Shape
  <2>3. ClientPeers(cur)' = ClientPeers(cur) /\ link[cur].peers \in SUBSET Peer
    BY <1>2, <2>2 DEF ClientPeers, Link
  <2> DEFINE old == link[cur].peers
             new == Given(old, p)
  <2>4. link'[cur].peers = new
    BY <1>3, <2>1, <2>2 DEF Link
  <2>5. p \in ClientPeers(cur) /\ p \in new
    BY <1>2 DEF Match, Known, Given
  <2>6. /\ ClientPeers(cur) \subseteq toset \cup old
        /\ \A x \in old \ ClientPeers(cur) : \E y \in toset \cup todel : y.id = x.id
    BY <1>2, <2>2 DEF PeersLeft
  <2>7. old \cap ClientPeers(cur) \subseteq new
    BY <1>3, <2>3, GivenKeeps
  <2>8. \A q \in new \ ClientPeers(cur) :
            \E x \in old \ ClientPeers(cur) : x.id = q.id /\ x.id # p.id
    BY <2>3, <2>5, GivenLeaves
  <2> HIDE DEF old, new
  <2>9. ClientPeers(cur) \subseteq toset' \cup new
    BY <2>1, <2>5, <2>6, <2>7
  <2>10. \A q \in new \ ClientPeers(cur) : \E y \in toset' \cup todel' : y.id = q.id
    BY <2>1, <2>2, <2>6, <2>8
  <2> QED
    BY <2>2, <2>3, <2>4, <2>9, <2>10 DEF PeersLeft
<1>7. CASE RemovePeer
  <2>1. PICK p \in todel : /\ link' = [link EXCEPT ![cur].peers = {q \in @ : q.id # p.id}]
                           /\ todel' = todel \ {p}
    BY <1>7 DEF RemovePeer
  <2>2. UNCHANGED <<cur, toset, pc>> /\ pc = "peers" /\ toset = {} /\ link[cur] \in Link
    BY <1>3, <1>7 DEF RemovePeer, TypeInv, Shape
  <2>3. ClientPeers(cur)' = ClientPeers(cur)
    BY <1>2, <2>2 DEF ClientPeers
  <2> DEFINE old == link[cur].peers
             new == {q \in old : q.id # p.id}
  <2>4. link'[cur].peers = new
    BY <1>3, <2>1, <2>2 DEF Link
  <2>5. \A q \in ClientPeers(cur) : q.id # p.id
    BY DEF Match
  <2>6. /\ ClientPeers(cur) \subseteq old
        /\ \A x \in old \ ClientPeers(cur) : \E y \in todel : y.id = x.id
    BY <1>2, <2>2 DEF PeersLeft
  <2> HIDE DEF old
  <2>7. ClientPeers(cur) \subseteq new
    BY <2>5, <2>6
  <2>8. \A q \in new \ ClientPeers(cur) : \E y \in todel' : y.id = q.id
    BY <2>1, <2>6
  <2> HIDE DEF new
  <2> QED
    BY <2>2, <2>3, <2>4, <2>7, <2>8 DEF PeersLeft
<1>8. CASE PeersDone
  <2>1. UNCHANGED <<cur, link, toset, todel>> /\ pc = "peers" /\ pc' = "obf" /\ toset = {} /\ todel = {}
    BY <1>8 DEF PeersDone
  <2>2. ClientPeers(cur)' = ClientPeers(cur)
    BY <1>2, <2>1 DEF ClientPeers
  <2>3. ClientPeers(cur) = link[cur].peers
    BY <1>2, <2>1 DEF PeersLeft
  <2> QED
    BY <2>1, <2>2, <2>3 DEF PeersLeft
<1>9. CASE EnsureRow \/ CreateLink \/ Configure \/ ReadNoPeers
  BY <1>9 DEF EnsureRow, CreateLink, Configure, ReadNoPeers, pass
<1>10. CASE Obfuscator \/ Undo \/ UndoFails \/ SpokeFails
  BY <1>10 DEF Obfuscator, Undo, UndoFails, SpokeFails, NextSpoke
<1> QED
  BY <1>1, <1>4, <1>5, <1>6, <1>7, <1>8, <1>9, <1>10, StepsOfPass

\* The invariant of the passes.
PassInv == TypeInv /\ Apart /\ Match /\ OnePeer /\ Contained

LEMMA InitPass == Init => PassInv
  BY InitType, InitApart, InitMatch, InitOnePeer
     DEF PassInv, Contained, SpokesLeft, KeysMade, PeersLeft, Known, Init

LEMMA NextPass ==
  ASSUME "dump" \notin FailAt, PassInv, [Next]_vars
  PROVE  PassInv'
  BY NextType, NextApart, NextMatch, NextOnePeer, NextSpokesLeft, NextKeysMade, NextPeersLeft
     DEF PassInv, Contained

\* If a failing `wg show` did not pass for an interface without peers, every
\* pass that ends would have put right what its report does not name: the
\* failure of one spoke stays with it, for any number of spokes and clients
\* and wherever else in the pass something fails (the try around each spoke of
\* _reconcile_locked).  The run makes the same assumption on FailAt.
THEOREM FailuresAreContained ==
  ASSUME "dump" \notin FailAt
  PROVE  Spec => []FailureContained
PROOF
<1>1. PassInv /\ [Next]_vars => PassInv'
  BY NextPass
<1>2. PassInv => FailureContained
  BY DEF PassInv, Contained, SpokesLeft, KeysMade, Known, Passed, FailureContained
<1> QED
  BY InitPass, <1>1, <1>2, PTL DEF Spec

-----------------------------------------------------------------------------
(* What was answered ok *)

\* The pass a request waits for works with what the request has committed.
Passing == req = "passing" =>
    /\ pc \notin {"idle", "down"}
    /\ snap = settings \/ (pc = "end" /\ errs # {})

LEMMA InitPassing == Init => Passing
  BY DEF Init, Passing

LEMMA NextPassing == ASSUME TypeInv, Passing, [Next]_vars PROVE Passing'
PROOF
<1>1. CASE Patch \/ PostClient \/ RemoveClient
  BY <1>1 DEF Patch, PostClient, RemoveClient, Commits, Passing
<1>2. CASE StartService \/ PeriodicPass \/ RequestPass
  BY <1>2, StoreKept DEF StartService, PeriodicPass, RequestPass, BeginPass, Passing
<1>3. CASE SettingsFail
  <2>1. 1 \in errs'
    BY <1>3, OneIsASpoke DEF SettingsFail
  <2> QED
    BY <1>3, <2>1 DEF SettingsFail, Passing
<1>4. ASSUME pc \in InPass \cup {"keys"}, pc' \in InPass \cup {"end"},
             snap' = snap, settings' = settings, req' = req
      PROVE  Passing'
  BY <1>4 DEF Passing, InPass
<1>5. CASE Keys \/ KeysFail
  BY <1>4, <1>5, StoreKept DEF Keys, EnsureClientKeys, KeysFail, InPass
<1>6. CASE EnsureRow \/ CreateLink \/ Configure
  BY <1>4, <1>6, StoreKept DEF EnsureRow, EnsureSpoke, CreateLink, Configure, pass, InPass
<1>7. CASE ReadPeers \/ ReadNoPeers \/ SetPeer \/ RemovePeer \/ PeersDone
  BY <1>4, <1>7, StoreKept DEF ReadPeers, ReadNoPeers, SetPeer, RemovePeer, PeersDone, InPass
<1>8. CASE Obfuscator \/ UndoFails \/ SpokeFails
  BY <1>4, <1>8, StoreKept DEF Obfuscator, UndoFails, SpokeFails, NextSpoke, InPass
<1>9. CASE Undo
  BY <1>4, <1>9 DEF Undo, DisableSpoke, NextSpoke, InPass
<1>10. CASE Return \/ Abort \/ Crash \/ Reboot
  BY <1>10 DEF Return, Abort, AfterPass, Crash, Reboot, Stopped, Passing
<1>11. CASE Restart \/ Die \/ Teardown \/ UNCHANGED vars
  BY <1>11, StoreKept DEF Restart, Die, Teardown, pass, vars, Passing
<1> QED
  BY <1>1, <1>2, <1>3, <1>5, <1>6, <1>7, <1>8, <1>9, <1>10, <1>11 DEF Next, Disturb, Fail, Step

\* What was answered ok is so, and no pass finds anything to do for it.
InForce ==
    /\ \A i \in Spokes : AsWanted(i, settings)
    /\ \A c \in clients : WantedSpokes(settings) \subseteq c.keys
    /\ snap \in {settings, NoSettings}
    /\ toset = {} /\ todel = {}

Answered == answer = "ok" /\ what \in {"patch", "create"}

Applied == Answered => InForce

LEMMA InitApplied == Init => Applied
  BY DEF Init, Applied, Answered

LEMMA KeptAsSet ==
  ASSUME NEW i \in Spokes, AsWanted(i, settings), settings' = settings, clients' = clients,
         link'[i] = link[i], rows'[i] = rows[i]
  PROVE  AsWanted(i, settings)'
  BY DEF AsWanted, Carried, Wrong, RightLink, ClientPeers, Enabled, WantedSpokes

LEMMA InForceKept ==
  ASSUME InForce, UNCHANGED store, link' = link, snap' \in {settings, NoSettings},
         toset' = {}, todel' = {}
  PROVE  InForce'
PROOF
<1>1. settings' = settings /\ clients' = clients /\ rows' = rows
  BY DEF store
<1>2. \A i \in Spokes : AsWanted(i, settings)'
  BY <1>1, KeptAsSet DEF InForce
<1>3. \A c \in clients' : WantedSpokes(settings') \subseteq c.keys
  BY <1>1 DEF InForce
<1> QED
  BY <1>1, <1>2, <1>3 DEF InForce

\* The steps that find something to do are not taken.
LEMMA NothingToDo ==
  ASSUME "dump" \notin FailAt, TypeInv, InForce
  PROVE  ~CreateLink /\ ~Configure /\ ~ReadNoPeers /\ ~SetPeer /\ ~RemovePeer
PROOF
<1>1. ASSUME pc = "link" PROVE Carried(cur, snap) /\ cur \in Spokes
  <2>1. snap \in Settings /\ cur \in Spokes /\ cur <= snap.n
    BY <1>1 DEF TypeInv, TypeOK, Shape, InPass
  <2>2. snap = settings
    BY <2>1, NullAssumption DEF InForce
  <2>3. cur \in WantedSpokes(settings)
    BY <2>1, <2>2 DEF WantedSpokes, Settings, Spokes
  <2> QED
    BY <2>1, <2>2, <2>3 DEF InForce, AsWanted
<1> QED
  BY <1>1 DEF CreateLink, Configure, ReadNoPeers, SetPeer, RemovePeer, InForce, Carried

LEMMA StepsInForce ==
  ASSUME "dump" \notin FailAt, TypeInv, InForce,
         Keys \/ EnsureRow \/ ReadPeers \/ Undo
  PROVE  InForce'
PROOF
<1>0. /\ cur \in Spokes /\ snap \in Settings /\ settings \in Settings /\ snap = settings
      /\ StoreTypeOK
  BY NullAssumption DEF Keys, EnsureRow, ReadPeers, Undo, TypeInv, TypeOK, StoreTypeOK, Shape,
                        InPass, InForce
<1>1. CASE Keys
  <2>1. \A c \in clients : [c EXCEPT !.keys = @ \cup WantedSpokes(snap)] = c
    <3> SUFFICES ASSUME NEW c \in clients
                 PROVE  [c EXCEPT !.keys = @ \cup WantedSpokes(snap)] = c
      OBVIOUS
    <3>1. c \in Client /\ c.keys \cup WantedSpokes(snap) = c.keys
      BY <1>0 DEF StoreTypeOK, InForce
    <3> QED
      BY <3>1 DEF Client
  <2>2. clients' = clients
    BY <1>1, <2>1 DEF Keys, EnsureClientKeys, WithKeys
  <2>3. UNCHANGED <<store, link, snap>> /\ toset' = {} /\ todel' = {}
    BY <1>1, <2>2 DEF Keys, EnsureClientKeys, store, InForce
  <2> QED
    BY <1>0, <2>3, InForceKept
<1>2. CASE EnsureRow
  <2>1. cur \in WantedSpokes(settings)
    BY <1>0, <1>2 DEF EnsureRow, TypeInv, Shape, WantedSpokes, Settings, Spokes
  <2>2. Carried(cur, settings)
    BY <1>0, <2>1 DEF InForce, AsWanted
  <2>3. /\ rows' = [rows EXCEPT ![cur] = RowEnsured(cur, snap.base)]
        /\ UNCHANGED <<link, snap, toset, todel, settings, clients>>
    BY <1>2 DEF EnsureRow, EnsureSpoke
  <2>4. /\ RowEnsured(cur, snap.base) \in Row
        /\ RowEnsured(cur, snap.base).key = rows[cur].key
    BY <1>0, <2>2, RowsTyped DEF Carried, Settings
  <2>5. rows'[cur] # NoRow /\ rows'[cur].key = rows[cur].key
    BY <1>0, <2>3, <2>4, StoreAssumption DEF StoreTypeOK, Row
  <2>6. ASSUME NEW i \in Spokes, i = cur PROVE AsWanted(i, settings)'
    <3>1. /\ Wrong(i, settings) = {} /\ link[i] # NoLink /\ link[i].peers = ClientPeers(i)
          /\ i \in WantedSpokes(settings)
      BY <2>1, <2>2, <2>6 DEF Carried
    <3>2. RightLink(i, settings)' = RightLink(i, settings)
      BY <2>3, <2>5, <2>6 DEF RightLink
    <3>3. Wrong(i, settings)' = {}
      BY <2>3, <3>1, <3>2 DEF Wrong
    <3>4. ClientPeers(i)' = ClientPeers(i) /\ WantedSpokes(settings)' = WantedSpokes(settings)
      BY <2>3 DEF ClientPeers, WantedSpokes
    <3> QED
      BY <2>3, <2>5, <2>6, <3>1, <3>3, <3>4 DEF AsWanted, Carried
  <2>7. \A i \in Spokes : AsWanted(i, settings)'
    <3> SUFFICES ASSUME NEW i \in Spokes, i # cur PROVE AsWanted(i, settings)'
      BY <2>6
    <3>1. rows'[i] = rows[i] /\ link'[i] = link[i] /\ AsWanted(i, settings)
      BY <1>0, <2>3 DEF StoreTypeOK, InForce
    <3> QED
      BY <2>3, <3>1, KeptAsSet
  <2> QED
    BY <2>3, <2>7 DEF InForce
<1>3. CASE ReadPeers
  <2>1. cur \in WantedSpokes(settings)
    BY <1>0, <1>3 DEF ReadPeers, TypeInv, Shape, WantedSpokes, Settings, Spokes
  <2>2. link[cur].peers = ClientPeers(cur)
    BY <1>0, <2>1 DEF InForce, AsWanted, Carried
  <2>3. toset' = {} /\ todel' = {}
    BY <1>3, <2>2 DEF ReadPeers, PeersToSet, PeersToRemove
  <2> QED
    BY <1>0, <1>3, <2>3, InForceKept DEF ReadPeers
<1>4. CASE Undo
  <2>1. cur \notin WantedSpokes(settings)
    BY <1>0, <1>4 DEF Undo, TypeInv, Shape, WantedSpokes, Settings, Spokes
  <2>2. link[cur] = NoLink
    BY <1>0, <2>1 DEF InForce, AsWanted
  <2>3. /\ settings' = settings /\ clients' = clients /\ cur \notin Enabled'
        /\ \A i \in Spokes \ {cur} : rows'[i] = rows[i]
    BY <1>0, <1>4, DisableTyped DEF Undo
  <2>4. link' = link
    BY <1>0, <1>4, <2>2 DEF Undo, TypeInv, TypeOK
  <2>5. \A i \in Spokes : AsWanted(i, settings)'
    <3> SUFFICES ASSUME NEW i \in Spokes PROVE AsWanted(i, settings)'
      OBVIOUS
    <3>1. CASE i = cur
      BY <2>1, <2>2, <2>3, <2>4, <3>1 DEF AsWanted, WantedSpokes
    <3>2. CASE i # cur
      BY <2>3, <2>4, <3>2, KeptAsSet DEF InForce
    <3> QED
      BY <3>1, <3>2
  <2>6. snap' = snap /\ toset' = {} /\ todel' = {}
    BY <1>4 DEF Undo, NextSpoke
  <2> QED
    BY <2>3, <2>5, <2>6 DEF InForce
<1> QED
  BY <1>1, <1>2, <1>3, <1>4

\* The answer of a request comes from a pass that ended without errors.
LEMMA ReturnInForce ==
  ASSUME PassInv, Passing, Return, req = "passing", errs = {}
  PROVE  InForce'
PROOF
<1>1. /\ pc = "end" /\ snap' = NoSettings
      /\ UNCHANGED <<settings, rows, clients, link, toset, todel>>
  BY DEF Return, store
<1>2. settings \in Settings
  BY DEF PassInv, TypeInv, TypeOK, StoreTypeOK
<1>3. snap = settings /\ Known
  BY <1>2, NullAssumption DEF Passing, Known
<1>4. \A i \in Spokes : AsWanted(i, settings)
  BY <1>1, <1>3 DEF PassInv, Contained, SpokesLeft, Passed
<1>5. \A c \in clients : WantedSpokes(settings) \subseteq c.keys
  BY <1>1, <1>3 DEF PassInv, Contained, KeysMade
<1>6. toset = {} /\ todel = {}
  BY <1>1 DEF PassInv, TypeInv, Shape
<1>7. \A i \in Spokes : AsWanted(i, settings)'
  BY <1>1, <1>4, KeptAsSet
<1> QED
  BY <1>1, <1>5, <1>6, <1>7 DEF InForce

LEMMA NextApplied ==
  ASSUME "dump" \notin FailAt, PassInv, Passing, Applied, [Next]_vars
  PROVE  Applied'
PROOF
<1> SUFFICES ASSUME Answered' PROVE InForce'
  BY DEF Applied
<1>0. TypeInv
  BY DEF PassInv
<1>1. CASE Return /\ req = "passing"
  <2>1. errs = {}
    BY <1>1 DEF Return, Answered
  <2> QED
    BY <1>1, <2>1, ReturnInForce
<1>2. CASE Patch \/ PostClient \/ RemoveClient \/ StartService
  BY <1>2 DEF Patch, PostClient, RemoveClient, Commits, StartService, Answered
<1>3. CASE Crash \/ Reboot \/ Teardown
  BY <1>3 DEF Crash, Reboot, Stopped, Teardown, Answered
<1>4. CASE Abort /\ req = "passing"
  BY <1>4 DEF Abort, Answered
<1>5. ASSUME answer' = answer, what' = what PROVE Answered /\ InForce
  BY <1>5 DEF Answered, Applied
<1>6. CASE Keys \/ EnsureRow \/ ReadPeers \/ Undo
  BY <1>0, <1>5, <1>6, StepsInForce DEF Keys, EnsureRow, ReadPeers, Undo
<1>7. CASE CreateLink \/ Configure \/ ReadNoPeers \/ SetPeer \/ RemovePeer
  BY <1>0, <1>5, <1>7, NothingToDo DEF CreateLink, Configure, ReadNoPeers, SetPeer, RemovePeer
<1>8. ASSUME UNCHANGED <<store, link, answer, what>>, snap' \in {snap, settings, NoSettings},
             toset' \in {toset, {}}, todel' \in {todel, {}}
      PROVE  InForce'
  <2>1. InForce
    BY <1>5, <1>8
  <2>2. snap' \in {settings, NoSettings} /\ toset' = {} /\ todel' = {}
    BY <1>8, <2>1 DEF InForce
  <2> QED
    BY <1>8, <2>1, <2>2, InForceKept
<1>9. CASE PeriodicPass \/ RequestPass \/ SettingsFail \/ KeysFail
  BY <1>8, <1>9 DEF PeriodicPass, RequestPass, BeginPass, SettingsFail, KeysFail
<1>10. CASE PeersDone \/ Obfuscator \/ UndoFails \/ SpokeFails
  BY <1>8, <1>10 DEF PeersDone, Obfuscator, UndoFails, SpokeFails, NextSpoke
<1>11. CASE (Return \/ Abort) /\ req # "passing"
  BY <1>8, <1>11 DEF Return, Abort
<1>12. CASE Restart \/ Die \/ UNCHANGED vars
  BY <1>8, <1>12 DEF Restart, Die, vars, pass
<1> QED
  BY <1>1, <1>2, <1>3, <1>4, <1>6, <1>7, <1>9, <1>10, <1>11, <1>12
     DEF Next, Disturb, Fail, Step

\* Under the same assumption, a change of the settings or a new client that was
\* answered without errors is in force and stays so, whatever the supervisor's
\* passes do after it: they find nothing to do (update_settings and
\* create_client of the API wait for the pass that applies what they have
\* committed).
THEOREM OkMeansApplied ==
  ASSUME "dump" \notin FailAt
  PROVE  Spec => []OkIsApplied
PROOF
<1>1. PassInv /\ Passing /\ Applied /\ [Next]_vars => PassInv' /\ Passing' /\ Applied'
  BY NextPass, NextPassing, NextApplied DEF PassInv
<1>2. Applied => OkIsApplied
  BY DEF Applied, Answered, InForce, OkIsApplied
<1> QED
  BY InitPass, InitPassing, InitApplied, <1>1, <1>2, PTL DEF Spec
=============================================================================
