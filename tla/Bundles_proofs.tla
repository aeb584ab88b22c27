---------------------------- MODULE Bundles_proofs ----------------------------
(***************************************************************************)
(* Proofs about bundles and config_version, for any number of spokes,      *)
(* slots, clients and values of the settings.                              *)
(***************************************************************************)
EXTENDS Bundles, WellFoundedInduction, TLAPS

-----------------------------------------------------------------------------
(* Types *)

\* A pass has read the settings; build_bundle() has read what its step says.
Reading ==
    /\ pc \notin {"down", "idle"} => snap \in Settings
    /\ fpc # "none" => fclient \in Client
    /\ fpc = "settings" => fsettings \in Settings /\ fversion \in 1 .. version

TypeInv == TypeOK /\ Reading

LEMMA OneIsASpoke == 1 \in Spokes
  BY StoreAssumption DEF Spokes

LEMMA RowsTyped ==
  ASSUME StoreTypeOK, NEW i \in Spokes, NEW base \in Bases
  PROVE  /\ RowEnsured(i, base) \in Row
         /\ rows[i] # NoRow => rows[i] \in Row /\ RowEnsured(i, base).key = rows[i].key
PROOF
<1>1. CASE rows[i] = NoRow
  BY <1>1 DEF RowEnsured, Row
<1>2. CASE rows[i] # NoRow
  <2>1. rows[i] \in Row
    BY <1>2 DEF StoreTypeOK
  <2>2. RowEnsured(i, base) = [rows[i] EXCEPT !.on = TRUE, !.base = base]
    BY <1>2 DEF RowEnsured
  <2> QED
    BY <2>1, <2>2 DEF Row
<1> QED
  BY <1>1, <1>2

\* A set of natural numbers that is not empty has its least member in it.
LEMMA LeastIsOne == ASSUME NEW S \in SUBSET Nat, S # {} PROVE Min(S) \in S
PROOF
<1> DEFINE R == {ss \in Nat \X Nat : ss[1] < ss[2]}
<1>1. IsWellFoundedOn(R, Nat)
  BY NatLessThanWellFounded DEF OpToRel
<1>2. PICK x \in S : \A y \in S : ~ (<<y, x>> \in R)
  BY <1>1, WFMin
<1>3. ASSUME NEW y \in S PROVE x <= y
  <2>1. ~(<<y, x>> \in R) /\ y \in Nat /\ x \in Nat
    BY <1>2
  <2> QED
    BY <2>1
<1> QED
  BY <1>3 DEF Min

LEMMA FreeSlotIsFree ==
  ASSUME FreeSlots # {}
  PROVE  Min(FreeSlots) \in Slots /\ \A c \in clients : c.slot # Min(FreeSlots)
PROOF
<1>1. FreeSlots \in SUBSET Nat
  BY StoreAssumption DEF FreeSlots, Slots
<1>2. Min(FreeSlots) \in FreeSlots
  BY <1>1, LeastIsOne
<1> QED
  BY <1>2 DEF FreeSlots

\* A client gets keys for what it lacks and is otherwise the same.
LEMMA WithKeysTyped ==
  ASSUME StoreTypeOK, NEW s \in Settings
  PROVE  WithKeys(s) \subseteq Client
PROOF
<1>1. WantedSpokes(s) \subseteq Spokes
  BY StoreAssumption DEF WantedSpokes, Settings, Spokes
<1>2. \A c \in clients : [c EXCEPT !.keys = @ \cup WantedSpokes(s)] \in Client
  BY <1>1 DEF StoreTypeOK, Client
<1> QED
  BY <1>2 DEF WithKeys

LEMMA InitTypeInv == Init => TypeInv
PROOF
<1> SUFFICES ASSUME Init PROVE TypeInv
  OBVIOUS
<1>1. clients \subseteq Client
  <2>1. \A k \in Spokes : 1 .. k \subseteq Spokes
    BY StoreAssumption DEF Spokes
  <2>2. 0 \in Slots
    BY StoreAssumption DEF Slots
  <2>3. \A d \in Ids, x \in Names, k \in Spokes :
            [id |-> d, name |-> x, slot |-> 0, keys |-> 1 .. k] \in Client
    BY <2>1, <2>2 DEF Client
  <2>4. clients \in {{}} \cup {{[id |-> d, name |-> x, slot |-> 0, keys |-> 1 .. k]} :
                                 d \in Ids, x \in Names, k \in Spokes}
    BY DEF Init, StoreInit
  <2>5. CASE clients = {}
    BY <2>5
  <2>6. CASE clients # {}
    <3>1. PICK d \in Ids, x \in Names, k \in Spokes :
              clients = {[id |-> d, name |-> x, slot |-> 0, keys |-> 1 .. k]}
      BY <2>4, <2>6
    <3> QED
      BY <2>3, <3>1
  <2> QED
    BY <2>5, <2>6
<1>2. StoreTypeOK
  BY <1>1 DEF Init, StoreInit, StoreTypeOK
<1>3. TypeOK
  <2>1. version \in Nat \ {0} /\ fversion \in Nat
    BY DEF Init
  <2> QED
    BY <1>2, <2>1, OneIsASpoke DEF Init, TypeOK
<1>4. Reading
  BY DEF Init, Reading
<1> QED
  BY <1>3, <1>4 DEF TypeInv

\* What a bundle looks like.
HeldTyped ==
    \/ held = NoBundle
    \/ /\ DOMAIN held = {"id", "version", "offer"}
       /\ held.id \in Ids /\ held.version \in 1 .. version
       /\ held.offer.base \in Bases /\ held.offer.mtu \in Mtus
       /\ DOMAIN held.offer.keys \subseteq Spokes
       /\ \A i \in DOMAIN held.offer.keys : held.offer.keys[i] \in Nat

\* A version that only rises leaves what is held and what is read well typed.
LEMMA Rises ==
  ASSUME TypeInv, UNCHANGED held, version' \in {version, version + 1}
  PROVE  HeldTyped' /\ version' \in Nat \ {0} /\ 1 .. version \subseteq 1 .. version'
  BY DEF TypeInv, TypeOK, HeldTyped

LEMMA NextTypeInv == TypeInv /\ [Next]_vars => TypeInv'
PROOF
<1> SUFFICES ASSUME TypeInv, [Next]_vars PROVE TypeInv'
  OBVIOUS
<1>0. CASE UNCHANGED vars
  BY <1>0 DEF vars, store, pass, fetch, TypeInv, TypeOK, StoreTypeOK, Reading
<1>1. CASE Patch \/ PostClient \/ RemoveClient
  <2>1. /\ UNCHANGED <<pass, fetch, held>> /\ req' = "committed"
        /\ \/ UNCHANGED <<version, lost>>
           \/ version' = version + 1 /\ lost' = FALSE
    BY <1>1 DEF Patch, PostClient, RemoveClient, Commits, Raise
  <2>2. StoreTypeOK'
    <3>1. CASE Patch
      BY <3>1 DEF Patch, UpdateSettings, TypeInv, TypeOK, StoreTypeOK
    <3>2. CASE PostClient
      BY <3>2, FreeSlotIsFree DEF PostClient, CreateClient, TypeInv, TypeOK, StoreTypeOK, Client
    <3>3. CASE RemoveClient
      BY <3>3 DEF RemoveClient, DeleteClient, TypeInv, TypeOK, StoreTypeOK
    <3> QED
      BY <1>1, <3>1, <3>2, <3>3
  <2> QED
    BY <2>1, <2>2, Rises DEF pass, fetch, TypeInv, TypeOK, HeldTyped, Reading
<1>2. CASE StartService \/ RequestPass \/ PeriodicPass
  BY <1>2, OneIsASpoke DEF StartService, RequestPass, PeriodicPass, BeginPass, store, fetch,
                           TypeInv, TypeOK, StoreTypeOK, Reading
<1>3. CASE Keys \/ KeysFail
  <2>1. StoreTypeOK'
    BY <1>3, WithKeysTyped DEF Keys, KeysFail, EnsureClientKeys, store, TypeInv, TypeOK,
                               StoreTypeOK, Reading
  <2>2. /\ UNCHANGED <<version, cur, snap, req, fetch, held, lost>>
        /\ pc' = "spoke" /\ touched' \in BOOLEAN /\ pc = "keys"
    BY <1>3 DEF Keys, KeysFail, TypeInv, TypeOK
  <2> QED
    BY <2>1, <2>2 DEF fetch, TypeInv, TypeOK, Reading
<1>4. CASE Spoke \/ Undo \/ SpokeFails
  <2>1. cur' \in Spokes /\ pc' \in {"bump", "spoke", "undo"}
    BY <1>4, StoreAssumption DEF Spoke, Undo, SpokeFails, NextSpoke, Spokes, TypeInv, TypeOK
  <2>2. StoreTypeOK'
    <3>1. CASE Spoke
      <4>1. snap.base \in Bases
        BY <3>1 DEF Spoke, TypeInv, Reading, Settings
      <4>2. RowEnsured(cur, snap.base) \in Row
        BY <4>1, RowsTyped DEF TypeInv, TypeOK
      <4> QED
        BY <3>1, <4>2 DEF Spoke, EnsureSpoke, TypeInv, TypeOK, StoreTypeOK
    <3>2. CASE Undo
      BY <3>2 DEF Undo, DisableSpoke, TypeInv, TypeOK, StoreTypeOK, Row
    <3>3. CASE SpokeFails
      BY <3>3 DEF SpokeFails, store, TypeInv, TypeOK, StoreTypeOK
    <3> QED
      BY <1>4, <3>1, <3>2, <3>3
  <2>3. /\ UNCHANGED <<version, snap, req, fetch, held, lost>>
        /\ touched' \in BOOLEAN /\ pc \in {"spoke", "undo"}
    BY <1>4 DEF Spoke, Undo, SpokeFails, TypeInv, TypeOK
  <2> QED
    BY <2>1, <2>2, <2>3 DEF fetch, TypeInv, TypeOK, Reading
<1>5. CASE Bump \/ BumpFails \/ Abort
  <2>1. /\ UNCHANGED <<store, fetch, held>> /\ Return
        /\ version' \in {version, version + 1} /\ lost' \in BOOLEAN
    BY <1>5 DEF Bump, BumpFails, Abort, Raise, TypeInv, TypeOK
  <2>2. StoreTypeOK'
    BY <2>1 DEF store, TypeInv, TypeOK, StoreTypeOK
  <2> QED
    BY <2>1, <2>2, OneIsASpoke, Rises DEF Return, fetch, TypeInv, TypeOK, HeldTyped, Reading
<1>6. CASE Crash
  BY <1>6, OneIsASpoke DEF Crash, FetchNothing, store, TypeInv, TypeOK, StoreTypeOK, Reading
<1>7. CASE ReadClient
  BY <1>7 DEF ReadClient, store, pass, TypeInv, TypeOK, StoreTypeOK, Reading
<1>8. CASE ReadSettings
  BY <1>8 DEF ReadSettings, store, pass, TypeInv, TypeOK, StoreTypeOK, Reading
<1>9. CASE ReadSpokes
  <2>1. UNCHANGED <<store, version, pass, req, lost>> /\ FetchNothing
    BY <1>9 DEF ReadSpokes
  <2>2. HeldTyped'
    <3>1. CASE held' = held
      BY <2>1, <3>1 DEF TypeInv, TypeOK, HeldTyped
    <3>2. CASE held' = [id |-> fclient.id, version |-> fversion, offer |-> OfferTo(fsettings)]
      <4>1. fclient.id \in Ids /\ fsettings.base \in Bases /\ fsettings.mtu \in Mtus
        BY <1>9 DEF ReadSpokes, TypeInv, Reading, Client, Settings
      <4>2. \A i \in Offered(fsettings) : i \in Spokes /\ rows[i].key \in Nat
        BY DEF Offered, Enabled, TypeInv, TypeOK, StoreTypeOK, Row
      <4>3. fversion \in 1 .. version
        BY <1>9 DEF ReadSpokes, TypeInv, Reading
      <4> QED
        BY <2>1, <3>2, <4>1, <4>2, <4>3 DEF HeldTyped, OfferTo
    <3> QED
      BY <1>9, <3>1, <3>2 DEF ReadSpokes
  <2> QED
    BY <2>1, <2>2 DEF FetchNothing, store, pass, TypeInv, TypeOK, StoreTypeOK, HeldTyped, Reading
<1> QED
  BY <1>0, <1>1, <1>2, <1>3, <1>4, <1>5, <1>6, <1>7, <1>8, <1>9
     DEF Next, Disturb, Fail, Step, Fetch

\* Every variable keeps its type: above all a bundle is made of spokes that exist,
\* and bears a version that the store has had.
THEOREM BundleTypesCorrect == Spec => []TypeOK
PROOF
<1>1. TypeInv => TypeOK
  BY DEF TypeInv
<1> QED
  BY InitTypeInv, NextTypeInv, <1>1, PTL DEF Spec

-----------------------------------------------------------------------------
(* A key that was handed out stays *)

\* The row of a spoke is never removed, and never gets another key.
LEMMA RowsKeepKeys ==
  ASSUME TypeInv, [Next]_vars, NEW i \in Spokes, rows[i] # NoRow
  PROVE  rows'[i] # NoRow /\ rows'[i].key = rows[i].key
PROOF
<1>1. CASE UNCHANGED rows
  BY <1>1
<1>2. CASE Spoke
  <2>1. snap.base \in Bases /\ cur \in Spokes
    BY <1>2 DEF Spoke, TypeInv, TypeOK, Reading, Settings
  <2>2. RowEnsured(cur, snap.base) # NoRow
    BY <2>1, RowsTyped, StoreAssumption DEF TypeInv, TypeOK, Row
  <2>3. rows[cur] # NoRow => RowEnsured(cur, snap.base).key = rows[cur].key
    BY <2>1, RowsTyped DEF TypeInv, TypeOK
  <2> QED
    BY <1>2, <2>1, <2>2, <2>3 DEF Spoke, EnsureSpoke, TypeInv, TypeOK, StoreTypeOK
<1>3. CASE Undo
  <2>1. rows[i] \in Row
    BY DEF TypeInv, TypeOK, StoreTypeOK
  <2>2. [rows[i] EXCEPT !.on = FALSE] \in Row /\ [rows[i] EXCEPT !.on = FALSE].key = rows[i].key
    BY <2>1 DEF Row
  <2>3. rows'[i] \in {rows[i], [rows[i] EXCEPT !.on = FALSE]}
    BY <1>3 DEF Undo, DisableSpoke, TypeInv, TypeOK, StoreTypeOK
  <2> QED
    BY <2>1, <2>2, <2>3, StoreAssumption DEF Row
<1> QED
  BY <1>1, <1>2, <1>3
     DEF Next, Disturb, Fail, Step, Fetch, Patch, UpdateSettings, PostClient, CreateClient,
         RemoveClient, DeleteClient, KeysFail, SpokeFails, BumpFails, Abort, Crash, StartService,
         RequestPass, PeriodicPass, BeginPass, Keys, EnsureClientKeys, Bump, ReadClient,
         ReadSettings, ReadSpokes, store, vars

\* What is held was the key of a row, and still is: more than OldBundleWorks says,
\* which speaks of a client that still exists and of spokes that are on.
KeysHeld ==
    held # NoBundle =>
        \A i \in DOMAIN held.offer.keys : rows[i] # NoRow /\ held.offer.keys[i] = rows[i].key

LEMMA NextKeysHeld ==
  ASSUME TypeInv, KeysHeld, [Next]_vars
  PROVE  KeysHeld'
PROOF
<1>1. CASE held' = held
  <2> SUFFICES ASSUME held # NoBundle, NEW i \in DOMAIN held.offer.keys
               PROVE  rows'[i] # NoRow /\ held.offer.keys[i] = rows'[i].key
    BY <1>1 DEF KeysHeld
  <2>1. i \in Spokes
    BY DEF TypeInv, TypeOK
  <2> QED
    BY <2>1, RowsKeepKeys DEF KeysHeld
<1>2. CASE ReadSpokes /\ held' # held
  <2>1. held'.offer.keys = [i \in Offered(fsettings) |-> rows[i].key] /\ rows' = rows
    BY <1>2 DEF ReadSpokes, OfferTo, store
  <2>2. \A i \in Offered(fsettings) : rows[i] # NoRow
    BY DEF Offered, Enabled
  <2> QED
    BY <2>1, <2>2 DEF KeysHeld
<1> QED
  BY <1>1, <1>2
     DEF Next, Disturb, Fail, Step, Fetch, Patch, Commits, PostClient, RemoveClient,
         KeysFail, Spoke, Undo, SpokeFails, BumpFails, Abort, Crash, StartService,
         RequestPass, PeriodicPass, BeginPass, Keys, Bump, ReadClient, ReadSettings, vars

\* A bundle handed out earlier keeps the keys the server has on every spoke that
\* is on, across any number of changes, failures and restarts.
THEOREM OldBundlesWork == Spec => []OldBundleWorks
PROOF
<1>1. Init => KeysHeld
  BY DEF Init, KeysHeld
<1>2. KeysHeld => OldBundleWorks
  BY DEF KeysHeld, OldBundleWorks, Holder
<1>3. TypeInv /\ KeysHeld /\ [Next]_vars => TypeInv' /\ KeysHeld'
  BY NextTypeInv, NextKeysHeld
<1> QED
  BY InitTypeInv, <1>1, <1>2, <1>3, PTL DEF Spec

-----------------------------------------------------------------------------
(* One version, one bundle *)

\* A pass that has changed nothing yet has no flag; settings read under the
\* version the store still has give the bundle of the store; and a bundle held
\* with that version is the bundle of the store, unless a pass that changed the
\* rows is on its way to its bump or was cut off before it.
Current ==
    /\ pc \in {"down", "idle", "keys"} => ~touched
    /\ fpc = "settings" /\ fversion = version => BundleFields(fsettings) = BundleFields(settings)
    /\ held # NoBundle /\ held.version = version /\ ~lost /\ ~touched
          => held.offer = OfferTo(settings)

\* What decides over a bundle is in the bundle fields and the rows.
LEMMA SameOffer ==
  ASSUME NEW s, NEW t, BundleFields(s) = BundleFields(t)
  PROVE  OfferTo(s) = OfferTo(t)
  BY DEF BundleFields, OfferTo, Offered, WantedSpokes

\* A version of the past is not the present one once that has been raised.
LEMMA RaisedIsNew ==
  ASSUME TypeInv, version' = version + 1
  PROVE  /\ held # NoBundle => held.version # version'
         /\ fpc = "settings" => fversion # version'
  BY DEF TypeInv, TypeOK, Reading

\* A request raises the version, or leaves every bundle as it was.
LEMMA RequestCurrent ==
  ASSUME TypeInv, Current, Patch \/ PostClient \/ RemoveClient
  PROVE  Current'
PROOF
<1>1. UNCHANGED <<pc, touched, fetch, held, rows>>
  BY DEF Patch, UpdateSettings, PostClient, CreateClient, RemoveClient, DeleteClient, Commits, pass
<1>2. CASE version' = version + 1
  BY <1>1, <1>2, RaisedIsNew DEF Current, fetch
<1>3. CASE version' # version + 1
  <2>1. UNCHANGED <<version, lost>> /\ BundleFields(settings') = BundleFields(settings)
    BY <1>3 DEF Patch, PostClient, RemoveClient, Raise
  <2>2. OfferTo(settings)' = OfferTo(settings)
    BY <1>1, <2>1 DEF BundleFields, OfferTo, Offered, WantedSpokes, Enabled
  <2> QED
    BY <1>1, <2>1, <2>2 DEF Current, fetch
<1> QED
  BY <1>2, <1>3

LEMMA NextCurrent ==
  ASSUME TypeInv, Current, [Next]_vars
  PROVE  Current'
PROOF
<1>0. CASE UNCHANGED vars
  BY <1>0 DEF vars, store, pass, fetch, Current, OfferTo, Offered, Enabled
<1>1. CASE Patch \/ PostClient \/ RemoveClient
  BY <1>1, RequestCurrent
<1>2. CASE StartService \/ RequestPass \/ PeriodicPass
  BY <1>2 DEF StartService, RequestPass, PeriodicPass, BeginPass, store, fetch, Current,
              OfferTo, Offered, Enabled
<1>3. CASE Keys \/ KeysFail
  <2>1. /\ UNCHANGED <<settings, rows, version, fetch, held, lost>> /\ ~touched
        /\ pc' = "spoke"
    BY <1>3 DEF Keys, KeysFail, EnsureClientKeys, store, Current
  <2>2. OfferTo(settings)' = OfferTo(settings)
    BY <2>1 DEF OfferTo, Offered, Enabled
  <2> QED
    BY <2>1, <2>2 DEF Current, fetch
<1>4. CASE Spoke \/ Undo \/ SpokeFails
  <2>1. /\ UNCHANGED <<settings, version, fetch, held, lost>>
        /\ pc' \in {"bump", "spoke", "undo"}
        /\ ~touched' => ~touched /\ rows' = rows
    BY <1>4 DEF Spoke, Undo, SpokeFails, EnsureSpoke, DisableSpoke, NextSpoke, store, TypeInv, TypeOK
  <2>2. rows' = rows => OfferTo(settings)' = OfferTo(settings)
    BY <2>1 DEF OfferTo, Offered, Enabled
  <2> QED
    BY <2>1, <2>2 DEF Current, fetch
<1>5. CASE Bump \/ BumpFails \/ Abort \/ Crash
  <2>1. /\ UNCHANGED <<store, held>> /\ ~touched'
        /\ UNCHANGED fetch \/ fpc' = "none"
    BY <1>5 DEF Bump, BumpFails, Abort, Crash, FetchNothing, Return
  <2>2. \/ version' = version + 1
        \/ version' = version /\ (~lost' => ~lost /\ ~touched)
    BY <1>5 DEF Bump, BumpFails, Abort, Crash, Raise, TypeInv, TypeOK
  <2>3. OfferTo(settings)' = OfferTo(settings)
    BY <2>1 DEF store, OfferTo, Offered, Enabled
  <2> QED
    BY <2>1, <2>2, <2>3, RaisedIsNew DEF Current, store, fetch
<1>6. CASE ReadClient \/ ReadSettings
  BY <1>6 DEF ReadClient, ReadSettings, store, pass, Current, OfferTo, Offered, Enabled
<1>7. CASE ReadSpokes
  <2>1. UNCHANGED <<store, version, pass, lost>> /\ fpc = "settings" /\ fpc' = "none"
    BY <1>7 DEF ReadSpokes, FetchNothing
  <2>2. OfferTo(settings)' = OfferTo(settings)
    BY <2>1 DEF store, OfferTo, Offered, Enabled
  <2>3. CASE held' = held
    BY <2>1, <2>2, <2>3 DEF Current, pass
  <2>4. CASE held' = [id |-> fclient.id, version |-> fversion, offer |-> OfferTo(fsettings)]
    <3>1. held'.version = fversion /\ held'.offer = OfferTo(fsettings)
      BY <2>4
    <3>2. fversion = version => OfferTo(fsettings) = OfferTo(settings)
      BY <2>1, SameOffer DEF Current
    <3> QED
      BY <2>1, <2>2, <3>1, <3>2 DEF Current, pass
  <2> QED
    BY <1>7, <2>3, <2>4 DEF ReadSpokes
<1> QED
  BY <1>0, <1>1, <1>2, <1>3, <1>4, <1>5, <1>6, <1>7
     DEF Next, Disturb, Fail, Step, Fetch

\* As long as no pass has been cut off between a change of the bundles and its
\* bump, a client whose bundle has the version of the store holds the bundle the
\* store would give it now: it never stays behind because it takes no new one.
THEOREM SameVersionIsSameBundle == Spec => []SameVersionSameBundle
PROOF
<1>1. Init => Current
  BY DEF Init, Current
<1>2. Current => SameVersionSameBundle
  BY DEF Current, SameVersionSameBundle, UpToDate, Quiet, Holder
<1>3. TypeInv /\ Current /\ [Next]_vars => TypeInv' /\ Current'
  BY NextTypeInv, NextCurrent
<1> QED
  BY InitTypeInv, <1>1, <1>2, <1>3, PTL DEF Spec

-----------------------------------------------------------------------------
(* No two clients share an address *)

\* Clients that are two have two ids, two names and two slots.
Apart == \A c, d \in clients : c.id = d.id \/ c.name = d.name \/ c.slot = d.slot => c = d

LEMMA NextApart ==
  ASSUME TypeInv, Apart, [Next]_vars
  PROVE  Apart'
PROOF
<1>1. CASE UNCHANGED clients
  BY <1>1 DEF Apart
<1>2. CASE PostClient
  <2>1. PICK x \in Names, d \in Ids : CreateClient(x, d)
    BY <1>2 DEF PostClient
  <2> DEFINE fresh == [id |-> d, name |-> x, slot |-> Min(FreeSlots), keys |-> Spokes]
  <2>2. clients' = clients \cup {fresh}
    BY <2>1 DEF CreateClient
  <2>3. \A c \in clients : c.id # fresh.id /\ c.name # fresh.name /\ c.slot # fresh.slot
    BY <2>1, FreeSlotIsFree DEF CreateClient
  <2> HIDE DEF fresh
  <2> QED
    BY <2>2, <2>3 DEF Apart
<1>3. CASE RemoveClient
  BY <1>3 DEF RemoveClient, DeleteClient, Apart
<1>4. CASE Keys
  <2>1. clients' = {[c EXCEPT !.keys = @ \cup WantedSpokes(snap)] : c \in clients}
    BY <1>4 DEF Keys, EnsureClientKeys, WithKeys
  <2> DEFINE More(c) == [c EXCEPT !.keys = @ \cup WantedSpokes(snap)]
  <2>2. \A c \in clients :
            More(c).id = c.id /\ More(c).name = c.name /\ More(c).slot = c.slot
    BY DEF TypeInv, TypeOK, StoreTypeOK, Client
  <2> HIDE DEF More
  <2>3. clients' = {More(c) : c \in clients}
    BY <2>1 DEF More
  <2> QED
    BY <2>2, <2>3 DEF Apart
<1> QED
  BY <1>1, <1>2, <1>3, <1>4
     DEF Next, Disturb, Fail, Step, Fetch, Patch, UpdateSettings, KeysFail, Spoke, EnsureSpoke,
         Undo, DisableSpoke, SpokeFails, BumpFails, Abort, Crash, StartService, RequestPass,
         PeriodicPass, BeginPass, Bump, ReadClient, ReadSettings, ReadSpokes, store, vars

\* No two clients ever have the same slot, and with it the same address on a
\* spoke, nor the same name: a slot is handed out again only after its client
\* is gone (Database.create_client takes the least free one).
THEOREM ClientsApart == Spec => []Apart
PROOF
<1>1. Init => Apart
  <2> SUFFICES ASSUME Init, NEW c \in clients, NEW d \in clients PROVE c = d
    BY DEF Apart
  <2>1. clients \in {{}} \cup {{[id |-> e, name |-> x, slot |-> 0, keys |-> 1 .. k]} :
                                 e \in Ids, x \in Names, k \in Spokes}
    BY DEF Init, StoreInit
  <2> QED
    BY <2>1
<1>2. TypeInv /\ Apart /\ [Next]_vars => TypeInv' /\ Apart'
  BY NextTypeInv, NextApart
<1> QED
  BY InitTypeInv, <1>1, <1>2, PTL DEF Spec
=============================================================================
