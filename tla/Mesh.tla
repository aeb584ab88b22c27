-------------------------------- MODULE Mesh --------------------------------
(***************************************************************************)
(* The WireGuard half of reconcile(): the interfaces swg{i} and the peers  *)
(* on them (orchestrator.py and wg.py), against the store, the requests of *)
(* the API, the supervisor's periodic pass, and obfmesh-ctl while the      *)
(* service is stopped.                                                     *)
(*                                                                         *)
(* _APPLY_LOCK lets one request at a time commit and wait for its pass;    *)
(* the orchestrator's lock lets one pass at a time run.  A periodic pass   *)
(* takes only the second, so a request may commit while it is under way.   *)
(*                                                                         *)
(* Abstracted: a command that sets one thing on an interface is one step,  *)
(* with the check in front of it; the obfuscator of a spoke is the fact    *)
(* that one runs (module Obfuscators has the rest); config_version is left *)
(* to module Bundles.                                                      *)
(***************************************************************************)
EXTENDS Store

CONSTANTS
    FailAt,     \* the points of a pass at which an exception may be raised
    Stranger,   \* a peer that no client has put there
    NoSlot,     \* other allowed addresses than the one of a slot
    NoLink, NoSettings

Peer == [id: Ids \cup {Stranger}, slot: Slots \cup {NoSlot}]

\* An interface.  stray: it has an address of the mesh that is not its own;
\* key: which of the spoke's key pairs it has, 0 for none of them.
Link == [address: BOOLEAN, stray: BOOLEAN, mtu: Mtus, key: Nat, port: BOOLEAN,
         up: BOOLEAN, peers: SUBSET Peer]

ASSUME PeerAssumption == Stranger \notin Ids /\ NoSlot \notin Slots
ASSUME NullAssumption == NoLink \notin Link /\ NoSettings \notin Settings

\* What _reconcile_interface puts right, in its order.
Commands == <<"address", "stray", "mtu", "key", "port", "up">>

VARIABLES
    link,       \* the interface of each spoke
    obf,        \* the spokes whose obfuscator runs
    pc,         \* where the pass is that holds the orchestrator's lock
    cur, snap,  \* the spoke it is at, and the settings it has read
    toset, todel,   \* peers it has found to set and to remove
    errs,       \* what its report names: spokes, and 0 for the clients' keys
    req, what,  \* the request inside _APPLY_LOCK, and what the last one was
    answer      \* how it was answered

pass == <<pc, cur, snap, toset, todel, errs>>
vars == <<store, link, obf, pass, req, what, answer>>

TypeOK ==
    /\ StoreTypeOK
    /\ link \in [Spokes -> Link \cup {NoLink}]
    /\ obf \subseteq Spokes
    /\ pc \in {"down", "idle", "keys", "row", "link", "peers", "obf", "undo", "end"}
    /\ cur \in Spokes
    /\ snap \in Settings \cup {NoSettings}
    /\ toset \subseteq Peer /\ todel \subseteq Peer
    /\ errs \subseteq Spokes \cup {0}
    /\ req \in {"none", "boot", "committed", "passing"}
    /\ what \in {"none", "patch", "create", "delete", "teardown"}
    /\ answer \in {"none", "ok", "errors"}

\* ip link add: nothing is configured yet.
NewLink(m) == [address |-> FALSE, stray |-> FALSE, mtu |-> m, key |-> 0, port |-> FALSE,
               up |-> FALSE, peers |-> {}]

\* An interface an earlier release has left: an address too many on it, and
\* on the peers of its clients, and a peer nobody knows.
OldLink(m) == [NewLink(m) EXCEPT !.stray = TRUE, !.up = TRUE,
                                 !.peers = {[id |-> Stranger, slot |-> 0]}
                                    \cup {[id |-> c.id, slot |-> NoSlot] : c \in clients}]

Init ==
    /\ StoreInit
    /\ \E m \in Mtus : link \in [Spokes -> {NoLink, OldLink(m)}]
    /\ obf = {}
    /\ pc = "down" /\ cur = 1 /\ snap = NoSettings
    /\ toset = {} /\ todel = {} /\ errs = {}
    /\ req = "none" /\ what = "none" /\ answer = "none"

-----------------------------------------------------------------------------
(* Requests *)

Commits(kind) ==
    /\ pc # "down" /\ req = "none"
    /\ req' = "committed" /\ what' = kind /\ answer' = "none"
    /\ UNCHANGED <<link, obf, pass>>

Patch == Commits("patch") /\ \E s \in Settings : UpdateSettings(s)

\* A key pair is new: no interface and no pass has it.
Unused(d) == /\ \A i \in Spokes : link[i] # NoLink => \A p \in link[i].peers : p.id # d
             /\ \A p \in toset \cup todel : p.id # d

PostClient ==
    /\ Commits("create")
    /\ \E x \in Names, d \in Ids : Unused(d) /\ CreateClient(x, d)

RemoveClient == Commits("delete") /\ \E x \in Names : DeleteClient(x)

-----------------------------------------------------------------------------
(* reconcile() *)

BeginPass ==
    /\ pc' = "keys" /\ cur' = 1 /\ snap' = settings
    /\ errs' = {} /\ UNCHANGED <<toset, todel>>
    /\ UNCHANGED <<store, link, obf>>

\* The pass of the start-up (or of obfmesh-ctl while the service is down), which
\* no request precedes, those of the supervisor, and the one a request waits for.
StartService ==
    /\ pc = "down"
    /\ req' = "boot" /\ what' = "none" /\ answer' = "none"
    /\ BeginPass
PeriodicPass == pc = "idle" /\ BeginPass /\ UNCHANGED <<req, what, answer>>
RequestPass ==
    /\ pc = "idle" /\ req = "committed" /\ req' = "passing"
    /\ BeginPass /\ UNCHANGED <<what, answer>>

\* The settings cannot be read: the report says so, and nothing is done.
SettingsFail ==
    /\ pc = "idle" /\ "settings" \in FailAt
    /\ req' = IF req = "committed" THEN "passing" ELSE req
    /\ pc' = "end" /\ errs' = Spokes
    /\ UNCHANGED <<store, link, obf, cur, snap, toset, todel, what, answer>>

Keys ==
    /\ pc = "keys"
    /\ EnsureClientKeys(snap)
    /\ pc' = "row"
    /\ UNCHANGED <<link, obf, cur, snap, toset, todel, errs, req, what, answer>>

KeysFail ==
    /\ pc = "keys" /\ "keys" \in FailAt
    /\ WithKeys(snap) # clients
    /\ pc' = "row" /\ errs' = {0}
    /\ UNCHANGED <<store, link, obf, cur, snap, toset, todel, req, what, answer>>

\* Mutant: one spoke too many.
NextSpokeTooFar ==
    /\ toset' = {} /\ todel' = {}
    /\ pc' = IF cur > SpokeMax THEN "end" ELSE IF cur + 1 <= snap.n THEN "row" ELSE "undo"
    /\ cur' = IF cur > SpokeMax THEN 1 ELSE cur + 1

\* Mutant: the last wanted spoke is taken for an unwanted one.
NextSpokeTooSoon ==
    /\ toset' = {} /\ todel' = {}
    /\ pc' = IF cur = SpokeMax THEN "end" ELSE IF cur + 1 < snap.n THEN "row" ELSE "undo"
    /\ cur' = IF cur = SpokeMax THEN 1 ELSE cur + 1

\* After spoke i comes the next wanted one, then the unwanted ones.
NextSpoke ==
    /\ toset' = {} /\ todel' = {}
    /\ pc' = IF cur = SpokeMax THEN "end" ELSE IF cur + 1 <= snap.n THEN "row" ELSE "undo"
    /\ cur' = IF cur = SpokeMax THEN 1 ELSE cur + 1

EnsureRow ==
    /\ pc = "row"
    /\ EnsureSpoke(cur, snap.base)
    /\ pc' = "link"
    /\ UNCHANGED <<link, obf, cur, snap, toset, todel, errs, req, what, answer>>

\* What the interface of spoke i should be.
RightLink(i, s) == [address |-> TRUE, stray |-> FALSE, mtu |-> s.mtu, key |-> rows[i].key,
                    port |-> TRUE, up |-> TRUE]

Wrong(i, s) == {k \in DOMAIN Commands : link[i][Commands[k]] # RightLink(i, s)[Commands[k]]}

CreateLink ==
    /\ pc = "link" /\ link[cur] = NoLink
    /\ \E m \in Mtus : link' = [link EXCEPT ![cur] = NewLink(m)]
    /\ UNCHANGED <<store, obf, pass, req, what, answer>>

\* The next command that is not already the case.
Configure ==
    /\ pc = "link" /\ link[cur] # NoLink /\ Wrong(cur, snap) # {}
    /\ LET c == Commands[Min(Wrong(cur, snap))]
       IN  link' = [link EXCEPT ![cur][c] = RightLink(cur, snap)[c]]
    /\ UNCHANGED <<store, obf, pass, req, what, answer>>

\* Mutant: a peer is left alone whatever address it has.
PeersToSetById(i, actual) == {p \in ClientPeers(i) : \A q \in actual : q.id # p.id}

\* Peers that are missing or have another address than theirs.
PeersToSet(i, actual) == ClientPeers(i) \ actual

\* Mutant: whatever the pass has not set itself is taken for foreign.
PeersToRemoveNotSet(i, actual) == {q \in actual : \A p \in PeersToSet(i, actual) : p.id # q.id}

\* Peers of no client.
PeersToRemove(i, actual) == {q \in actual : \A p \in ClientPeers(i) : p.id # q.id}

\* The clients of the store against the peers of the interface.
ReadPeers ==
    /\ pc = "link" /\ link[cur] # NoLink /\ Wrong(cur, snap) = {}
    /\ toset' = PeersToSet(cur, link[cur].peers)
    /\ todel' = PeersToRemove(cur, link[cur].peers)
    /\ pc' = "peers"
    /\ UNCHANGED <<store, link, obf, cur, snap, errs, req, what, answer>>

\* `wg show` fails: the interface passes for one without peers, and no error
\* is reported.
ReadNoPeers ==
    /\ pc = "link" /\ "dump" \in FailAt
    /\ link[cur] # NoLink /\ Wrong(cur, snap) = {} /\ link[cur].peers # {}
    /\ toset' = PeersToSet(cur, {}) /\ todel' = {}
    /\ pc' = "peers"
    /\ UNCHANGED <<store, link, obf, cur, snap, errs, req, what, answer>>

\* WireGuard gives an address to one peer: who had it loses it.
Given(peers, p) ==
    {p} \cup {[q EXCEPT !.slot = IF @ = p.slot THEN NoSlot ELSE @] : q \in {x \in peers : x.id # p.id}}

SetPeer ==
    /\ pc = "peers"
    /\ \E p \in toset :
         /\ link' = [link EXCEPT ![cur].peers = Given(@, p)]
         /\ toset' = toset \ {p}
    /\ UNCHANGED <<store, obf, pc, cur, snap, todel, errs, req, what, answer>>

RemovePeer ==
    /\ pc = "peers" /\ toset = {}
    /\ \E p \in todel :
         /\ link' = [link EXCEPT ![cur].peers = {q \in @ : q.id # p.id}]
         /\ todel' = todel \ {p}
    /\ UNCHANGED <<store, obf, pc, cur, snap, toset, errs, req, what, answer>>

PeersDone ==
    /\ pc = "peers" /\ toset = {} /\ todel = {}
    /\ pc' = "obf"
    /\ UNCHANGED <<store, link, obf, cur, snap, toset, todel, errs, req, what, answer>>

Obfuscator ==
    /\ pc = "obf"
    /\ obf' = obf \cup {cur}
    /\ NextSpoke
    /\ UNCHANGED <<store, link, snap, errs, req, what, answer>>

\* Obfuscator, interface, row, in this order.
Undo ==
    /\ pc = "undo"
    /\ obf' = obf \ {cur}
    /\ link' = [link EXCEPT ![cur] = NoLink]
    /\ DisableSpoke(cur)
    /\ NextSpoke
    /\ UNCHANGED <<snap, errs, req, what, answer>>

\* The interface cannot be deleted: the row stays enabled.
UndoFails ==
    /\ pc = "undo" /\ "undo" \in FailAt /\ link[cur] # NoLink
    /\ obf' = obf \ {cur}
    /\ errs' = errs \cup {cur}
    /\ NextSpoke
    /\ UNCHANGED <<store, link, snap, req, what, answer>>

\* Mutant: the failure of one spoke ends the pass.
SpokeFailsOut ==
    /\ pc \in {"row", "link", "peers", "obf"} \cap FailAt
    /\ errs' = errs \cup {cur}
    /\ pc' = "end" /\ cur' = 1 /\ toset' = {} /\ todel' = {}
    /\ UNCHANGED <<store, link, obf, snap, req, what, answer>>

\* A failure is the spoke's own: the rest of it is skipped, the others are not.
SpokeFails ==
    /\ pc \in {"row", "link", "peers", "obf"} \cap FailAt
    /\ errs' = errs \cup {cur}
    /\ NextSpoke
    /\ UNCHANGED <<store, link, obf, snap, req, what, answer>>

AfterPass(r) == IF r = "boot" THEN "none" ELSE r

\* The report.  A settings change and a new client are answered with it; the
\* removal of a client is answered 204 whatever it says.
Return ==
    /\ pc = "end"
    /\ pc' = "idle" /\ snap' = NoSettings /\ errs' = {}
    /\ \/ req # "passing" /\ req' = AfterPass(req) /\ answer' = answer
       \/ /\ req = "passing" /\ req' = "none"
          /\ answer' = IF errs = {} \/ what = "delete" THEN "ok" ELSE "errors"
    /\ UNCHANGED <<store, link, obf, cur, toset, todel, what>>

\* An exception RECOVERABLE does not name, out of the wait for an obfuscator to
\* end: the request is answered 500.
Abort ==
    /\ pc \in {"obf", "undo"} /\ "abort" \in FailAt
    /\ pc' = "idle" /\ cur' = 1 /\ snap' = NoSettings /\ errs' = {}
    /\ toset' = {} /\ todel' = {}
    /\ obf' = obf \ {cur}
    /\ \/ req # "passing" /\ req' = AfterPass(req) /\ answer' = answer
       \/ req = "passing" /\ req' = "none" /\ answer' = "errors"
    /\ UNCHANGED <<store, link, what>>

-----------------------------------------------------------------------------
(* Around the passes *)

\* The supervisor's check.
Restart ==
    /\ pc = "idle"
    /\ \E i \in WantedSpokes(settings) \ obf : obf' = obf \cup {i}
    /\ UNCHANGED <<store, link, pass, req, what, answer>>

Die ==
    /\ \E i \in obf : obf' = obf \ {i}
    /\ UNCHANGED <<store, link, pass, req, what, answer>>

Stopped ==
    /\ pc' = "down" /\ cur' = 1 /\ snap' = NoSettings
    /\ toset' = {} /\ todel' = {} /\ errs' = {}
    /\ req' = "none" /\ what' = "none" /\ answer' = "none"
    /\ UNCHANGED store

Crash == pc # "down" /\ Stopped /\ UNCHANGED <<link, obf>>

Reboot == Stopped /\ link' = [i \in Spokes |-> NoLink] /\ obf' = {}

\* obfmesh-ctl teardown --interfaces, with the service stopped.  Where no
\* obfuscator was found to stop, the command returns.
Teardown ==
    /\ pc = "down"
    /\ what' = "teardown" /\ answer' = "ok"
    /\ IF obf = {} THEN UNCHANGED <<link, obf>>
       ELSE link' = [i \in Spokes |-> NoLink] /\ obf' = {}
    /\ UNCHANGED <<store, pass, req>>

Fail == SettingsFail \/ KeysFail \/ ReadNoPeers \/ UndoFails \/ SpokeFails \/ Abort
Disturb == Patch \/ PostClient \/ RemoveClient \/ Fail \/ Die \/ Crash \/ Reboot \/ Teardown

Step == Keys \/ EnsureRow \/ CreateLink \/ Configure \/ ReadPeers \/ SetPeer \/ RemovePeer
            \/ PeersDone \/ Obfuscator \/ Undo \/ Return

Next == Disturb \/ StartService \/ RequestPass \/ PeriodicPass \/ Step \/ Restart

Spec == Init /\ [][Next]_vars

\* systemd restarts the service (within its start limit), a pass goes on, the lock
\* reaches the request that waits for it, the supervisor's period, which is not set to
\* zero, comes round.
Fairness ==
    /\ WF_vars(StartService) /\ WF_vars(Step)
    /\ SF_vars(RequestPass) /\ SF_vars(PeriodicPass)

FairSpec == Spec /\ Fairness

-----------------------------------------------------------------------------
(* Properties *)

\* Spoke i is served: its interface is right and has exactly the peers of the
\* clients that have keys for it, each at its own address.
Carried(i, s) == /\ link[i] # NoLink /\ rows[i] # NoRow /\ Wrong(i, s) = {}
                 /\ link[i].peers = ClientPeers(i)

AsWanted(i, s) == IF i \in WantedSpokes(s) THEN Carried(i, s)
                  ELSE link[i] = NoLink /\ i \notin Enabled

\* What fails for a spoke stays with that spoke: at the end of a pass every
\* spoke its report does not name is as the settings want it, and if the
\* clients' keys are not named, every client is on every spoke
\* (test_reconcile_survives_a_broken_spoke, for every way to break one).
FailureContained ==
    pc = "end" /\ snap # NoSettings /\ req # "committed" =>
        /\ \A i \in Spokes \ errs : AsWanted(i, snap)
        /\ 0 \notin errs => \A c \in clients : WantedSpokes(snap) \subseteq c.keys

\* A change of the settings or a new client that was answered without errors is
\* in force, and nothing the supervisor does later undoes it.
OkIsApplied ==
    answer = "ok" /\ what \in {"patch", "create"} =>
        \A i \in Spokes : AsWanted(i, settings)

\* SPEC.md, "Инварианты": a pass does not touch what works.  While the service
\* is up, an interface of a spoke that is wanted before and after, and not
\* unwanted by the pass under way, is not deleted or given another key, and a
\* client's peer on it that has its address keeps it.
WorkingSpokesUntouched ==
    [][\A i \in WantedSpokes(settings) :
         /\ pc # "down" /\ pc' # "down" /\ link[i] # NoLink /\ rows[i] # NoRow
         /\ i <= settings'.n /\ (snap # NoSettings => i <= snap.n)
         => /\ link'[i] # NoLink
            /\ link[i].key = rows[i].key => link'[i].key = link[i].key
            /\ link[i].peers \cap ClientPeers(i) \cap ClientPeers(i)' \subseteq link'[i].peers]_vars

\* Once nobody changes anything and nothing fails, every spoke ends as the
\* settings want it, whatever was left before.
MeshConverges ==
    <>[][~Disturb]_vars =>
        <>[](/\ \A i \in Spokes : AsWanted(i, settings)
             /\ \A c \in clients : WantedSpokes(settings) \subseteq c.keys)
=============================================================================
