------------------------------- MODULE Bundles -------------------------------
(***************************************************************************)
(* Bundles and config_version.  A client holds the last bundle it has      *)
(* downloaded and takes a new one only when its config_version differs     *)
(* (SPEC.md, "Реактивность"), so whatever changes a bundle must change the *)
(* version in the end.  The version is raised by the transactions of the   *)
(* API (db.py) at once, but by a pass of reconcile() (orchestrator.py)     *)
(* only at its end, in a transaction of its own, from the flag             *)
(* bundle_touched; and a bundle is put together (config_gen.py) from three *)
(* reads of the store that other transactions may separate.                *)
(*                                                                         *)
(* Abstracted: the steps of a pass that do not write the store are the     *)
(* fact that they may fail; the authentication of the client is the read   *)
(* of its record.                                                          *)
(***************************************************************************)
EXTENDS Store

CONSTANTS
    MaxVersion, \* bound: requests are made up to this version
    FailAt,     \* the points of a pass at which an exception may be raised
    NoBundle, NoSettings, NoClient

ASSUME VersionAssumption == MaxVersion \in Nat

VARIABLES
    version,    \* settings.config_version
    pc,         \* where the pass is that holds the orchestrator's lock
    cur, snap,  \* the spoke it is at, and the settings it has read
    touched,    \* bundle_touched
    req,        \* the API request inside _APPLY_LOCK, or the start-up
    fpc,        \* how far build_bundle has got
    fclient, fsettings, fversion,   \* what it has read
    held,       \* the bundle the client holds
    lost        \* whether a pass that had changed bundles was cut off, and the
                \* version has not been raised since

pass == <<pc, cur, snap, touched>>
fetch == <<fpc, fclient, fsettings, fversion>>
vars == <<store, version, pass, req, fetch, held, lost>>

TypeOK ==
    /\ StoreTypeOK
    /\ version \in Nat \ {0} /\ fversion \in Nat
    /\ pc \in {"down", "idle", "keys", "spoke", "undo", "bump"}
    /\ cur \in Spokes
    /\ snap \in Settings \cup {NoSettings}
    /\ touched \in BOOLEAN
    /\ req \in {"none", "boot", "committed", "passing"}
    /\ fpc \in {"none", "client", "settings"}
    /\ fclient \in Client \cup {NoClient}
    /\ fsettings \in Settings \cup {NoSettings}
    /\ lost \in BOOLEAN
    /\ \/ held = NoBundle
       \/ /\ DOMAIN held = {"id", "version", "offer"}
          /\ held.id \in Ids /\ held.version \in 1 .. version
          /\ held.offer.base \in Bases /\ held.offer.mtu \in Mtus
          /\ DOMAIN held.offer.keys \subseteq Spokes
          /\ \A i \in DOMAIN held.offer.keys : held.offer.keys[i] \in Nat

FetchNothing == /\ fpc' = "none" /\ fversion' = 0
                /\ fclient' = NoClient /\ fsettings' = NoSettings

Init ==
    /\ StoreInit
    /\ version = 1
    /\ pc = "down" /\ cur = 1 /\ snap = NoSettings /\ touched = FALSE
    /\ req = "none"
    /\ fpc = "none" /\ fclient = NoClient /\ fsettings = NoSettings /\ fversion = 0
    /\ held = NoBundle /\ lost = FALSE

-----------------------------------------------------------------------------
(* Requests: one transaction, and the pass of its own that follows it *)

\* Every bundle is another one from now on, so what was lost is made good.
Raise == version' = version + 1 /\ lost' = FALSE

Commits ==
    /\ pc # "down" /\ req = "none" /\ version < MaxVersion
    /\ req' = "committed"
    /\ UNCHANGED <<pass, fetch, held>>

Patch ==
    /\ Commits
    /\ \E s \in Settings : UpdateSettings(s)
    /\ IF BundleFields(settings') # BundleFields(settings) THEN Raise ELSE UNCHANGED <<version, lost>>

PostClient ==
    /\ Commits
    /\ \E x \in Names, d \in Ids :
         /\ CreateClient(x, d)
         /\ held # NoBundle => held.id # d
         /\ fclient # NoClient => fclient.id # d
    /\ Raise

RemoveClient ==
    /\ Commits
    /\ \E x \in Names : DeleteClient(x)
    /\ Raise

-----------------------------------------------------------------------------
(* reconcile(), as far as it writes the store *)

BeginPass ==
    /\ pc' = "keys" /\ cur' = 1 /\ snap' = settings /\ touched' = FALSE
    /\ UNCHANGED <<store, version, fetch, held, lost>>

StartService == pc = "down" /\ req' = "boot" /\ BeginPass
RequestPass == pc = "idle" /\ req = "committed" /\ req' = "passing" /\ BeginPass
PeriodicPass == pc = "idle" /\ req' = req /\ BeginPass

Keys ==
    /\ pc = "keys"
    /\ EnsureClientKeys(snap)
    /\ touched' = (clients' # clients)
    /\ pc' = "spoke"
    /\ UNCHANGED <<version, cur, snap, req, fetch, held, lost>>

\* A transaction that had nothing to write is not told apart from one that failed.
KeysFail ==
    /\ pc = "keys" /\ "keys" \in FailAt
    /\ WithKeys(snap) # clients
    /\ pc' = "spoke"
    /\ UNCHANGED <<store, version, cur, snap, touched, req, fetch, held, lost>>

\* Mutant: one spoke too many.
NextSpokeTooFar ==
    /\ pc' = IF cur > SpokeMax THEN "bump" ELSE IF cur + 1 <= snap.n THEN "spoke" ELSE "undo"
    /\ cur' = IF cur > SpokeMax THEN 1 ELSE cur + 1

\* After spoke i comes the next wanted one, then the unwanted ones, then the bump.
NextSpoke ==
    /\ pc' = IF cur = SpokeMax THEN "bump" ELSE IF cur + 1 <= snap.n THEN "spoke" ELSE "undo"
    /\ cur' = IF cur = SpokeMax THEN 1 ELSE cur + 1

\* Mutant: what the pass changes does not touch the bundles.
SpokeUntouched ==
    /\ pc = "spoke"
    /\ EnsureSpoke(cur, snap.base)
    /\ NextSpoke
    /\ UNCHANGED <<version, snap, touched, req, fetch, held, lost>>

\* ensure_spoke() and what follows it for the spoke, failed or not.
Spoke ==
    /\ pc = "spoke"
    /\ EnsureSpoke(cur, snap.base)
    /\ touched' = (touched \/ rows' # rows)
    /\ NextSpoke
    /\ UNCHANGED <<version, snap, req, fetch, held, lost>>

Undo ==
    /\ pc = "undo"
    /\ DisableSpoke(cur)
    /\ touched' = (touched \/ rows' # rows)
    /\ NextSpoke
    /\ UNCHANGED <<version, snap, req, fetch, held, lost>>

\* ensure_spoke() itself fails, or the interface of an unwanted spoke stays.
SpokeFails ==
    /\ pc \in {"spoke", "undo"} /\ pc \in FailAt
    /\ IF pc = "spoke" THEN rows[cur] # RowEnsured(cur, snap.base) ELSE cur \in Enabled
    /\ NextSpoke
    /\ UNCHANGED <<store, version, snap, touched, req, fetch, held, lost>>

\* The pass is over: its caller gets the report.
Return ==
    /\ pc' = "idle" /\ cur' = 1 /\ snap' = NoSettings /\ touched' = FALSE
    /\ req' = IF req \in {"boot", "passing"} THEN "none" ELSE req

Bump ==
    /\ pc = "bump"
    /\ IF touched THEN Raise ELSE UNCHANGED <<version, lost>>
    /\ Return
    /\ UNCHANGED <<store, fetch, held>>

BumpFails ==
    /\ pc = "bump" /\ "bump" \in FailAt
    /\ touched /\ lost' = TRUE
    /\ Return
    /\ UNCHANGED <<store, version, fetch, held>>

\* An exception RECOVERABLE does not name (TimeoutExpired of popen.wait).
Abort ==
    /\ pc \in {"spoke", "undo"} /\ "abort" \in FailAt
    /\ lost' = (lost \/ touched)
    /\ Return
    /\ UNCHANGED <<store, version, fetch, held>>

Crash ==
    /\ pc # "down"
    /\ lost' = (lost \/ touched)
    /\ pc' = "down" /\ cur' = 1 /\ snap' = NoSettings /\ touched' = FALSE
    /\ req' = "none"
    /\ FetchNothing
    /\ UNCHANGED <<store, version, held>>

-----------------------------------------------------------------------------
(* build_bundle(): the client, then the settings, then the spokes *)

Served == pc # "down" /\ req # "boot"

ReadClient ==
    /\ Served /\ fpc = "none"
    /\ fclient' \in clients
    /\ fpc' = "client"
    /\ UNCHANGED <<store, version, pass, req, fsettings, fversion, held, lost>>

ReadSettings ==
    /\ fpc = "client"
    /\ fpc' = "settings" /\ fsettings' = settings /\ fversion' = version
    /\ UNCHANGED <<store, version, pass, req, fclient, held, lost>>

\* The spokes a bundle is made of: enabled, and within the number of spokes.
Offered(s) == Enabled \cap WantedSpokes(s)

\* A client without keys for one of them gets no bundle at all.
Refused(c, s) == Offered(s) = {} \/ ~(Offered(s) \subseteq c.keys)

OfferTo(s) == [base |-> s.base, mtu |-> s.mtu, keys |-> [i \in Offered(s) |-> rows[i].key]]

\* Mutant: the version in the bundle is the one after the spokes are read.
ReadSpokesLateVersion ==
    /\ fpc = "settings"
    /\ held' = IF Refused(fclient, fsettings) THEN held
               ELSE [id |-> fclient.id, version |-> version, offer |-> OfferTo(fsettings)]
    /\ FetchNothing
    /\ UNCHANGED <<store, version, pass, req, lost>>

\* The client takes the bundle if its version is not the one it holds.
ReadSpokes ==
    /\ fpc = "settings"
    /\ held' = IF \/ Refused(fclient, fsettings)
                  \/ /\ held # NoBundle
                     /\ held.id = fclient.id /\ held.version = fversion
               THEN held
               ELSE [id |-> fclient.id, version |-> fversion, offer |-> OfferTo(fsettings)]
    /\ FetchNothing
    /\ UNCHANGED <<store, version, pass, req, lost>>

-----------------------------------------------------------------------------

Fail == KeysFail \/ SpokeFails \/ BumpFails \/ Abort
Disturb == Patch \/ PostClient \/ RemoveClient \/ Fail \/ Crash

Step == Keys \/ Spoke \/ Undo \/ Bump
Fetch == ReadClient \/ ReadSettings \/ ReadSpokes

Next == Disturb \/ StartService \/ RequestPass \/ PeriodicPass \/ Step \/ Fetch

Spec == Init /\ [][Next]_vars

\* systemd restarts the service (within its start limit), a pass goes on, the lock
\* reaches the request that waits for it, the supervisor's period, which is not set to
\* zero, comes round, the client polls.
Fairness ==
    /\ WF_vars(StartService) /\ WF_vars(Step)
    /\ SF_vars(RequestPass) /\ SF_vars(PeriodicPass)
    /\ SF_vars(ReadClient) /\ WF_vars(ReadSettings) /\ WF_vars(ReadSpokes)

FairSpec == Spec /\ Fairness

-----------------------------------------------------------------------------
(* Properties *)

Quiet == pc = "idle" /\ req = "none" /\ fpc = "none"

Holder == {c \in clients : held # NoBundle /\ c.id = held.id}

\* Nothing under way, and the client's bundle has the version of the store: it
\* is the bundle the store would give now.  Otherwise the client would go on
\* with the old one, because it takes a bundle only for another version.
UpToDate ==
    Quiet => \A c \in Holder :
        held.version = version /\ ~Refused(c, settings) => held.offer = OfferTo(settings)

\* So it is, whatever fails, dies or comes in between, unless a pass has been cut
\* off between a change of the bundles and its bump; the next bump makes even
\* that good.
SameVersionSameBundle == ~lost => UpToDate

\* A bundle handed out earlier keeps working on every spoke that is enabled,
\* across any number of changes of the number of spokes: a spoke that is
\* switched off and on again keeps its keys.
OldBundleWorks ==
    \A c \in Holder : \A i \in DOMAIN held.offer.keys \cap Enabled :
        held.offer.keys[i] = rows[i].key

\* Once nobody changes anything and nothing fails, and no bump has been lost, the
\* client ends with the bundle of the store, as long as a client exists.
CatchesUp ==
    <>[][~Disturb]_vars /\ <>[]~lost =>
        <>[](clients # {} => \E c \in Holder : held.offer = OfferTo(settings)
                                               /\ DOMAIN held.offer.keys = WantedSpokes(settings))
=============================================================================
