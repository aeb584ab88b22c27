------------------------------- MODULE Session -------------------------------
(***************************************************************************)
(* The session of the web panel (static/app.js): the log-in screen, the    *)
(* key, the stream of events with its reconnects, and the poll, against a  *)
(* server whose admin key is rotated under it.                             *)
(*                                                                         *)
(* Abstracted: a request is checked against some key the file has had      *)
(* since no request was under way (AdminKey!KeyWasFiles).  refreshAll()    *)
(* asks for settings and clients at once, with one key, which is one       *)
(* request here; a PATCH ends a session as the poll does.  What answers    *)
(* say is module PanelForm.  Delays end at some time.  A server without a  *)
(* key is one that does not answer.  A refresh that a frame has asked for  *)
(* ends with the session (it comes 250 ms later, behind the gate).         *)
(***************************************************************************)
CONSTANTS
    Plain,          \* bound: requests at once, and
    Streams,        \* streams at once, one that waits to reconnect included
    Keys,
    NoKey,          \* null
    NoStream

ASSUME SessionAssumption ==
    Plain \cap Streams = {} /\ NoStream \notin Plain \cup Streams

Calls == Plain \cup Streams
Key == Keys \cup {NoKey}

VARIABLES
    up,             \* whether the server is reached, and has a key
    now,            \* the key in its file
    recent,         \* the keys it has had since no request was under way
    shown,          \* "none" while the page boots, "gate", "app"
    key,            \* state.apiKey
    stored,         \* what the browser keeps of it
    running,        \* state.sseRunning
    conn,           \* each stream: "off", "asked", "open", "wait" (to reconnect)
    ctrl,           \* state.sseCtrl: the stream that an abort ends
    poll,           \* state.pollTimer
    req,            \* what each request is for, and the key it carries
    astray          \* whether a stream was started behind the gate, or next to another

session == <<shown, key, stored>>
stream == <<running, conn, ctrl>>
server == <<up, now>>
vars == <<server, recent, session, stream, poll, req, astray>>

None == [kind |-> "none", key |-> NoKey]

\* refreshAll() of start(): settings and clients, then the status; and any other.
Refreshing == {"load", "loadStatus", "status"}
Panel == Refreshing \cup {"boot", "login", "stream"}
Asking == Panel \cup {"aborted"}
UnderWay(r) == {c \in Calls : r[c].kind \in Asking}

TypeOK ==
    /\ now \in Keys /\ recent \subseteq Keys
    /\ shown \in {"none", "gate", "app"} /\ {key, stored} \subseteq Key
    /\ {up, running, poll, astray} \subseteq BOOLEAN
    /\ conn \in [Streams -> {"off", "asked", "open", "wait"}] /\ ctrl \in Streams \cup {NoStream}
    /\ req \in [Calls -> [kind : Asking \cup {"started", "none"}, key : Key]]
    /\ \A s \in Streams : req[s].kind = "stream" <=> conn[s] = "asked"
    /\ recent = {} <=> UnderWay(req) = {}

Off == [s \in Streams |-> "off"]

Init ==
    /\ up = TRUE /\ now \in Keys /\ recent = {}
    /\ shown = "none" /\ key = NoKey /\ stored \in Key
    /\ running = FALSE /\ conn = Off /\ ctrl = NoStream
    /\ poll = FALSE /\ astray = FALSE
    /\ req = [c \in Calls |-> None]

-----------------------------------------------------------------------------
(* Requests and their answers *)

\* The requests are now these.
Requests(r) ==
    /\ req' = r
    /\ recent' = IF UnderWay(r) = {} THEN {} ELSE IF UnderWay(req) = {} THEN {now} ELSE recent

\* rawFetch() carries state.apiKey.
Request(kind, k) == [kind |-> kind, key |-> k]

\* Nobody takes note of its answer.
Aborted == Request("aborted", NoKey)

Sends(c, kind) == Requests([req EXCEPT ![c] = Request(kind, key)])

\* A request without a key is turned down before the server looks at its own.
Accepted(c) == req[c].key \in recent
Denied(c) == recent \ {req[c].key} # {}

\* No answer, or 503 because the server has no admin key.
Fails(c) == ~up

\* What a request leads to, whatever its answer, with the key k.
Sequel(c, k) ==
    CASE req[c].kind = "load" -> Request("loadStatus", k)
      [] req[c].kind = "loadStatus" -> Request("started", NoKey)
      [] OTHER -> None

\* forgetKey(), stopSse(), stopPolling(), showGate().  c is the request whose
\* answer ends the session, if one does.  The server goes on with what is aborted;
\* a stream that has lost its controller to another is not aborted.
EndSession(c) ==
    /\ key' = NoKey /\ stored' = NoKey /\ shown' = "gate"
    /\ running' = FALSE /\ poll' = FALSE /\ ctrl' = NoStream
    /\ conn' = [s \in Streams |-> IF s \in {c, ctrl} THEN "off" ELSE conn[s]]
    /\ Requests([d \in Calls |->
                    IF d = c THEN Sequel(c, NoKey)
                    ELSE IF d = ctrl /\ conn[d] = "asked" THEN Aborted
                    ELSE req[d]])
    /\ UNCHANGED <<server, astray>>

\* Mutant: onAuthLost() does not look whether the log-in screen is up.
GateNever == FALSE

\* What is turned down late, behind the log-in screen, does nothing.
GateUp == shown = "gate"

\* onAuthLost(), for whatever request is turned down, whichever session has sent it.
AuthLost(c) ==
    /\ Denied(c) /\ req[c].kind \in Panel \ {"login"} /\ ~GateUp
    /\ EndSession(c)

\* Behind the gate it does nothing; and refreshAll() and the poll go on whatever
\* the answer is.
Answered(c) ==
    /\ req[c].kind \in Refreshing
    /\ Accepted(c) \/ Fails(c) \/ (Denied(c) /\ shown = "gate")
    /\ Requests([req EXCEPT ![c] = Sequel(c, key)])
    /\ UNCHANGED <<server, session, stream, poll, astray>>

\* boot(): unless the key is turned down the app opens, and start() asks for all.
Opens(c) ==
    /\ req[c].kind = "boot"
    /\ shown' = "app"
    /\ Sends(c, "load")
    /\ UNCHANGED <<server, key, stored, stream, poll, astray>>

LoggedIn(c) ==
    /\ req[c].kind = "login" /\ Accepted(c)
    /\ stored' = req[c].key /\ shown' = "app"
    /\ Sends(c, "load")
    /\ UNCHANGED <<server, key, stream, poll, astray>>

NotLoggedIn(c) ==
    /\ req[c].kind = "login"
    /\ key' = NoKey
    /\ Requests([req EXCEPT ![c] = None])
    /\ UNCHANGED <<server, shown, stored, stream, poll, astray>>

\* The server is done with what was aborted.
Forgotten(c) ==
    /\ req[c].kind = "aborted"
    /\ Requests([req EXCEPT ![c] = None])
    /\ UNCHANGED <<server, session, stream, poll, astray>>

-----------------------------------------------------------------------------
(* The stream *)

\* Mutant: a stream that ends is not opened again.
OverForGood(s) ==
    /\ conn' = [conn EXCEPT ![s] = "off"]
    /\ UNCHANGED <<server, session, running, ctrl, poll, astray>>

\* scheduleReconnect(), if the stream is wanted.
Over(s) ==
    /\ conn' = [conn EXCEPT ![s] = IF running THEN "wait" ELSE "off"]
    /\ ctrl' = IF running THEN NoStream ELSE ctrl
    /\ UNCHANGED <<server, session, running, poll, astray>>

StreamFails(s) ==
    /\ req[s].kind = "stream"
    /\ Requests([req EXCEPT ![s] = None])
    /\ Over(s)

StreamOpens(s) ==
    /\ req[s].kind = "stream" /\ Accepted(s)
    /\ Requests([req EXCEPT ![s] = None])
    /\ conn' = [conn EXCEPT ![s] = "open"]
    /\ UNCHANGED <<server, session, running, ctrl, poll, astray>>

StreamEnds(s) == conn[s] = "open" /\ Over(s) /\ UNCHANGED <<req, recent>>

\* sseConnect(), when the delay is over.
Reconnect(s) ==
    /\ conn[s] = "wait"
    /\ IF running
       THEN conn' = [conn EXCEPT ![s] = "asked"] /\ ctrl' = s /\ Sends(s, "stream")
       ELSE conn' = [conn EXCEPT ![s] = "off"] /\ UNCHANGED <<req, recent, ctrl>>
    /\ UNCHANGED <<server, session, running, poll, astray>>

\* Mutant: startSse() does not ask whether the stream runs already.
RunningNever == FALSE

Running == running

\* The end of start(): startSse(), startPolling().  It comes whatever refreshAll()
\* met, the log-in screen included.
Started(c) ==
    /\ req[c].kind = "started"
    /\ IF Running
       THEN Requests([req EXCEPT ![c] = None]) /\ UNCHANGED stream
       ELSE \E s \in Streams :
              /\ conn[s] = "off" /\ req[s] = None
              /\ Requests([req EXCEPT ![c] = None, ![s] = Request("stream", key)])
              /\ running' = TRUE /\ conn' = [conn EXCEPT ![s] = "asked"] /\ ctrl' = s
    /\ poll' = TRUE
    /\ astray' = (astray \/ shown = "gate" \/ (~running /\ \E s \in Streams : conn[s] # "off"))
    /\ UNCHANGED <<server, session>>

-----------------------------------------------------------------------------
(* The user, the timers, the page *)

Free(c) == c \in Plain /\ req[c] = None

Boot(c) ==
    /\ shown = "none" /\ Free(c) /\ \A d \in Calls : req[d].kind # "boot"
    /\ key' = stored
    /\ Requests([req EXCEPT ![c] = Request("boot", stored)])
    /\ UNCHANGED <<server, shown, stored, stream, poll, astray>>

\* The button is disabled while a log-in is under way.
Login(c, k) ==
    /\ shown = "gate" /\ Free(c) /\ \A d \in Calls : req[d].kind # "login"
    /\ key' = k
    /\ Requests([req EXCEPT ![c] = Request("login", k)])
    /\ UNCHANGED <<server, shown, stored, stream, poll, astray>>

Logout == shown = "app" /\ key # NoKey /\ EndSession(NoStream)

\* The poll, which leaves out its turns while the page is hidden (app.js:993); what a
\* frame, a click or a page that is shown again asks for.
Ask(c) ==
    /\ poll \/ shown = "app"
    /\ Free(c) /\ Sends(c, "status")
    /\ UNCHANGED <<server, session, stream, poll, astray>>

\* The page is reloaded, or opened anew in a browser that has kept the key or not.
Reload ==
    /\ shown # "none"
    /\ shown' = "none" /\ key' = NoKey /\ stored' \in {stored, NoKey}
    /\ running' = FALSE /\ conn' = Off /\ ctrl' = NoStream
    /\ poll' = FALSE /\ astray' = FALSE
    /\ Requests([c \in Calls |-> IF c \in UnderWay(req) THEN Aborted
                                 ELSE None])
    /\ UNCHANGED server

\* The admin key file is edited.
Rotate(k) ==
    /\ k # now /\ now' = k
    /\ recent' = IF UnderWay(req) = {} THEN {} ELSE recent \cup {k}
    /\ UNCHANGED <<up, session, stream, poll, req, astray>>

\* The server, the way to it or its key is lost, or back.
Switch ==
    /\ up' = ~up
    /\ UNCHANGED <<now, recent, session, stream, poll, req, astray>>

-----------------------------------------------------------------------------

Arrives(c) ==
    \/ AuthLost(c) \/ Answered(c) \/ LoggedIn(c) \/ Forgotten(c)
    \/ (Accepted(c) \/ Fails(c)) /\ Opens(c)
    \/ (Denied(c) \/ Fails(c)) /\ NotLoggedIn(c)

StreamArrives(s) ==
    \/ StreamOpens(s)
    \/ (Fails(s) \/ (Denied(s) /\ shown = "gate")) /\ StreamFails(s)

Disturb ==
    \/ \E k \in Keys : Rotate(k)
    \/ \E s \in Streams : StreamEnds(s)
    \/ \E c \in Plain, k \in Keys : Login(c, k)
    \/ Logout \/ Reload \/ Switch

Goes(c) ==
    \/ Arrives(c)
    \/ c \in Plain /\ (Started(c) \/ Boot(c))
    \/ c \in Streams /\ (StreamArrives(c) \/ Reconnect(c))

Next ==
    \/ Disturb
    \/ \E c \in Calls : Goes(c)
    \/ \E c \in Plain : Ask(c)

Spec == Init /\ [][Next]_vars

\* Each stream is answered or fails, and its timer runs out; what is to follow a request
\* follows.  The page is visible, at least again and again: the poll of a hidden page asks
\* nothing.  A poll that finds as many requests under way as the model has comes again.
Fairness ==
    /\ \A s \in Streams : WF_vars(Goes(s))
    /\ WF_vars(\E c \in Plain : Started(c) \/ Boot(c))
    /\ SF_vars(\E c \in Plain : Ask(c))

FairSpec == Spec /\ Fairness

-----------------------------------------------------------------------------
(* Properties *)

Live == {s \in Streams : conn[s] \in {"asked", "open"}}

\* The panel has one stream at most, and neither a stream nor the poll goes on behind
\* the log-in screen, whatever is answered late.  Two ways lead out of this, which the
\* code has and `astray` notes: start() goes on behind the gate when its own requests
\* are turned down, and a log-in within the delay of a reconnect finds that timer
\* still running.
OneStream ==
    ~astray =>
        /\ \A s, t \in Live : s = t
        /\ shown # "app" => ~poll /\ Live = {}

\* A log-in under way keeps the key it tries, so that the panel works with the key the
\* server has accepted and the browser keeps: neither a request of an ended session that
\* is turned down in the meantime, nor the start() that follows it behind the log-in
\* screen, takes it away (onAuthLost() would leave a panel without a key, and every
\* request of it would be refused).
LogInHolds ==
    /\ \A c \in Calls : req[c].kind = "login" => shown = "gate" /\ key = req[c].key
    /\ shown = "app" => key = stored

Works == shown = "app" /\ key = now /\ poll /\ \E s \in Streams : conn[s] = "open"

\* Left alone on a page that does not stay hidden, with a key in the file and requests
\* that all are answered now and then, the panel is at the log-in screen, or it works:
\* it has the right key, the poll and a stream.
Settles ==
    /\ <>[][~Disturb]_vars
    /\ <>[]up /\ []<>(UnderWay(req) = {})
    => <>[](shown = "gate" \/ Works)
=============================================================================
