--------------------------- MODULE Session_proofs ---------------------------
(* Proofs about the session of the panel, for any number of requests, streams and keys. *)
EXTENDS Session, TLAPS

Kinds == Asking \cup {"started", "none"}

LEMMA RequestsTyped ==
  ASSUME TypeOK, NEW r \in [Calls -> [kind : Kinds, key : Key]], Requests(r)
  PROVE  /\ req' \in [Calls -> [kind : Kinds, key : Key]]
         /\ recent' \subseteq Keys
         /\ recent' = {} <=> UnderWay(req') = {}
BY DEF Requests, TypeOK, UnderWay

LEMMA InitTypes == Init => TypeOK
<1> SUFFICES ASSUME Init PROVE TypeOK
  OBVIOUS
<1>1. NoKey \in Key /\ Streams \subseteq Calls
  BY DEF Key, Calls
<1>2. None \in [kind : Kinds, key : Key] /\ None.kind \notin Asking /\ None.kind # "stream"
  BY <1>1 DEF None, Kinds, Asking, Panel, Refreshing
<1>3. req \in [Calls -> [kind : Kinds, key : Key]]
  BY <1>2 DEF Init
<1>4. UnderWay(req) = {}
  BY <1>2 DEF Init, UnderWay
<1>5. \A s \in Streams : req[s].kind = "stream" <=> conn[s] = "asked"
  BY <1>1, <1>2 DEF Init, Off
<1>6. key \in Key /\ stored \in Key /\ conn \in [Streams -> {"off", "asked", "open", "wait"}]
  BY <1>1 DEF Init, Off
<1> QED
  BY <1>3, <1>4, <1>5, <1>6 DEF Init, TypeOK, Kinds

LEMMA NextTypes == TypeOK /\ [Next]_vars => TypeOK'
<1> SUFFICES ASSUME TypeOK, [Next]_vars PROVE TypeOK'
  OBVIOUS
<1> DEFINE Reqs == [Calls -> [kind : Kinds, key : Key]]
<1>0. /\ NoKey \in Key /\ None \in [kind : Kinds, key : Key] /\ Keys \subseteq Key
      /\ Streams \subseteq Calls /\ Plain \subseteq Calls /\ req \in Reqs
      /\ \A c \in Plain : c \notin Streams
      /\ NoStream \notin Calls
  BY SessionAssumption DEF None, Key, Kinds, Calls, TypeOK
<1>s. \A c \in Calls, k \in Key :
          /\ Sequel(c, k) \in [kind : Kinds, key : Key]
          /\ Sequel(c, k).kind # "stream"
  BY <1>0 DEF Sequel, Request, None, Kinds, Asking, Panel, Refreshing
<1>r. \A kind \in Kinds, k \in Key : Request(kind, k) \in [kind : Kinds, key : Key] /\ Request(kind, k).kind = kind
  BY DEF Request
<1>1. ASSUME NEW c \in Calls \cup {NoStream}, EndSession(c) PROVE TypeOK'
  <2> DEFINE r == [d \in Calls |->
                    IF d = c THEN Sequel(c, NoKey)
                    ELSE IF d = ctrl /\ conn[d] = "asked" THEN Aborted
                    ELSE req[d]]
  <2>1. r \in Reqs
    BY <1>0, <1>s DEF Kinds, Asking, Aborted, Request
  <2>2. Requests(r)
    BY <1>1 DEF EndSession
  <2>3. \A s \in Streams : r[s].kind = "stream" <=> (conn[s] = "asked" /\ s \notin {c, ctrl})
    BY <1>0, <1>s DEF TypeOK, Aborted, Request
  <2>4. req' = r
    BY <2>2 DEF Requests
  <2>5. \A s \in Streams : req'[s].kind = "stream" <=> conn'[s] = "asked"
    BY <1>1, <2>3, <2>4, <1>0 DEF EndSession
  <2>6. req' \in Reqs /\ recent' \subseteq Keys /\ (recent' = {} <=> UnderWay(req') = {})
    BY <2>1, <2>2, RequestsTyped
  <2> QED
    BY <1>0, <1>1, <2>5, <2>6 DEF EndSession, TypeOK, server, Kinds
<1>2. ASSUME NEW c \in Calls, NEW q \in [kind : Kinds, key : Key],
             q.kind # "stream", req[c].kind # "stream",
             Requests([req EXCEPT ![c] = q]), conn' = conn
      PROVE  /\ req' \in Reqs /\ recent' \subseteq Keys /\ (recent' = {} <=> UnderWay(req') = {})
             /\ \A s \in Streams : req'[s].kind = "stream" <=> conn'[s] = "asked"
  <2>1. [req EXCEPT ![c] = q] \in Reqs
    BY <1>0
  <2>2. req' \in Reqs /\ recent' \subseteq Keys /\ (recent' = {} <=> UnderWay(req') = {})
    BY <1>2, <2>1, RequestsTyped
  <2>3. req' = [req EXCEPT ![c] = q]
    BY <1>2 DEF Requests
  <2> QED
    BY <1>2, <2>2, <2>3, <1>0 DEF TypeOK
<1>3. ASSUME NEW c \in Calls, Arrives(c) PROVE TypeOK'
  <2>1. CASE AuthLost(c)
    BY <2>1, <1>1 DEF AuthLost
  <2>2. CASE Answered(c)
    BY <2>2, <1>2, <1>0, <1>s DEF Answered, TypeOK, server, session, stream, Refreshing, Kinds
  <2>3. CASE Opens(c)
    <3>1. Request("load", key) \in [kind : Kinds, key : Key] /\ Request("load", key).kind # "stream"
      BY <1>r DEF TypeOK, Kinds, Asking, Panel, Refreshing
    <3> QED
      BY <2>3, <3>1, <1>2 DEF Opens, Sends, TypeOK, server, stream, Kinds
  <2>4. CASE LoggedIn(c)
    <3>1. Request("load", key) \in [kind : Kinds, key : Key] /\ Request("load", key).kind # "stream"
      BY <1>r DEF TypeOK, Kinds, Asking, Panel, Refreshing
    <3>2. req[c].key \in Key
      BY <1>0
    <3> QED
      BY <2>4, <3>1, <3>2, <1>2 DEF LoggedIn, Sends, TypeOK, server, stream, Kinds
  <2>5. CASE NotLoggedIn(c)
    BY <2>5, <1>2, <1>0 DEF NotLoggedIn, TypeOK, None, server, stream, Kinds
  <2>6. CASE Forgotten(c)
    BY <2>6, <1>2, <1>0 DEF Forgotten, TypeOK, None, server, session, stream, Kinds
  <2> QED
    BY <1>3, <2>1, <2>2, <2>3, <2>4, <2>5, <2>6 DEF Arrives
<1>4. ASSUME NEW s \in Streams, StreamFails(s) PROVE TypeOK'
  <2>1. [req EXCEPT ![s] = None] \in Reqs /\ Requests([req EXCEPT ![s] = None])
    BY <1>4, <1>0 DEF StreamFails
  <2>2. req' \in Reqs /\ recent' \subseteq Keys /\ (recent' = {} <=> UnderWay(req') = {})
    BY <2>1, RequestsTyped
  <2>3. req' = [req EXCEPT ![s] = None]
    BY <2>1 DEF Requests
  <2> QED
    BY <1>4, <2>2, <2>3, <1>0 DEF StreamFails, Over, TypeOK, None, server, session, Kinds
<1>5. ASSUME NEW s \in Streams, StreamOpens(s) PROVE TypeOK'
  <2>1. [req EXCEPT ![s] = None] \in Reqs /\ Requests([req EXCEPT ![s] = None])
    BY <1>5, <1>0 DEF StreamOpens
  <2>2. req' \in Reqs /\ recent' \subseteq Keys /\ (recent' = {} <=> UnderWay(req') = {})
    BY <2>1, RequestsTyped
  <2>3. req' = [req EXCEPT ![s] = None]
    BY <2>1 DEF Requests
  <2> QED
    BY <1>5, <2>2, <2>3, <1>0 DEF StreamOpens, TypeOK, None, server, session, Kinds
<1>6. ASSUME NEW s \in Streams, StreamEnds(s) PROVE TypeOK'
  BY <1>6, <1>0 DEF StreamEnds, Over, TypeOK, server, session
<1>7. ASSUME NEW s \in Streams, Reconnect(s) PROVE TypeOK'
  <2>1. CASE running
    <3>1. Request("stream", key) \in [kind : Kinds, key : Key] /\ Request("stream", key).kind = "stream"
      BY <1>r DEF TypeOK, Kinds, Asking, Panel
    <3>2. [req EXCEPT ![s] = Request("stream", key)] \in Reqs
      BY <3>1, <1>0
    <3>3. Requests([req EXCEPT ![s] = Request("stream", key)])
      BY <1>7, <2>1 DEF Reconnect, Sends
    <3>4. req' \in Reqs /\ recent' \subseteq Keys /\ (recent' = {} <=> UnderWay(req') = {})
      BY <3>2, <3>3, RequestsTyped
    <3>5. req' = [req EXCEPT ![s] = Request("stream", key)]
      BY <3>3 DEF Requests
    <3>6. conn' = [conn EXCEPT ![s] = "asked"] /\ ctrl' = s
      BY <1>7, <2>1 DEF Reconnect
    <3>7. \A t \in Streams : req'[t].kind = "stream" <=> conn'[t] = "asked"
      BY <3>1, <3>5, <3>6, <1>0 DEF TypeOK
    <3> QED
      BY <1>7, <3>4, <3>6, <3>7 DEF Reconnect, TypeOK, server, session, Kinds
  <2>2. CASE ~running
    BY <1>7, <2>2, <1>0 DEF Reconnect, TypeOK, server, session
  <2> QED
    BY <2>1, <2>2
<1>8. ASSUME NEW c \in Plain, Started(c) PROVE TypeOK'
  <2>0. req[c].kind # "stream" /\ None.kind # "stream" /\ c \in Calls
    BY <1>8, <1>0 DEF Started, None
  <2>1. CASE running
    <3>1. Requests([req EXCEPT ![c] = None]) /\ conn' = conn
      BY <1>8, <2>1 DEF Started, Running, stream
    <3>2. /\ req' \in Reqs /\ recent' \subseteq Keys /\ (recent' = {} <=> UnderWay(req') = {})
          /\ \A s \in Streams : req'[s].kind = "stream" <=> conn'[s] = "asked"
      BY <2>0, <3>1, <1>0, <1>2
    <3> QED
      BY <1>8, <2>1, <3>2 DEF Started, Running, TypeOK, server, session, stream, Kinds
  <2>2. CASE ~running
    <3>1. PICK s \in Streams :
              /\ Requests([req EXCEPT ![c] = None, ![s] = Request("stream", key)])
              /\ running' = TRUE /\ conn' = [conn EXCEPT ![s] = "asked"] /\ ctrl' = s
      BY <1>8, <2>2 DEF Started, Running
    <3>2. Request("stream", key) \in [kind : Kinds, key : Key] /\ Request("stream", key).kind = "stream"
      BY <1>r DEF TypeOK, Kinds, Asking, Panel
    <3>3. [req EXCEPT ![c] = None, ![s] = Request("stream", key)] \in Reqs
      BY <3>2, <1>0
    <3>4. req' \in Reqs /\ recent' \subseteq Keys /\ (recent' = {} <=> UnderWay(req') = {})
      BY <3>1, <3>3, RequestsTyped
    <3>5. req' = [req EXCEPT ![c] = None, ![s] = Request("stream", key)]
      BY <3>1 DEF Requests
    <3>6. \A t \in Streams : req'[t].kind = "stream" <=> conn'[t] = "asked"
      BY <3>1, <3>2, <3>5, <2>0, <1>0 DEF TypeOK
    <3> QED
      BY <1>8, <3>1, <3>4, <3>6 DEF Started, TypeOK, server, session, Kinds
  <2> QED
    BY <2>1, <2>2
<1>9. ASSUME NEW c \in Plain, NEW k \in Key, NEW kind \in {"boot", "login", "status"},
             Free(c), Requests([req EXCEPT ![c] = Request(kind, k)]), conn' = conn
      PROVE  /\ req' \in Reqs /\ recent' \subseteq Keys /\ (recent' = {} <=> UnderWay(req') = {})
             /\ \A s \in Streams : req'[s].kind = "stream" <=> conn'[s] = "asked"
  <2>1. Request(kind, k) \in [kind : Kinds, key : Key] /\ Request(kind, k).kind # "stream"
    BY <1>r DEF Kinds, Asking, Panel, Refreshing
  <2>2. c \in Calls /\ req[c].kind # "stream"
    BY <1>9, <1>0 DEF Free, None
  <2> QED
    BY <1>2, <1>9, <2>1, <2>2
<1>10. ASSUME NEW c \in Plain, Boot(c) PROVE TypeOK'
  <2>1. stored \in Key
    BY DEF TypeOK
  <2> QED
    BY <1>9, <1>10, <2>1 DEF Boot, TypeOK, server, stream, Kinds
<1>11. ASSUME NEW c \in Plain, NEW k \in Keys, Login(c, k) PROVE TypeOK'
  BY <1>0, <1>9, <1>11 DEF Login, TypeOK, server, stream, Kinds
<1>12. ASSUME NEW c \in Plain, Ask(c) PROVE TypeOK'
  <2>1. key \in Key
    BY DEF TypeOK
  <2> QED
    BY <1>9, <1>12, <2>1 DEF Ask, Sends, TypeOK, server, session, stream, Kinds
<1>13. ASSUME Reload PROVE TypeOK'
  <2> DEFINE r == [c \in Calls |-> IF c \in UnderWay(req) THEN Aborted ELSE None]
  <2>1. r \in Reqs
    BY <1>0 DEF Kinds, Asking, Aborted, Request
  <2>2. Requests(r)
    BY <1>13 DEF Reload
  <2>3. req' = r
    BY <2>2 DEF Requests
  <2>4. req' \in Reqs /\ recent' \subseteq Keys /\ (recent' = {} <=> UnderWay(req') = {})
    BY <2>1, <2>2, RequestsTyped
  <2>5. \A s \in Streams : r[s].kind # "stream"
    BY <1>0 DEF None, Aborted, Request
  <2> QED
    BY <1>13, <2>3, <2>4, <2>5, <1>0 DEF Reload, TypeOK, Off, server, Kinds
<1>14. ASSUME NEW k \in Keys, Rotate(k) PROVE TypeOK'
  BY <1>14 DEF Rotate, TypeOK, session, stream
<1>15. ASSUME Switch PROVE TypeOK'
  BY <1>15 DEF Switch, TypeOK, session, stream
<1>16. CASE UNCHANGED vars
  BY <1>16 DEF vars, server, session, stream, TypeOK, UnderWay
<1>17. ASSUME Logout PROVE TypeOK'
  BY <1>1, <1>17 DEF Logout
<1>18. ASSUME Disturb PROVE TypeOK'
  BY <1>6, <1>11, <1>13, <1>14, <1>15, <1>17, <1>18 DEF Disturb
<1>19. ASSUME NEW c \in Calls, Goes(c) PROVE TypeOK'
  BY <1>3, <1>4, <1>5, <1>7, <1>8, <1>10, <1>19 DEF Goes, StreamArrives
<1> QED
  BY <1>12, <1>16, <1>18, <1>19 DEF Next

\* Every reachable state of the panel is well typed; a stream has a request under way
\* exactly while it is asked for.
THEOREM TypeCorrect == Spec => []TypeOK
BY InitTypes, NextTypes, PTL DEF Spec

-----------------------------------------------------------------------------
(* One stream *)

\* Nothing of a session is left while the page boots.
Booting ==
    shown = "none" =>
        /\ \A c \in Calls : req[c].kind \in {"none", "boot", "aborted"}
        /\ \A s \in Streams : conn[s] = "off"
        /\ ~poll /\ ~running

\* OneStream says nothing of timers and of the controller: a stream that waits for its
\* reconnect would become a second one, and what has lost its controller would not be
\* ended with the session.
Sole ==
    ~astray =>
        /\ poll \/ running => shown = "app"
        /\ \A s \in Live : running /\ s = ctrl
        /\ running => \A s, t \in Streams : conn[s] # "off" /\ conn[t] # "off" => s = t

SessionInv == TypeOK /\ Booting /\ Sole

LEMMA InitSession == Init => Booting /\ Sole
BY DEF Init, Booting, Sole, Live, Off, None, Calls

LEMMA NextBooting == TypeOK /\ Booting /\ [Next]_vars => Booting'
<1> SUFFICES ASSUME TypeOK, Booting, [Next]_vars PROVE Booting'
  OBVIOUS
<1>0. Streams \subseteq Calls /\ Plain \subseteq Calls /\ req \in [Calls -> [kind : Kinds, key : Key]]
  BY DEF Calls, TypeOK, Kinds
<1>1. ASSUME NEW c, EndSession(c) PROVE Booting'
  BY <1>1 DEF EndSession, Booting
<1>2. ASSUME NEW c \in Calls, Arrives(c) PROVE Booting'
  <2>1. CASE AuthLost(c)
    BY <2>1, <1>1 DEF AuthLost
  <2>2. CASE Answered(c)
    BY <2>2 DEF Answered, Booting, session, stream, Refreshing
  <2>3. CASE Opens(c) \/ LoggedIn(c)
    BY <2>3 DEF Opens, LoggedIn, Booting
  <2>4. CASE NotLoggedIn(c)
    BY <2>4 DEF NotLoggedIn, Booting
  <2>5. CASE Forgotten(c)
    <3>1. req' = [req EXCEPT ![c] = None]
      BY <2>5 DEF Forgotten, Requests
    <3> QED
      BY <2>5, <3>1, <1>0 DEF Forgotten, Booting, session, stream, None
  <2> QED
    BY <1>2, <2>1, <2>2, <2>3, <2>4, <2>5 DEF Arrives
<1>3. ASSUME NEW s \in Streams, StreamFails(s) \/ StreamOpens(s) \/ StreamEnds(s) \/ Reconnect(s)
      PROVE  Booting'
  <2>1. req[s].kind = "stream" \/ conn[s] # "off"
    BY <1>3 DEF StreamFails, StreamOpens, StreamEnds, Reconnect
  <2>2. shown # "none"
    BY <1>0, <2>1 DEF Booting
  <2>3. shown' = shown
    BY <1>3 DEF StreamFails, StreamOpens, StreamEnds, Reconnect, Over, session
  <2> QED
    BY <2>2, <2>3 DEF Booting
<1>4. ASSUME NEW c \in Plain, Started(c) PROVE Booting'
  BY <1>0, <1>4 DEF Started, Booting, session
<1>5. ASSUME NEW c \in Plain, Boot(c) PROVE Booting'
  <2>1. req' = [req EXCEPT ![c] = Request("boot", stored)]
    BY <1>5 DEF Boot, Requests
  <2> QED
    BY <1>5, <2>1, <1>0 DEF Boot, Booting, stream, Request
<1>6. ASSUME NEW c \in Plain, Ask(c) PROVE Booting'
  BY <1>6 DEF Ask, Booting, session
<1>7. ASSUME NEW c \in Plain, NEW k \in Keys, Login(c, k) PROVE Booting'
  BY <1>7 DEF Login, Booting
<1>8. CASE Reload
  <2> DEFINE r == [c \in Calls |-> IF c \in UnderWay(req) THEN Aborted ELSE None]
  <2>1. req' = r
    BY <1>8 DEF Reload, Requests
  <2>2. \A c \in Calls : r[c].kind \in {"none", "aborted"}
    BY <1>0 DEF None, Aborted, Request
  <2> QED
    BY <1>8, <2>1, <2>2 DEF Reload, Booting, Off
<1>9. ASSUME NEW k \in Keys, Rotate(k) PROVE Booting'
  BY <1>9 DEF Rotate, Booting, session, stream
<1>10. CASE Switch
  BY <1>10 DEF Switch, Booting, session, stream
<1>11. CASE Logout
  BY <1>1, <1>11 DEF Logout
<1>12. CASE UNCHANGED vars
  BY <1>12 DEF vars, session, stream, Booting
<1> QED
  BY <1>2, <1>3, <1>4, <1>5, <1>6, <1>7, <1>8, <1>9, <1>10, <1>11, <1>12
     DEF Next, Disturb, Goes, StreamArrives

LEMMA NextSole == TypeOK /\ Booting /\ Sole /\ [Next]_vars => Sole'
<1> SUFFICES ASSUME TypeOK, Booting, Sole, [Next]_vars PROVE Sole'
  OBVIOUS
<1>0. /\ Streams \subseteq Calls /\ Plain \subseteq Calls
      /\ conn \in [Streams -> {"off", "asked", "open", "wait"}]
      /\ NoStream \notin Streams
      /\ running \in BOOLEAN /\ shown \in {"none", "gate", "app"}
  BY SessionAssumption DEF Calls, TypeOK
<1>1. ASSUME NEW c \in Calls \cup {NoStream}, EndSession(c) PROVE Sole'
  <2>1. conn' = [s \in Streams |-> IF s \in {c, ctrl} THEN "off" ELSE conn[s]] /\ astray' = astray
    BY <1>1 DEF EndSession
  <2>2. ~astray => Live' = {}
    BY <2>1, <1>0 DEF Sole, Live
  <2> QED
    BY <1>1, <2>1, <2>2 DEF EndSession, Sole
<1>2. ASSUME UNCHANGED <<stream, poll, astray>>, shown' = shown \/ shown' = "app" PROVE Sole'
  BY <1>2 DEF Sole, Live, stream
<1>3. ASSUME NEW c \in Calls, Arrives(c) PROVE Sole'
  <2>1. CASE AuthLost(c)
    BY <2>1, <1>1 DEF AuthLost
  <2>2. CASE Answered(c) \/ Opens(c) \/ LoggedIn(c) \/ NotLoggedIn(c) \/ Forgotten(c)
    BY <2>2, <1>2 DEF Answered, Opens, LoggedIn, NotLoggedIn, Forgotten, session
  <2> QED
    BY <1>3, <2>1, <2>2 DEF Arrives
<1>4. ASSUME NEW s \in Streams, conn[s] \in {"asked", "open"}, Over(s) PROVE Sole'
  <2>1. /\ conn' = [conn EXCEPT ![s] = IF running THEN "wait" ELSE "off"]
        /\ ctrl' = (IF running THEN NoStream ELSE ctrl)
        /\ running' = running /\ poll' = poll /\ astray' = astray /\ shown' = shown
    BY <1>4 DEF Over, session
  <2>2. s \in Live
    BY <1>4 DEF Live
  <2>3. ~astray => Live' = {}
    BY <2>1, <2>2, <1>0 DEF Sole, Live
  <2>4. running => \A t \in Streams : conn'[t] # "off" => conn[t] # "off"
    BY <2>1, <1>4, <1>0
  <2> QED
    BY <2>1, <2>3, <2>4 DEF Sole
<1>5. ASSUME NEW s \in Streams, StreamFails(s) \/ StreamEnds(s) PROVE Sole'
  <2>1. conn[s] \in {"asked", "open"} /\ Over(s)
    BY <1>5 DEF StreamFails, StreamEnds, TypeOK
  <2> QED
    BY <2>1, <1>4
<1>6. ASSUME NEW s \in Streams, StreamOpens(s) PROVE Sole'
  <2>1. conn[s] = "asked" /\ conn' = [conn EXCEPT ![s] = "open"]
    BY <1>6 DEF StreamOpens, TypeOK
  <2>2. Live' = Live
    BY <2>1, <1>0 DEF Live
  <2> QED
    BY <1>6, <2>1, <2>2, <1>0 DEF StreamOpens, Sole, session
<1>7. ASSUME NEW s \in Streams, Reconnect(s) PROVE Sole'
  <2>1. conn[s] = "wait" /\ running' = running /\ poll' = poll /\ astray' = astray /\ shown' = shown
    BY <1>7 DEF Reconnect, session
  <2>2. CASE running
    <3>1. conn' = [conn EXCEPT ![s] = "asked"] /\ ctrl' = s
      BY <1>7, <2>2 DEF Reconnect
    <3>2. ~astray => \A t \in Streams : t # s => conn[t] = "off"
      BY <2>1, <2>2, <1>0 DEF Sole
    <3>3. ~astray => Live' \subseteq {s}
      BY <3>1, <3>2, <1>0 DEF Live
    <3> QED
      BY <2>1, <2>2, <3>1, <3>2, <3>3, <1>0 DEF Sole
  <2>3. CASE ~running
    <3>1. conn' = [conn EXCEPT ![s] = "off"] /\ ctrl' = ctrl
      BY <1>7, <2>3 DEF Reconnect
    <3>2. Live' = Live
      BY <2>1, <3>1, <1>0 DEF Live
    <3> QED
      BY <2>1, <2>3, <3>1, <3>2 DEF Sole
  <2> QED
    BY <2>2, <2>3, <1>0
<1>8. ASSUME NEW c \in Plain, Started(c) PROVE Sole'
  <2>1. /\ poll' = TRUE /\ shown' = shown
        /\ astray' = (astray \/ shown = "gate" \/ (~running /\ \E s \in Streams : conn[s] # "off"))
    BY <1>8 DEF Started, session
  <2>2. shown # "none"
    BY <1>8, <1>0 DEF Started, Booting
  <2>3. SUFFICES ASSUME ~astray' PROVE Sole'
    BY DEF Sole
  <2>4. ~astray /\ shown' = "app" /\ (~running => \A s \in Streams : conn[s] = "off")
    BY <2>1, <2>2, <2>3, <1>0
  <2>5. CASE running
    <3>1. UNCHANGED stream
      BY <1>8, <2>5 DEF Started, Running
    <3> QED
      BY <2>4, <3>1 DEF Sole, Live, stream
  <2>6. CASE ~running
    <3>1. PICK s \in Streams : running' = TRUE /\ conn' = [conn EXCEPT ![s] = "asked"] /\ ctrl' = s
      BY <1>8, <2>6 DEF Started, Running
    <3>2. \A t \in Streams : t # s => conn'[t] = "off"
      BY <2>4, <2>6, <3>1, <1>0
    <3> QED
      BY <2>4, <3>1, <3>2 DEF Sole, Live
  <2> QED
    BY <2>5, <2>6, <1>0
<1>9. ASSUME NEW c \in Plain, Boot(c) \/ Ask(c) \/ \E k \in Keys : Login(c, k) PROVE Sole'
  BY <1>9, <1>2 DEF Boot, Ask, Login, session
<1>10. CASE Reload
  BY <1>10 DEF Reload, Sole, Live, Off
<1>11. ASSUME NEW k \in Keys, Rotate(k) PROVE Sole'
  BY <1>11, <1>2 DEF Rotate, session
<1>12. CASE Switch
  BY <1>12, <1>2 DEF Switch, session
<1>13. CASE Logout
  BY <1>1, <1>13 DEF Logout
<1>14. CASE UNCHANGED vars
  BY <1>14, <1>2 DEF vars, session
<1> QED
  BY <1>3, <1>5, <1>6, <1>7, <1>8, <1>9, <1>10, <1>11, <1>12, <1>13, <1>14
     DEF Next, Disturb, Goes, StreamArrives

LEMMA SessionInvariant == Spec => []SessionInv
<1>1. Init => SessionInv
  BY InitTypes, InitSession DEF SessionInv
<1>2. SessionInv /\ [Next]_vars => SessionInv'
  BY NextTypes, NextBooting, NextSole DEF SessionInv
<1> QED
  BY <1>1, <1>2, PTL DEF Spec

\* Unless a stream was started behind the log-in screen or next to another, the panel
\* has one stream at most, and neither stream nor poll without the app, for any number
\* of requests and streams at once.
THEOREM SessionHasOneStream == Spec => []OneStream
<1>1. SessionInv => OneStream
  BY DEF SessionInv, Sole, OneStream
<1> QED
  BY <1>1, SessionInvariant, PTL

-----------------------------------------------------------------------------
(* The key *)

\* LogInHolds speaks of requests whose answers decide over the key: there is one at
\* most, a log-in behind the log-in screen, or the first request of a page that boots.
Deciding ==
    /\ \A c \in Calls : req[c].kind = "boot" => shown = "none" /\ key = stored
    /\ \A c, d \in Calls : req[c].kind \in {"boot", "login"} /\ req[d].kind = req[c].kind => c = d

KeyInv == TypeOK /\ Booting /\ LogInHolds /\ Deciding

\* Requests of other kinds, and a screen and a key that stay, decide over nothing.
LEMMA DecidesNothing ==
  ASSUME LogInHolds, Deciding,
         shown' = shown, key' = key, stored' = stored,
         \A c \in Calls : req'[c] = req[c] \/ req'[c].kind \notin {"boot", "login"}
  PROVE  LogInHolds' /\ Deciding'
BY DEF LogInHolds, Deciding

LEMMA NextKey == KeyInv /\ [Next]_vars => LogInHolds' /\ Deciding'
<1> SUFFICES ASSUME KeyInv, [Next]_vars PROVE LogInHolds' /\ Deciding'
  OBVIOUS
<1> USE DEF KeyInv
<1>0. /\ req \in [Calls -> [kind : Kinds, key : Key]]
      /\ Streams \subseteq Calls /\ Plain \subseteq Calls
      /\ shown \in {"none", "gate", "app"}
  BY DEF TypeOK, Kinds, Calls
<1>s. \A k : \A c \in Calls : Sequel(c, k).kind \notin {"boot", "login"}
  BY DEF Sequel, Request, None
<1>1. ASSUME NEW c \in Calls \cup {NoStream}, EndSession(c),
             \A d \in Calls : d # c => req[d].kind \notin {"boot", "login"}
      PROVE  LogInHolds' /\ Deciding'
  <2>1. req' = [d \in Calls |->
                    IF d = c THEN Sequel(c, NoKey)
                    ELSE IF d = ctrl /\ conn[d] = "asked" THEN Aborted
                    ELSE req[d]]
    BY <1>1 DEF EndSession, Requests
  <2>2. \A d \in Calls : req'[d].kind \notin {"boot", "login"}
    BY <2>1, <1>0, <1>1, <1>s DEF Aborted, Request
  <2>3. shown' = "gate"
    BY <1>1 DEF EndSession
  <2> QED
    BY <2>2, <2>3 DEF LogInHolds, Deciding
<1>2. ASSUME NEW c \in Calls, AuthLost(c) PROVE LogInHolds' /\ Deciding'
  <2>1. shown # "gate" /\ req[c].kind \in Panel \ {"login"} /\ EndSession(c)
    BY <1>2 DEF AuthLost, GateUp
  <2>2. \A d \in Calls : req[d].kind # "login"
    BY <2>1 DEF LogInHolds
  <2>3. \A d \in Calls : d # c => req[d].kind # "boot"
    <3>1. CASE shown = "none"
      <4>1. req[c].kind = "boot"
        BY <2>1, <3>1 DEF Booting, Panel, Refreshing
      <4> QED
        BY <4>1 DEF Deciding
    <3>2. CASE shown # "none"
      BY <3>2 DEF Deciding
    <3> QED
      BY <3>1, <3>2
  <2> QED
    BY <2>1, <2>2, <2>3, <1>1
<1>3. CASE Logout
  <2>1. shown = "app" /\ EndSession(NoStream)
    BY <1>3 DEF Logout
  <2>2. \A d \in Calls : req[d].kind \notin {"boot", "login"}
    BY <2>1 DEF LogInHolds, Deciding
  <2> QED
    BY <2>1, <2>2, <1>1
<1>4. ASSUME NEW c \in Calls, Answered(c) PROVE LogInHolds' /\ Deciding'
  <2>1. req' = [req EXCEPT ![c] = Sequel(c, key)] /\ UNCHANGED session
    BY <1>4 DEF Answered, Requests
  <2> QED
    BY <2>1, <1>0, <1>s, DecidesNothing DEF session
<1>5. ASSUME NEW c \in Calls, Opens(c) PROVE LogInHolds' /\ Deciding'
  <2>1. /\ req[c].kind = "boot" /\ shown' = "app" /\ key' = key /\ stored' = stored
        /\ req' = [req EXCEPT ![c] = Request("load", key)]
    BY <1>5 DEF Opens, Sends, Requests
  <2>2. shown = "none" /\ key = stored
    BY <2>1 DEF Deciding
  <2>3. \A d \in Calls : req'[d].kind \notin {"boot", "login"}
    BY <2>1, <2>2, <1>0 DEF Deciding, LogInHolds, Request
  <2> QED
    BY <2>1, <2>2, <2>3 DEF LogInHolds, Deciding
<1>6. ASSUME NEW c \in Calls, LoggedIn(c) PROVE LogInHolds' /\ Deciding'
  <2>1. /\ req[c].kind = "login" /\ shown' = "app" /\ key' = key /\ stored' = req[c].key
        /\ req' = [req EXCEPT ![c] = Request("load", key)]
    BY <1>6 DEF LoggedIn, Sends, Requests
  <2>2. shown = "gate" /\ key = req[c].key
    BY <2>1 DEF LogInHolds
  <2>3. \A d \in Calls : req'[d].kind \notin {"boot", "login"}
    BY <2>1, <2>2, <1>0 DEF Deciding, Request
  <2> QED
    BY <2>1, <2>2, <2>3 DEF LogInHolds, Deciding
<1>7. ASSUME NEW c \in Calls, NotLoggedIn(c) PROVE LogInHolds' /\ Deciding'
  <2>1. req[c].kind = "login" /\ shown' = shown /\ req' = [req EXCEPT ![c] = None]
    BY <1>7 DEF NotLoggedIn, Requests
  <2>2. shown = "gate"
    BY <2>1 DEF LogInHolds
  <2>3. \A d \in Calls : req'[d].kind \notin {"boot", "login"}
    BY <2>1, <2>2, <1>0 DEF Deciding, None
  <2> QED
    BY <2>1, <2>2, <2>3 DEF LogInHolds, Deciding
<1>8. ASSUME NEW c \in Calls, Forgotten(c) PROVE LogInHolds' /\ Deciding'
  <2>1. req' = [req EXCEPT ![c] = None] /\ UNCHANGED session
    BY <1>8 DEF Forgotten, Requests
  <2> QED
    BY <2>1, <1>0, DecidesNothing DEF session, None
<1>9. ASSUME NEW s \in Streams, StreamFails(s) \/ StreamOpens(s) \/ StreamEnds(s) \/ Reconnect(s)
      PROVE  LogInHolds' /\ Deciding'
  <2>1. UNCHANGED session
    BY <1>9 DEF StreamFails, StreamOpens, StreamEnds, Reconnect, Over
  <2>2. req' \in {[req EXCEPT ![s] = None], [req EXCEPT ![s] = Request("stream", key)], req}
    BY <1>9 DEF StreamFails, StreamOpens, StreamEnds, Reconnect, Sends, Requests
  <2> QED
    BY <2>1, <2>2, <1>0, DecidesNothing DEF session, None, Request
<1>10. ASSUME NEW c \in Plain, Started(c) PROVE LogInHolds' /\ Deciding'
  <2>1. UNCHANGED session
    BY <1>10 DEF Started
  <2>2. \/ req' = [req EXCEPT ![c] = None]
        \/ \E s \in Streams : req' = [req EXCEPT ![c] = None, ![s] = Request("stream", key)]
    BY <1>10 DEF Started, Requests
  <2> QED
    BY <2>1, <2>2, <1>0, DecidesNothing DEF session, None, Request
<1>11. ASSUME NEW c \in Plain, Boot(c) PROVE LogInHolds' /\ Deciding'
  <2>1. /\ shown = "none" /\ shown' = "none" /\ key' = stored /\ stored' = stored
        /\ \A d \in Calls : req[d].kind # "boot"
        /\ req' = [req EXCEPT ![c] = Request("boot", stored)]
    BY <1>11 DEF Boot, Requests
  <2>2. \A d \in Calls : req[d].kind # "login"
    BY <2>1 DEF LogInHolds
  <2> QED
    BY <2>1, <2>2, <1>0 DEF LogInHolds, Deciding, Request
<1>12. ASSUME NEW c \in Plain, NEW k \in Keys, Login(c, k) PROVE LogInHolds' /\ Deciding'
  <2>1. /\ shown = "gate" /\ shown' = "gate" /\ key' = k /\ stored' = stored
        /\ \A d \in Calls : req[d].kind # "login"
        /\ req' = [req EXCEPT ![c] = Request("login", k)]
    BY <1>12 DEF Login, Requests
  <2>2. \A d \in Calls : req[d].kind # "boot"
    BY <2>1 DEF Deciding
  <2> QED
    BY <2>1, <2>2, <1>0 DEF LogInHolds, Deciding, Request
<1>13. ASSUME NEW c \in Plain, Ask(c) PROVE LogInHolds' /\ Deciding'
  <2>1. req' = [req EXCEPT ![c] = Request("status", key)] /\ UNCHANGED session
    BY <1>13 DEF Ask, Sends, Requests
  <2> QED
    BY <2>1, <1>0, DecidesNothing DEF session, Request
<1>14. CASE Reload
  <2>1. /\ shown' = "none"
        /\ req' = [c \in Calls |-> IF c \in UnderWay(req) THEN Aborted ELSE None]
    BY <1>14 DEF Reload, Requests
  <2>2. \A d \in Calls : req'[d].kind \notin {"boot", "login"}
    BY <2>1, <1>0 DEF None, Aborted, Request
  <2> QED
    BY <2>1, <2>2 DEF LogInHolds, Deciding
<1>15. CASE Switch \/ (\E k \in Keys : Rotate(k)) \/ UNCHANGED vars
  <2>1. UNCHANGED <<session, req>>
    BY <1>15 DEF Switch, Rotate, vars
  <2> QED
    BY <2>1, DecidesNothing DEF session
<1> QED
  BY <1>2, <1>3, <1>4, <1>5, <1>6, <1>7, <1>8, <1>9, <1>10, <1>11, <1>12, <1>13, <1>14, <1>15
     DEF Next, Disturb, Goes, Arrives, StreamArrives

\* For any number of requests at once, a log-in under way keeps the key it tries, whatever
\* an ended session is answered late, and a panel that is open works with the key the
\* browser keeps (onAuthLost() does nothing behind the log-in screen).
THEOREM LogInKeepsKey == Spec => []LogInHolds
<1>1. Init => KeyInv
  <2>1. Init => LogInHolds /\ Deciding
    BY DEF Init, LogInHolds, Deciding, None
  <2> QED
    BY <2>1, InitTypes, InitSession DEF KeyInv
<1>2. KeyInv /\ [Next]_vars => KeyInv'
  BY NextTypes, NextBooting, NextKey DEF KeyInv
<1>3. KeyInv => LogInHolds
  BY DEF KeyInv
<1> QED
  BY <1>1, <1>2, <1>3, PTL DEF Spec
=============================================================================
