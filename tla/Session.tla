------------------------------- MODULE Session -------------------------------
(***************************************************************************)
(* From a connection to a logged-on session: the channel encryption of     *)
(* client.go and connection.go, the logon and the notices of auth.go, the  *)
(* ids that Write stamps, and the heartbeatLoop of every logon.            *)
(*                                                                         *)
(* The application reacts to the events it polls; it connects again when   *)
(* the read loop of the previous connection has returned and no event is   *)
(* left.  (Client is about an application that does not wait, and about    *)
(* the mutex: Write and Disconnect are one step here.)  The heartbeatLoops *)
(* of earlier logons, whose ends nobody waits for, run on.                 *)
(***************************************************************************)
EXTENDS Integers, Sequences, FiniteSets

CONSTANTS
  Transports,   \* the transports the application uses
  WriteCap,     \* capacity of writeChan (5 in the code)
  EventCap,     \* capacity of events (3 in the code)
  MaxConns,     \* bound: connections
  MaxNotices    \* bound: notices the server sends on a connection

ASSUME TransportsAssumption == Transports \subseteq {"tcp", "ws"}
ASSUME CapacitiesAssumption == WriteCap \in Nat \ {0} /\ EventCap \in Nat /\ EventCap >= 2
ASSUME SizesAssumption      == MaxConns \in Nat /\ MaxNotices \in Nat

Nil      == 0
Conns    == 1..MaxConns
Keys     == 1..MaxConns     \* a key per EncryptRequest, and one request per connection
Sessions == 1..MaxConns     \* a session per logon, and one logon per connection

\* steamId: before any logon, the placeholders of LogOn and LogOnAnonymousGS, the id of a
\* logon response.
Placeholders == {"individual", "anonGameServer"}
Ids    == {"zero", "account"} \cup Placeholders
Frames == [kind : {"EncryptResponse", "Logon", "HeartBeat", "Data", "Reply", "Nonce"},
           key : Keys \cup {Nil}, session : Sessions \cup {Nil}, id : Ids]
EventTypes == {"Fatal", "Disconnected", "Connected", "LoggedOn", "LogOnFailed", "Notice",
               "WebSessionId", "Web"}

\* How far the server (external) has come with the present connection.
Stages == {"gone", "new", "asked", "keyed", "secure", "logon", "on", "over", "refused"}

VARIABLES
  conn,            \* c.conn
  tempSessionKey,  \* c.tempSessionKey
  ciph,            \* the key of the present connection's cipher
  queue,           \* c.writeChan of the present connection
  sessionId, steamId,
  webLoginKey,     \* c.Web.webLoginKey is not blank
  events,          \* c.events
  reader,          \* where the read loop of the present connection is
  heartbeat,       \* c.heartbeat: the ticker of a logon, or Nil
  ticking,         \* the tickers that run
  beat,            \* beat[k]: where the heartbeatLoop of logon k is
  lchan,           \* lchan[k]: the ticker whose channel it waits for
  app,             \* what the application was told last about its connection
  webTold,         \* the application has got a WebSessionIdEvent
  panic,           \* a goroutine has panicked
  conns, keys, logons, notices,                \* counters
  stage, serverKey, serverSession,             \* the server's view
  nonces,          \* the server's view: nonce requests it has got on this connection
  garbled, foreign \* history: frames the server could not read, or not attribute

linkVars  == <<conn, tempSessionKey, ciph, queue>>
idVars    == <<sessionId, steamId, webLoginKey>>
beatVars  == <<heartbeat, ticking, beat, lchan>>
countVars == <<conns, keys, logons, notices>>
serverVars == <<stage, serverKey, serverSession, nonces, garbled, foreign>>
sessionVars == <<linkVars, idVars, events, reader, beatVars, app, webTold, panic, countVars,
                 serverVars>>

ReaderLabels == {"off", "read", "request", "badUniverse", "result", "badResult",
                 "connected", "response", "silent", "denied", "nonProto", "loggedOn",
                 "notice", "webKey", "nonce"}

TypeOK ==
  /\ conn \in Conns \cup {Nil}
  /\ {tempSessionKey, ciph, serverKey} \subseteq Keys \cup {Nil}
  /\ queue \in Seq(Frames) /\ Len(queue) <= WriteCap
  /\ sessionId \in Sessions \cup {Nil} /\ serverSession \in Sessions \cup {Nil}
  /\ steamId \in Ids
  /\ webLoginKey \in BOOLEAN
  /\ events \in Seq(EventTypes) /\ Len(events) <= EventCap
  /\ reader \in ReaderLabels
  /\ heartbeat \in Sessions \cup {Nil} /\ ticking \subseteq Sessions
  /\ beat \in [Sessions -> {"off", "stop", "new", "eval", "wait"}]
  /\ lchan \in [Sessions -> Sessions \cup {Nil}]
  /\ app \in {"off", "dialing", "connected", "loggingOn", "loggedOn"}
  /\ {conns, keys, logons} \subseteq 0..MaxConns /\ notices \in 0..MaxNotices
  /\ stage \in Stages
  /\ nonces \in Nat
  /\ panic \in BOOLEAN /\ webTold \in BOOLEAN /\ garbled \in BOOLEAN /\ foreign \in BOOLEAN

Init ==
  /\ conn = Nil /\ tempSessionKey = Nil /\ ciph = Nil /\ queue = <<>>
  /\ sessionId = Nil /\ steamId = "zero" /\ webLoginKey = FALSE
  /\ events = <<>> /\ reader = "off" /\ app = "off" /\ webTold = FALSE /\ panic = FALSE
  /\ heartbeat = Nil /\ ticking = {}
  /\ beat = [k \in Sessions |-> "off"] /\ lchan = [k \in Sessions |-> Nil]
  /\ conns = 0 /\ keys = 0 /\ logons = 0 /\ notices = 0
  /\ stage = "gone" /\ serverKey = Nil /\ serverSession = Nil
  /\ nonces = 0 /\ garbled = FALSE /\ foreign = FALSE

-----------------------------------------------------------------------------
(* Building blocks *)

\* Variant for mutation: an event channel without a bound.
EmitUnbounded(es) == events' = events \o es
\* c.Emit, of a sequence of events.
Emit(es) == Len(events) + Len(es) <= EventCap /\ events' = events \o es

\* c.Write stamps a message with the present ids.  The stamps of heartbeats, answers and
\* nonce requests are left out, the properties do not look at them; an EncryptResponse has
\* none.
Stamped(kind, id) == [kind |-> kind, key |-> Nil, session |-> sessionId, id |-> id]
Frame(kind, key) == [kind |-> kind, key |-> key, session |-> Nil, id |-> "zero"]
Write(f) ==
  \/ conn = Nil /\ UNCHANGED queue
  \/ conn # Nil /\ Len(queue) < WriteCap /\ queue' = Append(queue, f)

\* c.Disconnect after the events es: one DisconnectedEvent unless c.conn is nil already;
\* the heartbeat's ticker is stopped, the ids and tempSessionKey stay.
DisconnectAfter(es) ==
  /\ Emit(es \o IF conn = Nil THEN <<>> ELSE <<"Disconnected">>)
  /\ ticking' = IF conn = Nil THEN ticking ELSE ticking \ {heartbeat}
  /\ conn' = Nil /\ queue' = <<>> /\ ciph' = Nil /\ stage' = "gone"
  /\ serverKey' = Nil /\ serverSession' = Nil /\ nonces' = 0
  /\ UNCHANGED <<tempSessionKey, idVars, heartbeat, beat, lchan, webTold, panic, countVars,
                 garbled, foreign>>

-----------------------------------------------------------------------------
(* The application *)

\* Connect and ConnectToWebSocket, which announces itself.
Connect(t) ==
  /\ conn = Nil /\ reader = "off" /\ events = <<>> /\ conns < MaxConns
  /\ conns' = conns + 1 /\ conn' = conns + 1
  /\ notices' = 0 /\ reader' = "read" /\ app' = "dialing"
  /\ stage' = IF t = "tcp" THEN "new" ELSE "secure"
  /\ events' = IF t = "tcp" THEN <<>> ELSE <<"Connected">>
  /\ UNCHANGED <<tempSessionKey, ciph, queue, idVars, beatVars, webTold, panic, keys, logons,
                 serverKey, serverSession, nonces, garbled, foreign>>

Disconnect ==
  /\ app # "off" /\ DisconnectAfter(<<>>)
  /\ UNCHANGED <<reader, app>>

\* for event := range client.Events()
Poll ==
  /\ events # <<>> /\ events' = Tail(events)
  /\ app' = IF Head(events) = "Connected" THEN "connected"
            ELSE IF Head(events) = "LoggedOn" THEN "loggedOn"
            ELSE IF Head(events) = "Disconnected" THEN "off" ELSE app
  /\ webTold' = (webTold \/ Head(events) = "WebSessionId")
  /\ UNCHANGED <<linkVars, idVars, reader, beatVars, panic, countVars, serverVars>>

\* LogOn and LogOnAnonymousGS store a placeholder and write a ClientLogon.
LogOn(p) ==
  /\ app = "connected" /\ app' = "loggingOn"
  /\ steamId' = p
  /\ Write(Stamped("Logon", p))
  /\ UNCHANGED <<conn, tempSessionKey, ciph, sessionId, webLoginKey, events, reader, beatVars,
                 webTold, panic, countVars, serverVars>>

\* The application writes a message, once it was told that it is logged on.
WriteData ==
  /\ app = "loggedOn" /\ Write(Stamped("Data", steamId))
  /\ UNCHANGED <<conn, tempSessionKey, ciph, idVars, events, reader, beatVars, app, webTold, panic,
                 countVars, serverVars>>

-----------------------------------------------------------------------------
(* The write loop and the server *)

\* A frame is readable if it is encrypted with the key the server expects from now on.
Secured == stage \in {"secure", "logon", "on", "over"}
Readable(key) == key = IF Secured THEN serverKey ELSE Nil

\* What goroutines write that outlive their connection: heartbeatLoops and web logons.
Strays == {"HeartBeat", "Nonce"}

\* conn.Write of the frame at the head of the queue, with the cipher of this moment.
Transmit ==
  /\ queue # <<>>
  /\ LET f == Head(queue) IN
     /\ stage' = IF Readable(ciph) /\ f.kind = "EncryptResponse" /\ stage = "asked" THEN "keyed"
                 ELSE IF Readable(ciph) /\ f.kind = "Logon" /\ stage = "secure" THEN "logon"
                 ELSE stage
     /\ serverKey' = IF stage # stage' /\ stage' = "keyed" THEN f.key ELSE serverKey
     /\ garbled' = (garbled \/ (~Readable(ciph) /\ f.kind \notin Strays))
     /\ foreign' = (foreign \/ (f.kind = "Data"
                                  /\ (f.session # serverSession \/ f.id # "account")))
     /\ nonces' = IF f.kind = "Nonce" /\ Readable(ciph) THEN nonces + 1 ELSE nonces
  /\ queue' = Tail(queue)
  /\ UNCHANGED <<conn, tempSessionKey, ciph, idVars, events, reader, beatVars, app, webTold, panic,
                 countVars, serverSession>>

\* conn.Write fails: Fatalf.
TransmitError ==
  /\ queue # <<>> /\ DisconnectAfter(<<"Fatal">>)
  /\ UNCHANGED <<reader, app>>

-----------------------------------------------------------------------------
(* The read loop *)

Goto(l) == reader' = l

\* conn.Read returns what the server has to say: the request for a key, the result of the
\* encryption, the answer to a logon, a notice.
ReadPacket ==
  /\ reader = "read" /\ conn # Nil
  /\ \/ /\ stage = "new" /\ stage' = "asked" /\ reader' \in {"request", "badUniverse"}
        /\ UNCHANGED notices
     \/ /\ stage = "keyed" /\ stage' = "secure" /\ Goto("result") /\ UNCHANGED notices
     \/ /\ stage = "keyed" /\ stage' = "refused" /\ Goto("badResult") /\ UNCHANGED notices
     \/ /\ stage = "logon" /\ stage' = "on" /\ Goto("response") /\ UNCHANGED notices
     \/ /\ stage = "logon" /\ stage' = "over" /\ Goto("silent") /\ UNCHANGED notices
     \/ /\ stage = "logon" /\ stage' = "refused" /\ reader' \in {"denied", "nonProto"}
        /\ UNCHANGED notices
     \/ /\ stage = "on" /\ notices < MaxNotices /\ notices' = notices + 1
        /\ Goto("notice") /\ UNCHANGED stage
  /\ serverSession' = IF reader' = "response" THEN logons + 1 ELSE serverSession
  /\ UNCHANGED <<linkVars, idVars, events, beatVars, app, webTold, panic, conns, keys, logons,
                 serverKey, nonces, garbled, foreign>>

\* conn.Read fails: the server or the network ended the connection.  Fatalf, return.
ReadError ==
  /\ reader = "read" /\ conn # Nil
  /\ DisconnectAfter(<<"Fatal">>) /\ Goto("off") /\ UNCHANGED app

\* The connection was closed by somebody else: the loop finds c.conn nil and returns, or
\* its Read fails.
ReaderEnds ==
  /\ reader = "read" /\ conn = Nil
  /\ \/ UNCHANGED events
     \/ Emit(<<"Fatal">>)
  /\ Goto("off")
  /\ UNCHANGED <<linkVars, idVars, beatVars, app, webTold, panic, countVars, serverVars>>

\* A handler calls Fatalf: on an EncryptRequest of another universe, after which it goes
\* on; on a failed EncryptResult and on a logon response that is no protobuf.
HandleFatal ==
  /\ reader \in {"badUniverse", "badResult", "nonProto"}
  /\ DisconnectAfter(<<"Fatal">>)
  /\ Goto(IF reader = "badUniverse" THEN "request" ELSE "read") /\ UNCHANGED app

\* handleChannelEncryptRequest: a new key, sent to the server.
HandleEncryptRequest ==
  /\ reader = "request" /\ keys' = keys + 1
  /\ tempSessionKey' = keys + 1
  /\ Write(Frame("EncryptResponse", keys + 1))
  /\ Goto("read")
  /\ UNCHANGED <<conn, ciph, idVars, events, beatVars, app, webTold, panic, conns, logons, notices,
                 serverVars>>

\* Variant for mutation: tempSessionKey is cleared before it is used.
ClearKeyFirst == tempSessionKey' = Nil /\ ciph' = Nil
\* c.conn.SetEncryptionKey(c.tempSessionKey); c.tempSessionKey = nil
SetEncryptionKey == ciph' = tempSessionKey /\ tempSessionKey' = Nil

\* handleChannelEncryptResult, on whatever c.conn is now; then the event.
HandleEncryptResult ==
  /\ reader = "result"
  /\ \/ /\ conn # Nil /\ SetEncryptionKey
        /\ Goto("connected") /\ UNCHANGED panic
     \/ /\ conn = Nil /\ panic' = TRUE /\ UNCHANGED <<ciph, tempSessionKey, reader>>
  /\ UNCHANGED <<conn, queue, idVars, events, beatVars, app, webTold, countVars, serverVars>>

\* Variant for mutation: the session of the first logon is kept.
StoreIdsOnce == /\ sessionId' = IF sessionId = Nil THEN logons + 1 ELSE sessionId
                /\ steamId' = "account"
StoreIds == sessionId' = logons + 1 /\ steamId' = "account"

\* Variant for mutation: no new loop while there is a ticker.
KeepTicker == beat' = [beat EXCEPT ![logons + 1] = IF heartbeat = Nil THEN "stop" ELSE @]
StartHeartbeat == beat' = [beat EXCEPT ![logons + 1] = "stop"]

\* handleLogOnResponse, EResult_OK: the ids, the nonce if there is one, a heartbeatLoop.
HandleLoggedOn ==
  /\ reader = "response" /\ Goto("loggedOn")
  /\ StoreIds
  /\ webLoginKey' \in {TRUE, webLoginKey}
  /\ StartHeartbeat
  /\ logons' = logons + 1
  /\ UNCHANGED <<linkVars, events, heartbeat, ticking, lchan, app, webTold, panic, conns, keys, notices,
                 serverVars>>

\* Results that emit nothing ("we'll get an EOF later"), and a variant with too many.
SilentToo == {"silent", "denied"}
Silent == {"silent"}

\* Any other result: LogOnFailedEvent and Disconnect.
HandleLogOnRefused ==
  /\ reader \in {"silent", "denied"} /\ Goto("read")
  /\ \/ /\ reader \in Silent
        /\ UNCHANGED <<linkVars, idVars, events, beatVars, webTold, panic, countVars,
                       serverVars>>
     \/ /\ reader \notin Silent /\ DisconnectAfter(<<"LogOnFailed">>)
  /\ UNCHANGED app

\* The events that end a handler.
HandlerEmits ==
  /\ reader \in {"connected", "loggedOn"}
  /\ Emit(IF reader = "connected" THEN <<"Connected">> ELSE <<"LoggedOn">>)
  /\ Goto("read")
  /\ UNCHANGED <<linkVars, idVars, beatVars, app, webTold, panic, countVars, serverVars>>

\* LoggedOff, AccountInfo and CMList emit an event; UpdateMachineAuth writes an answer and
\* emits.  NewLoginKey is handled so by Auth and after it by Web, which keeps the session id
\* cookie.
HandleNotice ==
  /\ \/ reader = "notice" /\ Goto("read") /\ UNCHANGED queue /\ Emit(<<"Notice">>)
     \/ /\ reader = "notice" /\ reader' \in {"read", "webKey"}
        /\ Write(Frame("Reply", Nil)) /\ Emit(<<"Notice">>)
     \/ /\ reader = "webKey" /\ Goto("read")
        /\ Write(Frame("Reply", Nil)) /\ Emit(<<"WebSessionId">>)
  /\ UNCHANGED <<conn, tempSessionKey, ciph, idVars, beatVars, app, webTold, panic, countVars,
                 serverVars>>

-----------------------------------------------------------------------------
(* heartbeatLoop *)

BeatGoto(k, l) == beat' = [beat EXCEPT ![k] = l]
beatRest == <<linkVars, idVars, events, reader, app, webTold, panic, countVars, serverVars>>

\* c.heartbeat.Stop() if there is a ticker
BeatStop(k) ==
  /\ beat[k] = "stop" /\ BeatGoto(k, "new")
  /\ ticking' = ticking \ {heartbeat}
  /\ UNCHANGED <<heartbeat, lchan, beatRest>>

\* c.heartbeat = time.NewTicker(...), which panics when the server's interval is 0.
BeatNew(k) ==
  /\ beat[k] = "new" /\ BeatGoto(k, "eval")
  /\ heartbeat' = k /\ ticking' = ticking \cup {k}
  /\ UNCHANGED <<lchan, beatRest>>
BeatZero(k) ==
  /\ beat[k] = "new" /\ panic' = TRUE
  /\ UNCHANGED <<beatVars, linkVars, idVars, events, reader, app, webTold, countVars,
                 serverVars>>

\* The operand c.heartbeat.C of the receive.
BeatEval(k) ==
  /\ beat[k] = "eval" /\ BeatGoto(k, "wait")
  /\ lchan' = [lchan EXCEPT ![k] = heartbeat]
  /\ UNCHANGED <<heartbeat, ticking, beatRest>>

BeatTick(k) ==
  /\ beat[k] = "wait" /\ lchan[k] \in ticking /\ BeatGoto(k, "eval")
  /\ Write(Frame("HeartBeat", Nil))
  /\ UNCHANGED <<heartbeat, ticking, lchan, conn, tempSessionKey, ciph, idVars, events, reader,
                 app, webTold, panic, countVars, serverVars>>

-----------------------------------------------------------------------------
(* The specification *)

Handle == \/ HandleFatal \/ HandleEncryptRequest \/ HandleEncryptResult \/ HandleLoggedOn
          \/ HandleLogOnRefused \/ HandlerEmits \/ HandleNotice
BeatStart(k) == BeatStop(k) \/ BeatNew(k) \/ BeatEval(k)

SessionNext ==
  /\ ~panic
  /\ \/ \E t \in Transports : Connect(t)
     \/ \E p \in Placeholders : LogOn(p)
     \/ Disconnect \/ Poll \/ WriteData
     \/ Transmit \/ TransmitError
     \/ ReadPacket \/ ReadError \/ ReaderEnds \/ Handle
     \/ \E k \in Sessions : BeatStart(k) \/ BeatZero(k) \/ BeatTick(k)

\* The goroutines run, a channel serves its blocked senders in turn (SF), and the
\* application polls.  A server that gets a logon answers it or ends the connection, and
\* ends it after a result that says so: "we'll get an EOF later" (auth.go:233).
SessionFairness ==
  /\ WF_sessionVars(~panic /\ Poll)
  /\ WF_sessionVars(~panic /\ Transmit)
  /\ SF_sessionVars(~panic /\ Handle)
  /\ WF_sessionVars(~panic /\ ReaderEnds)
  /\ WF_sessionVars(~panic /\ stage \in {"logon", "over"} /\ (ReadPacket \/ ReadError))
  /\ \A k \in Sessions : WF_sessionVars(~panic /\ BeatStart(k))

SessionSpec == Init /\ [][SessionNext]_sessionVars /\ SessionFairness

-----------------------------------------------------------------------------
(* Properties *)

\* Whatever the write loop, the read loop and the application interleave, the server can
\* read every frame they send: the key's answer goes out in the clear, everything after
\* ConnectedEvent with the key the server holds.  Only a heartbeat or a nonce request of an
\* earlier logon may fall into the handshake (client.go:349-375, connection.go:102-106).
AllReadable == ~garbled

\* What the application writes after LoggedOnEvent reaches the server with the session and
\* the steam id of that logon, although neither is reset on a disconnect and LogOn stores a
\* placeholder (client.go:235-238, auth.go:147, 200-201).
OwnSession == ~foreign

\* A session is kept alive: when the heartbeatLoops have come to rest and the client is
\* logged on, one of them waits for a ticker that runs, though loops of earlier logons stop
\* each other's tickers and share c.heartbeat (client.go:221-224, 298-304).
HeartbeatKept ==
  stage = "on" /\ reader = "read" /\ (\A k \in Sessions : beat[k] \in {"off", "wait"})
    => \E k \in Sessions : beat[k] = "wait" /\ lchan[k] \in ticking

\* A LogOn that finds a connection is answered: by LoggedOnEvent, or by a DisconnectedEvent
\* (after LogOnFailedEvent or FatalErrorEvent), also for the results the handler passes over
\* (auth.go:199-240).
LogOnAnswered ==
  app = "loggingOn" /\ conn # Nil ~> (app \in {"loggedOn", "off"} \/ panic)
=============================================================================
