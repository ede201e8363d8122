---------------------------- MODULE SessionProofs ----------------------------
(***************************************************************************)
(* Proofs about Session and about Web on top of it, for any number of      *)
(* connections, notices and web logons and any capacity of the channels.   *)
(***************************************************************************)
EXTENDS Web, FiniteSetTheorems, SequenceTheorems, TLAPS

\* What waits in the event channel and in the write queue.
Waiting(t) == \E k \in DOMAIN events : events[k] = t
Queued(kind) == \E k \in DOMAIN queue : queue[k].kind = kind

\* Without a connection nothing of it is left; the read loop lives as long at least.
LinkInv ==
  /\ conn = Nil <=> stage = "gone"
  /\ conn = Nil => queue = <<>> /\ ciph = Nil /\ serverKey = Nil /\ serverSession = Nil
  /\ reader = "off" => conn = Nil

\* One request for a key and one logon per connection.
CountInv ==
  /\ keys <= conns /\ logons <= conns
  /\ stage = "new" \/ reader \in {"request", "badUniverse"} => keys < conns
  /\ stage \in {"new", "asked", "keyed", "secure", "logon"} \/ reader = "response" => logons < conns

\* Where the read loop is while the connection exists.
ReaderInv ==
  conn # Nil =>
    /\ stage = "new" => reader \in {"read", "nonce"}
    /\ reader \in {"request", "badUniverse"} => stage = "asked"
    /\ reader \in {"badResult", "denied", "nonProto"} => stage = "refused"
    /\ reader \in {"result", "connected"} => stage = "secure"
    /\ reader \in {"response", "loggedOn", "notice", "webKey"} => stage = "on"
    /\ reader = "silent" => stage = "over"

\* The keys: the server's is the one the client sent, and the cipher has it from
\* handleChannelEncryptResult on.  An EncryptResponse waits in the clear.
KeyInv ==
  conn # Nil =>
    /\ stage \in {"new", "asked", "keyed"} => ciph = Nil
    /\ stage = "keyed" \/ reader = "result" => tempSessionKey = serverKey
    /\ Secured /\ reader # "result" => ciph = serverKey
    /\ \A k \in DOMAIN queue : queue[k].kind = "EncryptResponse" =>
         /\ stage = "asked" /\ reader \notin {"request", "badUniverse"}
         /\ queue[k].key = tempSessionKey
         /\ \A j \in DOMAIN queue : queue[j].kind = "EncryptResponse" => j = k

\* The permission to log on is handed on once: from the handler to ConnectedEvent, to the
\* application and to the ClientLogon that waits to be sent.
LogOnInv ==
  conn # Nil =>
    /\ reader \in {"result", "connected"} =>
         ~Waiting("Connected") /\ app # "connected" /\ ~Queued("Logon")
    /\ Waiting("Connected") => stage = "secure" /\ app # "connected" /\ ~Queued("Logon")
    /\ app = "connected" => stage = "secure" /\ ~Queued("Logon")
    /\ Queued("Logon") => stage = "secure"
    /\ \A j, k \in DOMAIN events : events[j] = "Connected" /\ events[k] = "Connected" => j = k
    /\ \A j, k \in DOMAIN queue : queue[j].kind = "Logon" /\ queue[k].kind = "Logon" => j = k

\* Whoever was told of the logon, or is about to be, has the ids of the session; so has
\* what the application writes.
OwnInv ==
  conn # Nil =>
    /\ reader = "response" => serverSession = logons + 1
    /\ app = "loggedOn" \/ Waiting("LoggedOn") => stage = "on"
    /\ app = "loggedOn" \/ Waiting("LoggedOn") \/ reader = "loggedOn" =>
         sessionId = serverSession /\ steamId = "account"
    /\ \A k \in DOMAIN queue :
         /\ queue[k].kind \in {"Data", "Reply"} => stage = "on"
         /\ queue[k].kind = "Data" => queue[k].session = serverSession /\ queue[k].id = "account"

\* The ticker c.heartbeat is that of a loop that waits for it or will; while the session
\* is on, it runs, or a loop is about to make a new one.
BeatInv ==
  /\ \A k \in Sessions : k > logons => beat[k] = "off"
  /\ heartbeat # Nil =>
       beat[heartbeat] = "eval" \/ (beat[heartbeat] = "wait" /\ lchan[heartbeat] = heartbeat)
  /\ stage = "on" /\ reader # "response" =>
       (\E k \in Sessions : beat[k] \in {"stop", "new"}) \/ heartbeat \in ticking

\* The inductive invariant.
SessionInv ==
  /\ TypeOK /\ LinkInv /\ CountInv /\ ReaderInv /\ KeyInv /\ LogOnInv /\ OwnInv /\ BeatInv
  /\ AllReadable /\ OwnSession

-----------------------------------------------------------------------------
(* Queues *)

\* What Append does to a queue.
LEMMA AppendFacts ==
  ASSUME NEW S, NEW s \in Seq(S), NEW e \in S
  PROVE  /\ Append(s, e) \in Seq(S)
         /\ Len(Append(s, e)) = Len(s) + 1 /\ Len(s) \in Nat
         /\ DOMAIN s = 1..Len(s) /\ DOMAIN Append(s, e) = 1..Len(s) + 1
         /\ \A k \in DOMAIN s : Append(s, e)[k] = s[k]
         /\ Append(s, e)[Len(s) + 1] = e
  OBVIOUS

\* What Tail does to a queue.
LEMMA TailFacts ==
  ASSUME NEW S, NEW s \in Seq(S), s # <<>>
  PROVE  /\ Tail(s) \in Seq(S) /\ Len(s) \in Nat \ {0} /\ Head(s) \in S
         /\ Head(s) = s[1] /\ DOMAIN s = 1..Len(s) /\ Len(Tail(s)) = Len(s) - 1
         /\ \A k \in DOMAIN Tail(s) : k \in 1..Len(s) - 1 /\ Tail(s)[k] = s[k + 1]
<1>1. Len(s) \in Nat \ {0} /\ DOMAIN s = 1..Len(s)
  BY EmptySeq, LenProperties
<1>2. Head(s) = s[1] /\ Tail(s) \in Seq(S) /\ Len(Tail(s)) = Len(s) - 1 /\ Head(s) \in S
  BY HeadTailProperties
<1>3. DOMAIN Tail(s) = 1..Len(s) - 1
  BY <1>2, LenProperties
<1>4. \A k \in 1..Len(s) - 1 : Tail(s)[k] = s[k + 1]
  BY HeadTailProperties, <1>2
<1> QED
  BY <1>1, <1>2, <1>3, <1>4

\* Write appends its frame, or leaves the queue alone where there is no connection.
LEMMA WriteFacts ==
  ASSUME TypeOK, NEW f \in Frames, Write(f)
  PROVE  /\ queue' \in Seq(Frames) /\ Len(queue') <= WriteCap
         /\ conn = Nil => queue' = queue
         /\ conn # Nil => /\ Len(queue) \in Nat /\ DOMAIN queue = 1..Len(queue)
                          /\ DOMAIN queue' = 1..Len(queue) + 1
                          /\ \A k \in DOMAIN queue : queue'[k] = queue[k]
                          /\ queue'[Len(queue) + 1] = f
<1>1. queue \in Seq(Frames) /\ Len(queue) <= WriteCap /\ WriteCap \in Nat
  BY CapacitiesAssumption DEF TypeOK
<1>2. CASE conn = Nil /\ UNCHANGED queue
  BY <1>1, <1>2
<1>3. CASE conn # Nil /\ Len(queue) < WriteCap /\ queue' = Append(queue, f)
  BY <1>1, <1>3, AppendFacts
<1> QED
  BY <1>2, <1>3 DEF Write

\* Emit of one event appends it, within the capacity.
LEMMA EmitFacts ==
  ASSUME TypeOK, NEW t \in EventTypes, Emit(<<t>>)
  PROVE  /\ events' \in Seq(EventTypes) /\ Len(events') <= EventCap
         /\ Len(events) \in Nat /\ DOMAIN events = 1..Len(events)
         /\ DOMAIN events' = 1..Len(events) + 1
         /\ \A k \in DOMAIN events : events'[k] = events[k]
         /\ events'[Len(events) + 1] = t
<1>1. events \in Seq(EventTypes) /\ EventCap \in Nat
  BY CapacitiesAssumption DEF TypeOK
<1>2. events' = Append(events, t)
  BY <1>1 DEF Emit
<1>3. Len(events) + 1 <= EventCap
  BY DEF Emit
<1> QED
  BY <1>1, <1>2, <1>3, AppendFacts

\* The frames that are written.
LEMMA FrameTypes ==
  /\ \A key \in Keys \cup {Nil} : Frame("EncryptResponse", key) \in Frames
  /\ Frame("HeartBeat", Nil) \in Frames /\ Frame("Reply", Nil) \in Frames
  /\ Frame("Nonce", Nil) \in Frames
  BY DEF Frame, Frames, Ids

\* The stamps are ids of the client.
LEMMA StampTypes ==
  ASSUME TypeOK, NEW id \in Ids
  PROVE  Stamped("Logon", id) \in Frames /\ Stamped("Data", id) \in Frames
  BY DEF TypeOK, Stamped, Frames

\* The initial state.
LEMMA SessionInit == Init => SessionInv
<1> SUFFICES ASSUME Init PROVE SessionInv
  OBVIOUS
<1>1. TypeOK
  <2>1. /\ queue \in Seq(Frames) /\ Len(queue) = 0 /\ events \in Seq(EventTypes) /\ Len(events) = 0
    BY DEF Init
  <2>2. /\ beat \in [Sessions -> {"off", "stop", "new", "eval", "wait"}]
        /\ lchan \in [Sessions -> Sessions \cup {Nil}]
    BY DEF Init
  <2>3. /\ panic \in BOOLEAN /\ webTold \in BOOLEAN /\ garbled \in BOOLEAN /\ foreign \in BOOLEAN
        /\ webLoginKey \in BOOLEAN
    BY DEF Init
  <2> QED
    BY <2>1, <2>2, <2>3, CapacitiesAssumption, SizesAssumption
    DEF Init, TypeOK, Ids, ReaderLabels, Stages, Nil
<1>2. LinkInv /\ ReaderInv /\ KeyInv /\ LogOnInv /\ OwnInv
  BY DEF Init, LinkInv, ReaderInv, KeyInv, LogOnInv, OwnInv
<1>3. CountInv
  BY DEF Init, CountInv
<1>4. BeatInv
  BY DEF Init, BeatInv
<1> QED
  BY <1>1, <1>2, <1>3, <1>4 DEF Init, SessionInv, AllReadable, OwnSession

-----------------------------------------------------------------------------
(* Disconnecting *)

\* Disconnect leaves nothing of the connection, and the read loop where it was, at the
\* end, or at the next statement.
LEMMA DisconnectStep ==
  ASSUME SessionInv, NEW es \in Seq(EventTypes), DisconnectAfter(es), app' = app,
         \/ reader' \in {reader, "off", "read"}
         \/ reader = "badUniverse" /\ reader' = "request"
  PROVE  SessionInv'
<1>1. /\ conn' = Nil /\ queue' = <<>> /\ ciph' = Nil /\ stage' = "gone" /\ serverKey' = Nil
      /\ serverSession' = Nil /\ nonces' = 0
      /\ ticking' = IF conn = Nil THEN ticking ELSE ticking \ {heartbeat}
      /\ UNCHANGED <<tempSessionKey, sessionId, steamId, webLoginKey, heartbeat, beat, lchan,
                     webTold, panic, conns, keys, logons, notices, garbled, foreign>>
  BY DEF DisconnectAfter, idVars, countVars
<1>2. events' \in Seq(EventTypes) /\ Len(events') <= EventCap
  <2>1. events \in Seq(EventTypes) /\ EventCap \in Nat
    BY CapacitiesAssumption DEF SessionInv, TypeOK
  <2>2. PICK ds : ds = es \o IF conn = Nil THEN <<>> ELSE <<"Disconnected">>
    OBVIOUS
  <2>3. ds \in Seq(EventTypes)
    <3>1. <<"Disconnected">> \in Seq(EventTypes) /\ <<>> \in Seq(EventTypes)
      BY DEF EventTypes
    <3>2. PICK d \in Seq(EventTypes) : ds = es \o d
      BY <2>2, <3>1
    <3> QED
      BY <3>2, ConcatProperties
  <2>4. Len(events) + Len(ds) <= EventCap /\ events' = events \o ds
    BY <2>2 DEF DisconnectAfter, Emit
  <2> QED
    BY <2>1, <2>3, <2>4, ConcatProperties
<1>3. TypeOK'
  <2>1. reader' \in ReaderLabels
    BY DEF SessionInv, TypeOK, ReaderLabels
  <2>2. ticking' \subseteq Sessions
    BY <1>1 DEF SessionInv, TypeOK
  <2>3. queue' \in Seq(Frames) /\ Len(queue') <= WriteCap
    BY <1>1, CapacitiesAssumption
  <2> QED
    BY <1>1, <1>2, <2>1, <2>2, <2>3 DEF SessionInv, TypeOK, Stages
<1>4. LinkInv' /\ ReaderInv' /\ KeyInv' /\ LogOnInv' /\ OwnInv'
  BY <1>1 DEF LinkInv, ReaderInv, KeyInv, LogOnInv, OwnInv
<1>5. CountInv'
  BY <1>1 DEF SessionInv, CountInv
<1>6. BeatInv'
  BY <1>1 DEF SessionInv, BeatInv
<1> QED
  BY <1>1, <1>3, <1>4, <1>5, <1>6 DEF SessionInv, AllReadable, OwnSession

-----------------------------------------------------------------------------
(* The application *)

\* A new connection: nothing of the previous one is left, the read loop has returned and
\* no event waits.
LEMMA ConnectStep ==
  ASSUME SessionInv, NEW t \in Transports, Connect(t)
  PROVE  SessionInv'
<1>1. /\ conn = Nil /\ reader = "off" /\ events = <<>> /\ conns < MaxConns /\ conns \in Nat
      /\ conns' = conns + 1 /\ conn' = conns + 1 /\ notices' = 0 /\ reader' = "read"
      /\ app' = "dialing" /\ stage' = IF t = "tcp" THEN "new" ELSE "secure"
      /\ events' = IF t = "tcp" THEN <<>> ELSE <<"Connected">>
      /\ UNCHANGED <<tempSessionKey, ciph, queue, sessionId, steamId, webLoginKey, heartbeat,
                     ticking, beat, lchan, webTold, panic, keys, logons, serverKey, serverSession,
                     nonces, garbled, foreign>>
  BY DEF Connect, idVars, beatVars, SessionInv, TypeOK
<1>2. queue = <<>> /\ ciph = Nil /\ serverKey = Nil /\ serverSession = Nil
  BY <1>1 DEF SessionInv, LinkInv
<1>3. TypeOK'
  <2>1. events' \in Seq(EventTypes) /\ Len(events') <= EventCap
    <3>1. /\ <<"Connected">> \in Seq(EventTypes) /\ Len(<<"Connected">>) = 1
          /\ <<>> \in Seq(EventTypes) /\ Len(<<>>) = 0
      BY DEF EventTypes
    <3> QED
      BY <1>1, <3>1, CapacitiesAssumption
  <2>2. conns' \in 0..MaxConns /\ conn' \in Conns /\ notices' \in 0..MaxNotices
    BY <1>1, SizesAssumption DEF Conns
  <2> QED
    BY <1>1, <2>1, <2>2 DEF SessionInv, TypeOK, Stages, ReaderLabels
<1>4. conn' # Nil
  BY <1>1 DEF Nil
<1>5. LinkInv'
  BY <1>1, <1>4 DEF LinkInv
<1>6. CountInv'
  BY <1>1 DEF SessionInv, CountInv, TypeOK
<1>7. ReaderInv'
  BY <1>1 DEF ReaderInv
<1>8. KeyInv'
  BY <1>1, <1>2 DEF KeyInv, Secured
<1>9. LogOnInv'
  <2>1. ~Queued("Logon")'
    BY <1>1, <1>2 DEF Queued
  <2>2. Waiting("Connected")' => stage' = "secure"
    BY <1>1 DEF Waiting
  <2>3. \A j, k \in DOMAIN events' : j = k
    BY <1>1
  <2>4. \A j, k \in DOMAIN queue' : j = k
    BY <1>1, <1>2
  <2> QED
    BY <1>1, <2>1, <2>2, <2>3, <2>4 DEF LogOnInv
<1>10. OwnInv'
  <2>1. ~Waiting("LoggedOn")'
    BY <1>1 DEF Waiting
  <2> QED
    BY <1>1, <1>2, <2>1 DEF OwnInv
<1>11. BeatInv'
  BY <1>1 DEF SessionInv, BeatInv
<1> QED
  BY <1>1, <1>3, <1>5, <1>6, <1>7, <1>8, <1>9, <1>10, <1>11 DEF SessionInv, AllReadable, OwnSession

\* The application polls an event: it may learn that it is connected or logged on, and the
\* event is gone.
LEMMA PollStep ==
  ASSUME SessionInv, Poll
  PROVE  SessionInv'
<1>1. /\ events # <<>> /\ events' = Tail(events)
      /\ app' = IF Head(events) = "Connected" THEN "connected"
                ELSE IF Head(events) = "LoggedOn" THEN "loggedOn"
                ELSE IF Head(events) = "Disconnected" THEN "off" ELSE app
      /\ UNCHANGED <<conn, tempSessionKey, ciph, queue, sessionId, steamId, webLoginKey, reader,
                     heartbeat, ticking, beat, lchan, panic, conns, keys, logons, notices, stage,
                     serverKey, serverSession, nonces, garbled, foreign>>
  BY DEF Poll, linkVars, idVars, beatVars, countVars, serverVars
<1>2. events \in Seq(EventTypes) /\ Len(events) <= EventCap /\ EventCap \in Nat
  BY CapacitiesAssumption DEF SessionInv, TypeOK
<1>3. /\ events' \in Seq(EventTypes) /\ Len(events) \in Nat \ {0} /\ Head(events) = events[1]
      /\ DOMAIN events = 1..Len(events) /\ Len(events') = Len(events) - 1
      /\ \A k \in DOMAIN events' : k \in 1..Len(events) - 1 /\ events'[k] = events[k + 1]
  BY <1>1, <1>2, TailFacts
<1>4. webTold' \in BOOLEAN
  BY DEF Poll
<1>5. TypeOK'
  <2>1. Len(events') <= EventCap
    BY <1>2, <1>3
  <2> QED
    BY <1>1, <1>3, <1>4, <2>1 DEF SessionInv, TypeOK
<1>6. LinkInv' /\ CountInv' /\ ReaderInv' /\ BeatInv'
  BY <1>1 DEF SessionInv, LinkInv, CountInv, ReaderInv, BeatInv
<1>7. KeyInv'
  BY <1>1 DEF SessionInv, KeyInv, Secured
<1>8. /\ \A t : Waiting(t)' => Waiting(t)
      /\ Waiting(Head(events))
  BY <1>3 DEF Waiting
<1>9. Queued("Logon")' <=> Queued("Logon")
  BY <1>1 DEF Queued
<1>10. LogOnInv'
  <2> SUFFICES ASSUME conn # Nil PROVE LogOnInv'
    BY <1>1 DEF LogOnInv
  <2>1. Head(events) = "Connected" => ~Waiting("Connected")'
    <3> SUFFICES ASSUME events[1] = "Connected", NEW k \in DOMAIN events', events'[k] = "Connected"
                 PROVE FALSE
      BY <1>3 DEF Waiting
    <3>1. k + 1 \in DOMAIN events /\ events[k + 1] = "Connected" /\ 1 \in DOMAIN events /\ k + 1 # 1
      BY <1>3
    <3> QED
      BY <3>1 DEF SessionInv, LogOnInv
  <2>2. \A j, k \in DOMAIN events' : events'[j] = "Connected" /\ events'[k] = "Connected" => j = k
    <3> SUFFICES ASSUME NEW j \in DOMAIN events', NEW k \in DOMAIN events',
                        events'[j] = "Connected", events'[k] = "Connected"
                 PROVE  j = k
      OBVIOUS
    <3>1. j + 1 \in DOMAIN events /\ k + 1 \in DOMAIN events /\ j \in Int /\ k \in Int
          /\ events[j + 1] = "Connected" /\ events[k + 1] = "Connected"
      BY <1>3
    <3>2. j + 1 = k + 1
      BY <3>1 DEF SessionInv, LogOnInv
    <3> QED
      BY <3>1, <3>2
  <2>3. app' = "connected" => app = "connected" \/ Head(events) = "Connected"
    BY <1>1
  <2> QED
    BY <1>1, <1>8, <1>9, <2>1, <2>2, <2>3 DEF SessionInv, LogOnInv
<1>11. OwnInv'
  <2>1. app' = "loggedOn" => app = "loggedOn" \/ Waiting("LoggedOn")
    BY <1>1, <1>8
  <2> QED
    BY <1>1, <1>8, <2>1 DEF SessionInv, OwnInv
<1> QED
  BY <1>1, <1>5, <1>6, <1>7, <1>10, <1>11 DEF SessionInv, AllReadable, OwnSession

\* A frame is written that is neither the answer to an EncryptRequest nor a logon: the keys
\* stay, and it is the session's own if it is the application's.
LEMMA SendKeeps ==
  ASSUME SessionInv, NEW f \in Frames, Write(f), f.kind \notin {"EncryptResponse", "Logon"},
         conn # Nil /\ f.kind \in {"Data", "Reply"} => stage = "on",
         conn # Nil /\ f.kind = "Data" => f.session = serverSession /\ f.id = "account",
         UNCHANGED <<conn, stage, ciph, serverKey, serverSession, tempSessionKey, sessionId, steamId,
                     logons, app>>,
         reader' = reader \/ (reader \in {"notice", "webKey"} /\ reader' \in {"read", "webKey"}),
         \A t \in {"Connected", "LoggedOn"} : Waiting(t)' => Waiting(t),
         \A j, k \in DOMAIN events' : events'[j] = "Connected" /\ events'[k] = "Connected" => j = k
  PROVE  KeyInv' /\ LogOnInv' /\ OwnInv'
<1> SUFFICES ASSUME conn # Nil PROVE KeyInv' /\ LogOnInv' /\ OwnInv'
  BY DEF KeyInv, LogOnInv, OwnInv
<1>1. /\ Len(queue) \in Nat /\ DOMAIN queue = 1..Len(queue)
      /\ DOMAIN queue' = 1..Len(queue) + 1
      /\ \A k \in DOMAIN queue : queue'[k] = queue[k]
      /\ queue'[Len(queue) + 1] = f
  BY WriteFacts DEF SessionInv
<1>2. \A k \in DOMAIN queue' :
        queue'[k].kind \in {"EncryptResponse", "Logon"} => k \in DOMAIN queue /\ queue'[k] = queue[k]
  BY <1>1
<1>3. KeyInv'
  <2>1. ASSUME NEW k \in DOMAIN queue', queue'[k].kind = "EncryptResponse"
        PROVE  /\ stage' = "asked" /\ reader' \notin {"request", "badUniverse"}
               /\ queue'[k].key = tempSessionKey'
               /\ \A j \in DOMAIN queue' : queue'[j].kind = "EncryptResponse" => j = k
    BY <1>2, <2>1 DEF SessionInv, KeyInv
  <2> QED
    BY <2>1 DEF SessionInv, KeyInv, Secured
<1>4. LogOnInv'
  <2>1. Queued("Logon")' => Queued("Logon")
    BY <1>2 DEF Queued
  <2>2. \A j, k \in DOMAIN queue' : queue'[j].kind = "Logon" /\ queue'[k].kind = "Logon" => j = k
    BY <1>2 DEF SessionInv, LogOnInv
  <2> QED
    BY <2>1, <2>2 DEF SessionInv, LogOnInv
<1>5. OwnInv'
  <2>1. ASSUME NEW k \in DOMAIN queue'
        PROVE  /\ queue'[k].kind \in {"Data", "Reply"} => stage' = "on"
               /\ queue'[k].kind = "Data" =>
                    queue'[k].session = serverSession' /\ queue'[k].id = "account"
    BY <1>1 DEF SessionInv, OwnInv
  <2> QED
    BY <2>1 DEF SessionInv, OwnInv
<1> QED
  BY <1>3, <1>4, <1>5

\* The application writes a message: it was told that it is logged on.
LEMMA WriteDataStep ==
  ASSUME SessionInv, WriteData
  PROVE  SessionInv'
<1> DEFINE f == Stamped("Data", steamId)
<1>1. /\ app = "loggedOn" /\ Write(f)
      /\ UNCHANGED <<conn, tempSessionKey, ciph, sessionId, steamId, webLoginKey, events, reader,
                     heartbeat, ticking, beat, lchan, app, webTold, panic, conns, keys, logons,
                     notices, stage, serverKey, serverSession, nonces, garbled, foreign>>
  BY DEF WriteData, idVars, beatVars, countVars, serverVars
<1>2. f \in Frames
  BY StampTypes DEF SessionInv, TypeOK
<1>3. f.kind = "Data" /\ f.session = sessionId /\ f.id = steamId
  BY DEF Stamped
<1> HIDE DEF f
<1>4. queue' \in Seq(Frames) /\ Len(queue') <= WriteCap /\ (conn = Nil => queue' = queue)
  BY <1>1, <1>2, WriteFacts DEF SessionInv
<1>5. TypeOK' /\ LinkInv' /\ CountInv' /\ ReaderInv' /\ BeatInv'
  BY <1>1, <1>4 DEF SessionInv, TypeOK, LinkInv, CountInv, ReaderInv, BeatInv
<1>6. conn # Nil => stage = "on" /\ sessionId = serverSession /\ steamId = "account"
  BY <1>1 DEF SessionInv, OwnInv
<1>7. /\ \A t \in {"Connected", "LoggedOn"} : Waiting(t)' => Waiting(t)
      /\ conn # Nil =>
          \A j, k \in DOMAIN events' : events'[j] = "Connected" /\ events'[k] = "Connected" => j = k
  BY <1>1 DEF Waiting, SessionInv, LogOnInv
<1>8. KeyInv' /\ LogOnInv' /\ OwnInv'
  <2>1. CASE conn = Nil
    BY <1>1, <2>1 DEF KeyInv, LogOnInv, OwnInv
  <2>2. CASE conn # Nil
    BY <1>1, <1>2, <1>3, <1>6, <1>7, <2>2, SendKeeps
  <2> QED
    BY <2>1, <2>2
<1> QED
  BY <1>1, <1>5, <1>8 DEF SessionInv, AllReadable, OwnSession

\* LogOn: the permission passes from the application to the frame that waits.
LEMMA LogOnStep ==
  ASSUME SessionInv, NEW p \in Placeholders, LogOn(p)
  PROVE  SessionInv'
<1> DEFINE f == Stamped("Logon", p)
<1>1. /\ app = "connected" /\ app' = "loggingOn" /\ steamId' = p /\ Write(f)
      /\ UNCHANGED <<conn, tempSessionKey, ciph, sessionId, webLoginKey, events, reader,
                     heartbeat, ticking, beat, lchan, webTold, panic, conns, keys, logons,
                     notices, stage, serverKey, serverSession, nonces, garbled, foreign>>
  BY DEF LogOn, beatVars, countVars, serverVars
<1>2. f \in Frames /\ p \in Ids
  BY StampTypes DEF SessionInv, Ids
<1>3. f.kind = "Logon"
  BY DEF Stamped
<1> HIDE DEF f
<1>4. queue' \in Seq(Frames) /\ Len(queue') <= WriteCap /\ (conn = Nil => queue' = queue)
  BY <1>1, <1>2, WriteFacts DEF SessionInv
<1>5. TypeOK' /\ LinkInv' /\ CountInv' /\ ReaderInv' /\ BeatInv'
  <2>1. TypeOK'
    BY <1>1, <1>2, <1>4 DEF SessionInv, TypeOK
  <2> QED
    BY <1>1, <1>4, <2>1 DEF SessionInv, LinkInv, CountInv, ReaderInv, BeatInv
<1>6. KeyInv' /\ LogOnInv' /\ OwnInv'
  <2>1. CASE conn = Nil
    BY <1>1, <2>1 DEF KeyInv, LogOnInv, OwnInv
  <2>2. CASE conn # Nil
    <3>1. /\ Len(queue) \in Nat /\ DOMAIN queue = 1..Len(queue)
          /\ DOMAIN queue' = 1..Len(queue) + 1
          /\ \A k \in DOMAIN queue : queue'[k] = queue[k]
          /\ queue'[Len(queue) + 1] = f
      BY <1>1, <1>2, <2>2, WriteFacts DEF SessionInv
    <3>2. stage = "secure" /\ ~Queued("Logon") /\ ~Waiting("Connected")
          /\ reader \notin {"result", "connected"}
      BY <1>1, <2>2 DEF SessionInv, LogOnInv
    <3>3. Waiting("Connected")' <=> Waiting("Connected")
      BY <1>1 DEF Waiting
    <3>4. \A k \in DOMAIN queue : queue[k].kind # "Logon"
      BY <3>2 DEF Queued
    <3>5. KeyInv'
      <4>1. \A k \in DOMAIN queue : queue[k].kind # "EncryptResponse"
        BY <2>2, <3>2 DEF SessionInv, KeyInv
      <4>2. \A k \in DOMAIN queue' : queue'[k].kind # "EncryptResponse"
        BY <1>3, <3>1, <4>1
      <4> QED
        BY <1>1, <2>2, <3>2, <4>2 DEF SessionInv, KeyInv, Secured
    <3>6. LogOnInv'
      <4>1. \A j, k \in DOMAIN queue' : queue'[j].kind = "Logon" /\ queue'[k].kind = "Logon" => j = k
        BY <3>1, <3>4
      <4> QED
        BY <1>1, <2>2, <3>2, <3>3, <4>1 DEF SessionInv, LogOnInv
    <3>7. OwnInv'
      <4>1. \A k \in DOMAIN queue : queue[k].kind \notin {"Data", "Reply"}
        BY <2>2, <3>2 DEF SessionInv, OwnInv
      <4>2. \A k \in DOMAIN queue' : queue'[k].kind \notin {"Data", "Reply"}
        BY <1>3, <3>1, <4>1
      <4>3. ~Waiting("LoggedOn") /\ reader # "loggedOn"
        BY <2>2, <3>2 DEF SessionInv, OwnInv, ReaderInv
      <4>4. ~Waiting("LoggedOn")'
        BY <1>1, <4>3 DEF Waiting
      <4> QED
        BY <1>1, <2>2, <3>2, <4>2, <4>3, <4>4 DEF SessionInv, OwnInv
    <3> QED
      BY <3>5, <3>6, <3>7
  <2> QED
    BY <2>1, <2>2
<1> QED
  BY <1>1, <1>5, <1>6 DEF SessionInv, AllReadable, OwnSession

-----------------------------------------------------------------------------
(* The write loop *)

\* A frame other than a heartbeat or a nonce request is encrypted as the server expects.
LEMMA HeadReadable ==
  ASSUME SessionInv, conn # Nil, NEW k \in DOMAIN queue, queue[k] \in Frames,
         queue[k].kind \notin Strays
  PROVE  Readable(ciph)
<1>1. CASE queue[k].kind = "EncryptResponse"
  <2>1. stage = "asked" /\ ciph = Nil
    BY <1>1 DEF SessionInv, KeyInv
  <2> QED
    BY <2>1 DEF Readable, Secured
<1>2. CASE queue[k].kind = "Logon"
  <2>1. Queued("Logon")
    BY <1>2 DEF Queued
  <2>2. stage = "secure" /\ reader # "result"
    BY <2>1 DEF SessionInv, LogOnInv
  <2> QED
    BY <2>2 DEF SessionInv, KeyInv, Readable, Secured
<1>3. CASE queue[k].kind \in {"Data", "Reply"}
  <2>1. stage = "on"
    BY <1>3 DEF SessionInv, OwnInv
  <2>2. reader # "result"
    BY <2>1 DEF SessionInv, ReaderInv
  <2> QED
    BY <2>1, <2>2 DEF SessionInv, KeyInv, Readable, Secured
<1> QED
  BY <1>1, <1>2, <1>3 DEF Frames, Strays

\* The frame at the head is sent: the server can read and attribute it, and takes the key
\* or the logon.
LEMMA TransmitStep ==
  ASSUME SessionInv, Transmit
  PROVE  SessionInv'
<1> DEFINE f == Head(queue)
<1>1. /\ queue # <<>> /\ queue' = Tail(queue)
      /\ stage' = IF Readable(ciph) /\ f.kind = "EncryptResponse" /\ stage = "asked" THEN "keyed"
                  ELSE IF Readable(ciph) /\ f.kind = "Logon" /\ stage = "secure" THEN "logon"
                  ELSE stage
      /\ serverKey' = IF stage # stage' /\ stage' = "keyed" THEN f.key ELSE serverKey
      /\ garbled' = (garbled \/ (~Readable(ciph) /\ f.kind \notin Strays))
      /\ foreign' = (foreign \/ (f.kind = "Data" /\ (f.session # serverSession \/ f.id # "account")))
      /\ nonces' = IF f.kind = "Nonce" /\ Readable(ciph) THEN nonces + 1 ELSE nonces
      /\ UNCHANGED <<conn, tempSessionKey, ciph, sessionId, steamId, webLoginKey, events, reader,
                     heartbeat, ticking, beat, lchan, app, webTold, panic, conns, keys, logons,
                     notices, serverSession>>
  BY DEF Transmit, idVars, beatVars, countVars
<1>2. conn # Nil
  BY <1>1 DEF SessionInv, LinkInv
<1>3. queue \in Seq(Frames) /\ Len(queue) <= WriteCap /\ WriteCap \in Nat
  BY CapacitiesAssumption DEF SessionInv, TypeOK
<1>4. /\ queue' \in Seq(Frames) /\ Len(queue) \in Nat \ {0} /\ f = queue[1] /\ f \in Frames
      /\ DOMAIN queue = 1..Len(queue) /\ Len(queue') = Len(queue) - 1
      /\ \A k \in DOMAIN queue' : k \in 1..Len(queue) - 1 /\ queue'[k] = queue[k + 1]
  BY <1>1, <1>3, TailFacts
<1>5. 1 \in DOMAIN queue
  BY <1>4
<1>6. f.kind \notin Strays => Readable(ciph)
  BY <1>2, <1>4, <1>5, HeadReadable
<1>7. f.kind = "Data" => f.session = serverSession /\ f.id = "account"
  BY <1>2, <1>4, <1>5 DEF SessionInv, OwnInv
<1>8. AllReadable' /\ OwnSession'
  BY <1>1, <1>6, <1>7 DEF SessionInv, AllReadable, OwnSession
<1>9. f.kind = "EncryptResponse" =>
        /\ stage = "asked" /\ f.key = tempSessionKey /\ stage' = "keyed"
        /\ \A k \in DOMAIN queue' : queue'[k].kind # "EncryptResponse"
  <2> SUFFICES ASSUME f.kind = "EncryptResponse"
               PROVE  /\ stage = "asked" /\ f.key = tempSessionKey /\ stage' = "keyed"
                      /\ \A k \in DOMAIN queue' : queue'[k].kind # "EncryptResponse"
    OBVIOUS
  <2>1. /\ stage = "asked" /\ f.key = tempSessionKey
        /\ \A j \in DOMAIN queue : queue[j].kind = "EncryptResponse" => j = 1
    BY <1>2, <1>4, <1>5 DEF SessionInv, KeyInv
  <2>2. stage' = "keyed"
    BY <1>1, <1>6, <2>1 DEF Strays
  <2>3. ASSUME NEW k \in DOMAIN queue' PROVE queue'[k].kind # "EncryptResponse"
    BY <1>4, <2>1
  <2> QED
    BY <2>1, <2>2, <2>3
<1>10. f.kind = "Logon" =>
         /\ stage = "secure" /\ stage' = "logon"
         /\ \A k \in DOMAIN queue' : queue'[k].kind # "Logon"
         /\ reader \notin {"result", "connected"} /\ ~Waiting("Connected") /\ app # "connected"
  <2> SUFFICES ASSUME f.kind = "Logon"
               PROVE  /\ stage = "secure" /\ stage' = "logon"
                      /\ \A k \in DOMAIN queue' : queue'[k].kind # "Logon"
                      /\ reader \notin {"result", "connected"} /\ ~Waiting("Connected")
                      /\ app # "connected"
    OBVIOUS
  <2>1. Queued("Logon")
    BY <1>4, <1>5 DEF Queued
  <2>2. /\ stage = "secure" /\ reader \notin {"result", "connected"} /\ ~Waiting("Connected")
        /\ app # "connected"
        /\ \A j \in DOMAIN queue : queue[j].kind = "Logon" => j = 1
    BY <1>2, <1>4, <1>5, <2>1 DEF SessionInv, LogOnInv
  <2>3. stage' = "logon"
    BY <1>1, <1>6, <2>2 DEF Strays
  <2>4. ASSUME NEW k \in DOMAIN queue' PROVE queue'[k].kind # "Logon"
    BY <1>4, <2>2
  <2> QED
    BY <2>2, <2>3, <2>4
<1>11. f.kind \notin {"EncryptResponse", "Logon"} => stage' = stage /\ serverKey' = serverKey
  BY <1>1
<1>12. f.kind # "EncryptResponse" => serverKey' = serverKey
  BY <1>1, <1>10, <1>11
<1>13. f.key \in Keys \cup {Nil} /\ f.kind = "EncryptResponse" => serverKey' = tempSessionKey
  BY <1>1, <1>9
<1> HIDE DEF f
<1>14. TypeOK'
  <2>1. Len(queue') <= WriteCap
    BY <1>3, <1>4
  <2>2. nonces' \in Nat
    BY <1>1 DEF SessionInv, TypeOK
  <2>3. garbled' \in BOOLEAN /\ foreign' \in BOOLEAN
    BY <1>1
  <2>4. stage' \in Stages
    BY <1>1 DEF SessionInv, TypeOK, Stages
  <2>5. serverKey' \in Keys \cup {Nil}
    <3>1. f.key \in Keys \cup {Nil}
      BY <1>4 DEF Frames
    <3> QED
      BY <1>1, <3>1 DEF SessionInv, TypeOK
  <2> QED
    BY <1>1, <1>4, <2>1, <2>2, <2>3, <2>4, <2>5 DEF SessionInv, TypeOK
<1>15. LinkInv'
  BY <1>1, <1>2 DEF SessionInv, LinkInv
<1>16. CountInv'
  BY <1>1, <1>2, <1>9, <1>10, <1>11 DEF SessionInv, CountInv
<1>17. ReaderInv'
  <2>1. CASE f.kind = "EncryptResponse"
    <3>1. stage = "asked" /\ stage' = "keyed" /\ reader \notin {"request", "badUniverse"}
      BY <1>2, <1>4, <1>5, <1>9, <2>1 DEF SessionInv, KeyInv
    <3> QED
      BY <1>1, <1>2, <3>1 DEF SessionInv, ReaderInv
  <2>2. CASE f.kind = "Logon"
    BY <1>1, <1>2, <1>10, <2>2 DEF SessionInv, ReaderInv
  <2>3. CASE f.kind \notin {"EncryptResponse", "Logon"}
    BY <1>1, <1>2, <1>11, <2>3 DEF SessionInv, ReaderInv
  <2> QED
    BY <2>1, <2>2, <2>3
<1>18. KeyInv'
  <2>1. CASE f.kind = "EncryptResponse"
    <3>1. f.key \in Keys \cup {Nil}
      BY <1>4 DEF Frames
    <3>2. reader # "result"
      BY <1>2, <1>9, <2>1 DEF SessionInv, ReaderInv
    <3> QED
      BY <1>1, <1>2, <1>9, <1>13, <2>1, <3>1, <3>2 DEF SessionInv, KeyInv, Secured
  <2>2. CASE f.kind # "EncryptResponse"
    <3>1. ASSUME NEW k \in DOMAIN queue', queue'[k].kind = "EncryptResponse"
          PROVE  /\ stage' = "asked" /\ reader' \notin {"request", "badUniverse"}
                 /\ queue'[k].key = tempSessionKey'
                 /\ \A j \in DOMAIN queue' : queue'[j].kind = "EncryptResponse" => j = k
      <4>1. k + 1 \in DOMAIN queue /\ queue[k + 1] = queue'[k] /\ k \in Int
        BY <1>4
      <4>2. /\ stage = "asked" /\ reader \notin {"request", "badUniverse"}
            /\ queue[k + 1].key = tempSessionKey
            /\ \A j \in DOMAIN queue : queue[j].kind = "EncryptResponse" => j = k + 1
        BY <1>2, <3>1, <4>1 DEF SessionInv, KeyInv
      <4>3. stage' = "asked"
        BY <1>10, <1>11, <2>2, <4>2
      <4>4. ASSUME NEW j \in DOMAIN queue', queue'[j].kind = "EncryptResponse" PROVE j = k
        <5>1. j + 1 \in DOMAIN queue /\ queue[j + 1] = queue'[j] /\ j \in Int
          BY <1>4
        <5>2. j + 1 = k + 1
          BY <4>2, <4>4, <5>1
        <5> QED
          BY <4>1, <5>1, <5>2
      <4> QED
        BY <1>1, <4>1, <4>2, <4>3, <4>4
    <3>2. /\ stage' \in {"new", "asked", "keyed"} => stage' = stage
          /\ Secured' => Secured
      BY <1>1, <2>2 DEF Secured
    <3> QED
      BY <1>1, <1>2, <1>12, <2>2, <3>1, <3>2 DEF SessionInv, KeyInv
  <2> QED
    BY <2>1, <2>2
<1>19. LogOnInv'
  <2>1. Waiting("Connected")' <=> Waiting("Connected")
    BY <1>1 DEF Waiting
  <2>2. Queued("Logon")' => Queued("Logon")
    <3> SUFFICES ASSUME NEW k \in DOMAIN queue', queue'[k].kind = "Logon" PROVE Queued("Logon")
      BY DEF Queued
    <3>1. k + 1 \in DOMAIN queue /\ queue[k + 1].kind = "Logon"
      BY <1>4
    <3> QED
      BY <3>1 DEF Queued
  <2>3. \A j, k \in DOMAIN queue' : queue'[j].kind = "Logon" /\ queue'[k].kind = "Logon" => j = k
    <3> SUFFICES ASSUME NEW j \in DOMAIN queue', NEW k \in DOMAIN queue',
                        queue'[j].kind = "Logon", queue'[k].kind = "Logon"
                 PROVE  j = k
      OBVIOUS
    <3>1. /\ j + 1 \in DOMAIN queue /\ queue[j + 1].kind = "Logon" /\ j \in Int
          /\ k + 1 \in DOMAIN queue /\ queue[k + 1].kind = "Logon" /\ k \in Int
      BY <1>4
    <3>2. j + 1 = k + 1
      BY <1>2, <3>1 DEF SessionInv, LogOnInv
    <3> QED
      BY <3>1, <3>2
  <2>4. CASE f.kind = "Logon"
    <3>1. ~Queued("Logon")'
      BY <1>10, <2>4 DEF Queued
    <3> QED
      BY <1>1, <1>2, <1>10, <2>1, <2>3, <2>4, <3>1 DEF SessionInv, LogOnInv
  <2>5. CASE f.kind # "Logon"
    <3>1. stage = "secure" => stage' = "secure"
      BY <1>1, <2>5
    <3> QED
      BY <1>1, <1>2, <2>1, <2>2, <2>3, <3>1 DEF SessionInv, LogOnInv
  <2> QED
    BY <2>4, <2>5
<1>20. OwnInv'
  <2>1. stage = "on" => stage' = "on"
    BY <1>1
  <2>2. ASSUME NEW k \in DOMAIN queue'
        PROVE  /\ queue'[k].kind \in {"Data", "Reply"} => stage' = "on"
               /\ queue'[k].kind = "Data" =>
                    queue'[k].session = serverSession' /\ queue'[k].id = "account"
    <3>1. k + 1 \in DOMAIN queue /\ queue[k + 1] = queue'[k]
      BY <1>4
    <3> QED
      BY <1>1, <1>2, <2>1, <3>1 DEF SessionInv, OwnInv
  <2>3. Waiting("LoggedOn")' <=> Waiting("LoggedOn")
    BY <1>1 DEF Waiting
  <2> QED
    BY <1>1, <1>2, <2>1, <2>2, <2>3 DEF SessionInv, OwnInv
<1>21. BeatInv'
  <2>1. stage' = "on" => stage = "on"
    BY <1>1
  <2> QED
    BY <1>1, <2>1 DEF SessionInv, BeatInv
<1> QED
  BY <1>8, <1>14, <1>15, <1>16, <1>17, <1>18, <1>19, <1>20, <1>21 DEF SessionInv

-----------------------------------------------------------------------------
(* The read loop *)

\* The events that wait after an Emit; ConnectedEvent is alone if it was not there.
LEMMA EmitWaits ==
  ASSUME TypeOK, NEW t \in EventTypes, Emit(<<t>>)
  PROVE  /\ \A u : Waiting(u)' <=> Waiting(u) \/ u = t
         /\ (t # "Connected" \/ ~Waiting("Connected"))
            /\ (\A j, k \in DOMAIN events : events[j] = "Connected" /\ events[k] = "Connected" => j = k)
            => \A j, k \in DOMAIN events' :
                 events'[j] = "Connected" /\ events'[k] = "Connected" => j = k
<1>1. /\ Len(events) \in Nat /\ DOMAIN events = 1..Len(events)
      /\ DOMAIN events' = 1..Len(events) + 1
      /\ \A k \in DOMAIN events : events'[k] = events[k]
      /\ events'[Len(events) + 1] = t
  BY EmitFacts
<1>2. \A u : Waiting(u)' <=> Waiting(u) \/ u = t
  <2> TAKE u
  <2>1. Waiting(u) => Waiting(u)'
    BY <1>1 DEF Waiting
  <2>2. u = t => Waiting(u)'
    BY <1>1 DEF Waiting
  <2>3. Waiting(u)' => Waiting(u) \/ u = t
    BY <1>1 DEF Waiting
  <2> QED
    BY <2>1, <2>2, <2>3
<1> QED
  BY <1>1, <1>2 DEF Waiting

\* A packet is read: the server goes on to its next stage.
LEMMA ReadPacketStep ==
  ASSUME SessionInv, ReadPacket
  PROVE  SessionInv'
<1>1. /\ reader = "read" /\ conn # Nil
      /\ serverSession' = IF reader' = "response" THEN logons + 1 ELSE serverSession
      /\ UNCHANGED <<conn, tempSessionKey, ciph, queue, sessionId, steamId, webLoginKey, events,
                     heartbeat, ticking, beat, lchan, app, webTold, panic, conns, keys, logons,
                     serverKey, nonces, garbled, foreign>>
  BY DEF ReadPacket, linkVars, idVars, beatVars
<1>2. \/ stage = "new" /\ stage' = "asked" /\ reader' \in {"request", "badUniverse"}
      \/ stage = "keyed" /\ stage' = "secure" /\ reader' = "result"
      \/ stage = "keyed" /\ stage' = "refused" /\ reader' = "badResult"
      \/ stage = "logon" /\ stage' = "on" /\ reader' = "response"
      \/ stage = "logon" /\ stage' = "over" /\ reader' = "silent"
      \/ stage = "logon" /\ stage' = "refused" /\ reader' \in {"denied", "nonProto"}
      \/ stage = "on" /\ stage' = "on" /\ reader' = "notice"
  BY DEF ReadPacket, Goto
<1>3. notices' \in 0..MaxNotices
  <2>1. notices \in 0..MaxNotices
    BY DEF SessionInv, TypeOK
  <2>2. notices' = notices \/ (notices < MaxNotices /\ notices' = notices + 1)
    BY DEF ReadPacket
  <2> QED
    BY <2>1, <2>2, SizesAssumption
<1>4. CountInv'
  BY <1>1, <1>2 DEF SessionInv, CountInv
<1>5. TypeOK'
  <2>1. serverSession' \in Sessions \cup {Nil}
    <3>1. {conns, logons} \subseteq 0..MaxConns /\ serverSession \in Sessions \cup {Nil}
      BY DEF SessionInv, TypeOK
    <3>2. reader' = "response" => logons < conns
      BY <1>2 DEF SessionInv, CountInv
    <3> QED
      BY <1>1, <3>1, <3>2, SizesAssumption DEF Sessions
  <2>2. stage' \in Stages /\ reader' \in ReaderLabels
    BY <1>2 DEF Stages, ReaderLabels
  <2> QED
    BY <1>1, <1>3, <2>1, <2>2 DEF SessionInv, TypeOK
<1>6. LinkInv' /\ ReaderInv'
  BY <1>1, <1>2 DEF SessionInv, LinkInv, ReaderInv
<1>7. Waiting("Connected")' = Waiting("Connected") /\ Waiting("LoggedOn")' = Waiting("LoggedOn")
      /\ Queued("Logon")' = Queued("Logon")
  BY <1>1 DEF Waiting, Queued
<1>8. KeyInv'
  <2>1. \A k \in DOMAIN queue : queue[k].kind # "EncryptResponse"
    BY <1>1, <1>2 DEF SessionInv, KeyInv
  <2>2. CASE stage = "keyed"
    BY <1>1, <1>2, <2>1, <2>2 DEF SessionInv, KeyInv, Secured
  <2>3. CASE stage = "new"
    BY <1>1, <1>2, <2>1, <2>3 DEF SessionInv, KeyInv, Secured
  <2>4. CASE stage \in {"logon", "on"}
    BY <1>1, <1>2, <2>1, <2>4 DEF SessionInv, KeyInv, Secured
  <2> QED
    BY <1>2, <2>2, <2>3, <2>4
<1>9. LogOnInv'
  <2>1. ~Waiting("Connected") /\ app # "connected" /\ ~Queued("Logon")
    BY <1>1, <1>2 DEF SessionInv, LogOnInv
  <2> QED
    BY <1>1, <1>7, <2>1 DEF SessionInv, LogOnInv
<1>10. OwnInv'
  <2>1. CASE stage # "on"
    <3>1. /\ app # "loggedOn" /\ ~Waiting("LoggedOn") /\ reader' # "loggedOn"
          /\ \A k \in DOMAIN queue : queue[k].kind \notin {"Data", "Reply"}
      BY <1>1, <1>2, <2>1 DEF SessionInv, OwnInv
    <3> QED
      BY <1>1, <1>7, <3>1 DEF OwnInv
  <2>2. CASE stage = "on"
    BY <1>1, <1>2, <1>7, <2>2 DEF SessionInv, OwnInv
  <2> QED
    BY <2>1, <2>2
<1>11. BeatInv'
  BY <1>1, <1>2 DEF SessionInv, BeatInv
<1> QED
  BY <1>1, <1>4, <1>5, <1>6, <1>8, <1>9, <1>10, <1>11 DEF SessionInv, AllReadable, OwnSession

\* The read loop returns after the connection was closed.
LEMMA ReaderEndsStep ==
  ASSUME SessionInv, ReaderEnds
  PROVE  SessionInv'
<1>1. /\ reader = "read" /\ conn = Nil /\ reader' = "off"
      /\ UNCHANGED <<conn, tempSessionKey, ciph, queue, sessionId, steamId, webLoginKey,
                     heartbeat, ticking, beat, lchan, app, webTold, panic, conns, keys, logons,
                     notices, stage, serverKey, serverSession, nonces, garbled, foreign>>
  BY DEF ReaderEnds, Goto, linkVars, idVars, beatVars, countVars, serverVars
<1>2. events' \in Seq(EventTypes) /\ Len(events') <= EventCap
  <2>1. "Fatal" \in EventTypes
    BY DEF EventTypes
  <2> QED
    BY <2>1, EmitFacts DEF ReaderEnds, SessionInv, TypeOK
<1>3. TypeOK'
  BY <1>1, <1>2 DEF SessionInv, TypeOK, ReaderLabels
<1>4. LinkInv' /\ CountInv' /\ ReaderInv' /\ KeyInv' /\ LogOnInv' /\ OwnInv'
  BY <1>1 DEF SessionInv, LinkInv, CountInv, ReaderInv, KeyInv, LogOnInv, OwnInv
<1>5. BeatInv'
  BY <1>1 DEF SessionInv, BeatInv
<1> QED
  BY <1>1, <1>3, <1>4, <1>5 DEF SessionInv, AllReadable, OwnSession

\* A new key for the server's request: it is one more than there were, and the answer that
\* carries it is the only one.
LEMMA EncryptRequestStep ==
  ASSUME SessionInv, HandleEncryptRequest
  PROVE  SessionInv'
<1> DEFINE f == Frame("EncryptResponse", keys + 1)
<1>1. /\ reader = "request" /\ reader' = "read" /\ keys' = keys + 1 /\ tempSessionKey' = keys + 1
      /\ Write(f)
      /\ UNCHANGED <<conn, ciph, sessionId, steamId, webLoginKey, events, heartbeat, ticking, beat,
                     lchan, app, webTold, panic, conns, logons, notices, stage, serverKey,
                     serverSession, nonces, garbled, foreign>>
  BY DEF HandleEncryptRequest, Goto, idVars, beatVars, serverVars
<1>2. keys + 1 \in Keys /\ keys + 1 <= conns /\ keys + 1 \in 0..MaxConns
  <2>1. {conns, keys} \subseteq 0..MaxConns /\ keys < conns
    BY <1>1 DEF SessionInv, TypeOK, CountInv
  <2> QED
    BY <2>1, SizesAssumption DEF Keys
<1>3. f \in Frames /\ f.kind = "EncryptResponse" /\ f.key = keys + 1
  BY <1>2, FrameTypes DEF Frame
<1> HIDE DEF f
<1>4. queue' \in Seq(Frames) /\ Len(queue') <= WriteCap /\ (conn = Nil => queue' = queue)
  BY <1>1, <1>3, WriteFacts DEF SessionInv
<1>5. TypeOK'
  BY <1>1, <1>2, <1>4 DEF SessionInv, TypeOK, ReaderLabels
<1>6. CountInv'
  BY <1>1, <1>2 DEF SessionInv, CountInv, ReaderInv, LinkInv
<1>7. LinkInv' /\ ReaderInv'
  BY <1>1, <1>4 DEF SessionInv, LinkInv, ReaderInv
<1>8. KeyInv' /\ LogOnInv' /\ OwnInv'
  <2>1. CASE conn = Nil
    BY <1>1, <2>1 DEF KeyInv, LogOnInv, OwnInv
  <2>2. CASE conn # Nil
    <3>1. /\ Len(queue) \in Nat /\ DOMAIN queue = 1..Len(queue)
          /\ DOMAIN queue' = 1..Len(queue) + 1
          /\ \A k \in DOMAIN queue : queue'[k] = queue[k]
          /\ queue'[Len(queue) + 1] = f
      BY <1>1, <1>3, <2>2, WriteFacts DEF SessionInv
    <3>2. stage = "asked" /\ \A k \in DOMAIN queue : queue[k].kind # "EncryptResponse"
      BY <1>1, <2>2 DEF SessionInv, ReaderInv, KeyInv
    <3>3. \A k \in DOMAIN queue' : queue'[k].kind = "EncryptResponse" <=> k = Len(queue) + 1
      BY <1>3, <3>1, <3>2
    <3>4. KeyInv'
      <4>1. \A k \in DOMAIN queue' : queue'[k].kind = "EncryptResponse" =>
               /\ queue'[k].key = tempSessionKey'
               /\ \A j \in DOMAIN queue' : queue'[j].kind = "EncryptResponse" => j = k
        BY <1>1, <1>3, <3>1, <3>3
      <4> QED
        BY <1>1, <2>2, <3>2, <4>1 DEF SessionInv, KeyInv, Secured
    <3>5. Waiting("Connected")' = Waiting("Connected") /\ Waiting("LoggedOn")' = Waiting("LoggedOn")
      BY <1>1 DEF Waiting
    <3>6. \A k \in DOMAIN queue' : queue'[k].kind # "EncryptResponse" =>
                                     k \in DOMAIN queue /\ queue'[k] = queue[k]
      BY <3>1, <3>3
    <3>7. LogOnInv'
      <4>1. ~Queued("Logon") /\ ~Waiting("Connected") /\ app # "connected"
        BY <2>2, <3>2 DEF SessionInv, LogOnInv
      <4>2. \A k \in DOMAIN queue' : queue'[k].kind # "Logon"
        BY <3>6, <4>1 DEF Queued
      <4> QED
        BY <1>1, <2>2, <3>5, <4>1, <4>2 DEF SessionInv, LogOnInv, Queued
    <3>8. OwnInv'
      <4>1. \A k \in DOMAIN queue : queue[k].kind \notin {"Data", "Reply"}
        BY <2>2, <3>2 DEF SessionInv, OwnInv
      <4>2. \A k \in DOMAIN queue' : queue'[k].kind \notin {"Data", "Reply"}
        BY <3>6, <4>1
      <4> QED
        BY <1>1, <2>2, <3>5, <4>2 DEF SessionInv, OwnInv
    <3> QED
      BY <3>4, <3>7, <3>8
  <2> QED
    BY <2>1, <2>2
<1>9. BeatInv'
  BY <1>1 DEF SessionInv, BeatInv
<1> QED
  BY <1>1, <1>5, <1>6, <1>7, <1>8, <1>9 DEF SessionInv, AllReadable, OwnSession

\* The result of the encryption: from now on the cipher has the server's key.
LEMMA EncryptResultStep ==
  ASSUME SessionInv, HandleEncryptResult
  PROVE  SessionInv'
<1>1. /\ reader = "result"
      /\ UNCHANGED <<conn, queue, sessionId, steamId, webLoginKey, events, heartbeat, ticking,
                     beat, lchan, app, webTold, conns, keys, logons, notices, stage, serverKey,
                     serverSession, nonces, garbled, foreign>>
  BY DEF HandleEncryptResult, idVars, beatVars, countVars, serverVars
<1>2. \/ /\ conn # Nil /\ ciph' = tempSessionKey /\ tempSessionKey' = Nil
         /\ reader' = "connected" /\ panic' = panic
      \/ conn = Nil /\ panic' = TRUE /\ UNCHANGED <<ciph, tempSessionKey, reader>>
  BY DEF HandleEncryptResult, SetEncryptionKey, Goto
<1>3. TypeOK'
  <2>1. panic' \in BOOLEAN
    BY <1>2 DEF SessionInv, TypeOK
  <2>2. {tempSessionKey', ciph', serverKey'} \subseteq Keys \cup {Nil}
    BY <1>1, <1>2 DEF SessionInv, TypeOK
  <2>3. reader' \in ReaderLabels
    BY <1>1, <1>2 DEF ReaderLabels
  <2> QED
    BY <1>1, <2>1, <2>2, <2>3 DEF SessionInv, TypeOK
<1>4. LinkInv' /\ CountInv' /\ ReaderInv'
  BY <1>1, <1>2 DEF SessionInv, LinkInv, CountInv, ReaderInv
<1>5. KeyInv' /\ LogOnInv' /\ OwnInv'
  <2>1. CASE conn = Nil
    BY <1>1, <2>1 DEF KeyInv, LogOnInv, OwnInv
  <2>2. CASE conn # Nil
    <3>1. stage = "secure" /\ tempSessionKey = serverKey
      BY <1>1, <2>2 DEF SessionInv, ReaderInv, KeyInv
    <3>2. \A k \in DOMAIN queue : queue[k].kind # "EncryptResponse"
      BY <2>2, <3>1 DEF SessionInv, KeyInv
    <3>3. KeyInv'
      BY <1>1, <1>2, <2>2, <3>1, <3>2 DEF KeyInv
    <3>4. /\ Waiting("Connected")' = Waiting("Connected") /\ Queued("Logon")' = Queued("Logon")
          /\ Waiting("LoggedOn")' = Waiting("LoggedOn")
      BY <1>1 DEF Waiting, Queued
    <3>5. LogOnInv'
      BY <1>1, <1>2, <2>2, <3>4 DEF SessionInv, LogOnInv
    <3>6. OwnInv'
      BY <1>1, <1>2, <2>2, <3>4 DEF SessionInv, OwnInv
    <3> QED
      BY <3>3, <3>5, <3>6
  <2> QED
    BY <2>1, <2>2
<1>6. BeatInv'
  <2>1. reader' # "response" /\ reader # "response"
    BY <1>1, <1>2
  <2> QED
    BY <1>1, <2>1 DEF SessionInv, BeatInv
<1> QED
  BY <1>1, <1>3, <1>4, <1>5, <1>6 DEF SessionInv, AllReadable, OwnSession

\* A logon succeeds: the ids of the server's session, and a heartbeatLoop of its own.
LEMMA LoggedOnStep ==
  ASSUME SessionInv, HandleLoggedOn
  PROVE  SessionInv'
<1>1. /\ reader = "response" /\ reader' = "loggedOn" /\ sessionId' = logons + 1
      /\ steamId' = "account" /\ webLoginKey' \in {TRUE, webLoginKey}
      /\ beat' = [beat EXCEPT ![logons + 1] = "stop"] /\ logons' = logons + 1
      /\ UNCHANGED <<conn, tempSessionKey, ciph, queue, events, heartbeat, ticking, lchan, app,
                     webTold, panic, conns, keys, notices, stage, serverKey, serverSession,
                     nonces, garbled, foreign>>
  BY DEF HandleLoggedOn, StoreIds, StartHeartbeat, Goto, linkVars, serverVars
<1>2. logons + 1 \in Sessions /\ logons + 1 <= conns /\ logons + 1 \in 0..MaxConns /\ logons \in Nat
  <2>1. {conns, logons} \subseteq 0..MaxConns /\ logons < conns
    BY <1>1 DEF SessionInv, TypeOK, CountInv
  <2> QED
    BY <2>1, SizesAssumption DEF Sessions
<1>3. TypeOK'
  <2>1. beat' \in [Sessions -> {"off", "stop", "new", "eval", "wait"}]
    BY <1>1 DEF SessionInv, TypeOK
  <2>2. webLoginKey' \in BOOLEAN
    BY <1>1 DEF SessionInv, TypeOK
  <2> QED
    BY <1>1, <1>2, <2>1, <2>2 DEF SessionInv, TypeOK, ReaderLabels, Ids
<1>4. LinkInv' /\ ReaderInv'
  BY <1>1 DEF SessionInv, LinkInv, ReaderInv
<1>5. CountInv'
  <2>1. stage \notin {"new", "asked", "keyed", "secure", "logon"}
    <3>1. conn # Nil => stage = "on"
      BY <1>1 DEF SessionInv, ReaderInv
    <3>2. conn = Nil => stage = "gone"
      BY DEF SessionInv, LinkInv
    <3> QED
      BY <3>1, <3>2
  <2> QED
    BY <1>1, <1>2, <2>1 DEF SessionInv, CountInv
<1>6. KeyInv' /\ LogOnInv' /\ OwnInv'
  <2>1. CASE conn = Nil
    BY <1>1, <2>1 DEF KeyInv, LogOnInv, OwnInv
  <2>2. CASE conn # Nil
    <3>1. stage = "on" /\ serverSession = logons + 1
      BY <1>1, <2>2 DEF SessionInv, ReaderInv, OwnInv
    <3>2. KeyInv'
      BY <1>1, <2>2, <3>1 DEF SessionInv, KeyInv, Secured
    <3>4. /\ Waiting("Connected")' = Waiting("Connected") /\ Queued("Logon")' = Queued("Logon")
          /\ Waiting("LoggedOn")' = Waiting("LoggedOn")
      BY <1>1 DEF Waiting, Queued
    <3>5. LogOnInv'
      BY <1>1, <2>2, <3>4 DEF SessionInv, LogOnInv
    <3>6. OwnInv'
      BY <1>1, <2>2, <3>1, <3>4 DEF SessionInv, OwnInv
    <3> QED
      BY <3>2, <3>5, <3>6
  <2> QED
    BY <2>1, <2>2
<1>7. BeatInv'
  <2>1. beat \in [Sessions -> {"off", "stop", "new", "eval", "wait"}]
        /\ heartbeat \in Sessions \cup {Nil}
    BY DEF SessionInv, TypeOK
  <2>2. beat[logons + 1] = "off"
    BY <1>2 DEF SessionInv, BeatInv
  <2>3. heartbeat # logons + 1
    BY <1>2, <2>2 DEF SessionInv, BeatInv, Nil
  <2>4. beat'[logons + 1] = "stop" /\ \A k \in Sessions : k # logons + 1 => beat'[k] = beat[k]
    BY <1>1, <1>2, <2>1
  <2>5. \A k \in Sessions : k > logons' => beat'[k] = "off"
    <3> SUFFICES ASSUME NEW k \in Sessions, k > logons + 1 PROVE beat'[k] = "off"
      BY <1>1
    <3>1. k > logons /\ k # logons + 1
      BY <1>2 DEF Sessions
    <3> QED
      BY <2>4, <3>1 DEF SessionInv, BeatInv
  <2>6. heartbeat' # Nil => beat'[heartbeat'] = "eval"
                              \/ (beat'[heartbeat'] = "wait" /\ lchan'[heartbeat'] = heartbeat')
    BY <1>1, <2>1, <2>3, <2>4 DEF SessionInv, BeatInv
  <2> QED
    BY <1>2, <2>4, <2>5, <2>6 DEF BeatInv
<1> QED
  BY <1>1, <1>3, <1>4, <1>5, <1>6, <1>7 DEF SessionInv, AllReadable, OwnSession

\* A refused logon: Disconnect, or for some results nothing.
LEMMA LogOnRefusedStep ==
  ASSUME SessionInv, HandleLogOnRefused
  PROVE  SessionInv'
<1>1. reader \in {"silent", "denied"} /\ reader' = "read" /\ app' = app
  BY DEF HandleLogOnRefused, Goto
<1>2. CASE DisconnectAfter(<<"LogOnFailed">>)
  <2>1. <<"LogOnFailed">> \in Seq(EventTypes)
    BY DEF EventTypes
  <2> QED
    BY <1>1, <1>2, <2>1, DisconnectStep
<1>3. CASE UNCHANGED <<linkVars, idVars, events, beatVars, webTold, panic, countVars, serverVars>>
  <2>1. UNCHANGED <<conn, tempSessionKey, ciph, queue, sessionId, steamId, webLoginKey, events,
                    heartbeat, ticking, beat, lchan, webTold, panic, conns, keys, logons, notices,
                    stage, serverKey, serverSession, nonces, garbled, foreign>>
    BY <1>3 DEF linkVars, idVars, beatVars, countVars, serverVars
  <2>2. TypeOK'
    BY <1>1, <2>1 DEF SessionInv, TypeOK, ReaderLabels
  <2>3. LinkInv' /\ CountInv'
    BY <1>1, <2>1 DEF SessionInv, LinkInv, CountInv
  <2>4. ReaderInv'
    <3>1. conn # Nil => stage # "new"
      BY <1>1 DEF SessionInv, ReaderInv
    <3> QED
      BY <1>1, <2>1, <3>1 DEF ReaderInv
  <2>5. KeyInv'
    BY <1>1, <2>1 DEF SessionInv, KeyInv, Secured
  <2>6. /\ Waiting("Connected")' = Waiting("Connected") /\ Queued("Logon")' = Queued("Logon")
        /\ Waiting("LoggedOn")' = Waiting("LoggedOn")
    BY <2>1 DEF Waiting, Queued
  <2>7. LogOnInv'
    BY <1>1, <2>1, <2>6 DEF SessionInv, LogOnInv
  <2>8. OwnInv'
    BY <1>1, <2>1, <2>6 DEF SessionInv, OwnInv
  <2>9. BeatInv'
    BY <1>1, <2>1 DEF SessionInv, BeatInv
  <2> QED
    BY <2>1, <2>2, <2>3, <2>4, <2>5, <2>7, <2>8, <2>9 DEF SessionInv, AllReadable, OwnSession
<1> QED
  BY <1>2, <1>3 DEF HandleLogOnRefused

\* ConnectedEvent or LoggedOnEvent is emitted: the permission and the ids pass to it.
LEMMA HandlerEmitsStep ==
  ASSUME SessionInv, HandlerEmits
  PROVE  SessionInv'
<1>1. PICK t \in {"Connected", "LoggedOn"} :
        /\ Emit(<<t>>) /\ reader = IF t = "Connected" THEN "connected" ELSE "loggedOn"
  BY DEF HandlerEmits
<1>2. /\ reader \in {"connected", "loggedOn"} /\ reader' = "read" /\ t \in EventTypes
      /\ UNCHANGED <<conn, tempSessionKey, ciph, queue, sessionId, steamId, webLoginKey,
                     heartbeat, ticking, beat, lchan, app, webTold, panic, conns, keys, logons,
                     notices, stage, serverKey, serverSession, nonces, garbled, foreign>>
  BY DEF HandlerEmits, Goto, EventTypes, linkVars, idVars, beatVars, countVars, serverVars
<1>3. events' \in Seq(EventTypes) /\ Len(events') <= EventCap
  BY <1>1, <1>2, EmitFacts DEF SessionInv
<1>4. TypeOK'
  BY <1>2, <1>3 DEF SessionInv, TypeOK, ReaderLabels
<1>5. LinkInv' /\ CountInv'
  BY <1>2 DEF SessionInv, LinkInv, CountInv
<1>6. ReaderInv'
  <2>1. conn # Nil => stage # "new"
    BY <1>2 DEF SessionInv, ReaderInv
  <2> QED
    BY <1>2, <2>1 DEF ReaderInv
<1>7. KeyInv'
  BY <1>2 DEF SessionInv, KeyInv, Secured
<1>8. \A u : Waiting(u)' <=> Waiting(u) \/ u = t
  BY <1>1, <1>2, EmitWaits DEF SessionInv
<1>9. Queued("Logon")' = Queued("Logon")
  BY <1>2 DEF Queued
<1>10. LogOnInv' /\ OwnInv'
  <2>1. CASE conn = Nil
    BY <1>2, <2>1 DEF LogOnInv, OwnInv
  <2>2. CASE conn # Nil
    <3>1. t = "Connected" => stage = "secure" /\ ~Waiting("Connected") /\ app # "connected"
                              /\ ~Queued("Logon")
      BY <1>1, <2>2 DEF SessionInv, LogOnInv, ReaderInv
    <3>2. \A j, k \in DOMAIN events' : events'[j] = "Connected" /\ events'[k] = "Connected" => j = k
      BY <1>1, <1>2, <2>2, <3>1, EmitWaits DEF SessionInv, LogOnInv
    <3>3. LogOnInv'
      BY <1>2, <1>8, <1>9, <2>2, <3>1, <3>2 DEF SessionInv, LogOnInv
    <3>4. t = "LoggedOn" => stage = "on" /\ sessionId = serverSession /\ steamId = "account"
      BY <1>1, <2>2 DEF SessionInv, OwnInv, ReaderInv
    <3>5. OwnInv'
      BY <1>2, <1>8, <2>2, <3>4 DEF SessionInv, OwnInv
    <3> QED
      BY <3>3, <3>5
  <2> QED
    BY <2>1, <2>2
<1>11. BeatInv'
  BY <1>2 DEF SessionInv, BeatInv
<1> QED
  BY <1>2, <1>4, <1>5, <1>6, <1>7, <1>10, <1>11 DEF SessionInv, AllReadable, OwnSession

\* A notice is handled: an event and perhaps an answer, which belongs to the session.
LEMMA NoticeStep ==
  ASSUME SessionInv, HandleNotice
  PROVE  SessionInv'
<1>1. /\ reader \in {"notice", "webKey"} /\ reader' \in {"read", "webKey"}
      /\ UNCHANGED <<conn, tempSessionKey, ciph, sessionId, steamId, webLoginKey, heartbeat,
                     ticking, beat, lchan, app, webTold, panic, conns, keys, logons, notices,
                     stage, serverKey, serverSession, nonces, garbled, foreign>>
  BY DEF HandleNotice, Goto, idVars, beatVars, countVars, serverVars
<1>2. PICK t \in {"Notice", "WebSessionId"} : Emit(<<t>>)
  BY DEF HandleNotice
<1>3. t \in EventTypes /\ t # "Connected" /\ t # "LoggedOn"
  BY DEF EventTypes
<1>4. events' \in Seq(EventTypes) /\ Len(events') <= EventCap
  BY <1>2, <1>3, EmitFacts DEF SessionInv
<1>5. \A u \in {"Connected", "LoggedOn"} : Waiting(u)' <=> Waiting(u)
  BY <1>2, <1>3, EmitWaits DEF SessionInv
<1>6. conn # Nil =>
        /\ \A j, k \in DOMAIN events' : events'[j] = "Connected" /\ events'[k] = "Connected" => j = k
        /\ stage = "on"
  BY <1>1, <1>2, <1>3, EmitWaits DEF SessionInv, LogOnInv, ReaderInv
<1>7. PICK f : f = Frame("Reply", Nil)
  OBVIOUS
<1>8. f \in Frames /\ f.kind = "Reply"
  BY <1>7, FrameTypes DEF Frame
<1>9. UNCHANGED queue \/ Write(f)
  BY <1>7 DEF HandleNotice
<1>10. queue' \in Seq(Frames) /\ Len(queue') <= WriteCap /\ (conn = Nil => queue' = queue)
  BY <1>8, <1>9, WriteFacts DEF SessionInv, TypeOK
<1>11. TypeOK'
  BY <1>1, <1>4, <1>10 DEF SessionInv, TypeOK, ReaderLabels
<1>12. LinkInv' /\ CountInv' /\ ReaderInv'
  <2>1. conn # Nil => stage = "on"
    BY <1>6
  <2> QED
    BY <1>1, <1>10, <2>1 DEF SessionInv, LinkInv, CountInv, ReaderInv
<1>13. KeyInv' /\ LogOnInv' /\ OwnInv'
  <2>1. CASE conn = Nil
    BY <1>1, <2>1 DEF KeyInv, LogOnInv, OwnInv
  <2>2. CASE conn # Nil /\ Write(f)
    BY <1>1, <1>5, <1>6, <1>8, <2>2, SendKeeps
  <2>3. CASE conn # Nil /\ UNCHANGED queue
    <3>1. Queued("Logon")' = Queued("Logon")
      BY <2>3 DEF Queued
    <3>2. KeyInv'
      BY <1>1, <2>3 DEF SessionInv, KeyInv, Secured
    <3>3. LogOnInv'
      BY <1>1, <1>5, <1>6, <2>3, <3>1 DEF SessionInv, LogOnInv
    <3>4. OwnInv'
      BY <1>1, <1>5, <2>3 DEF SessionInv, OwnInv
    <3> QED
      BY <3>2, <3>3, <3>4
  <2> QED
    BY <1>9, <2>1, <2>2, <2>3
<1>14. BeatInv'
  BY <1>1 DEF SessionInv, BeatInv
<1> QED
  BY <1>1, <1>11, <1>12, <1>13, <1>14 DEF SessionInv, AllReadable, OwnSession

-----------------------------------------------------------------------------
(* heartbeatLoop *)

\* A step of a heartbeatLoop that writes nothing leaves the rest of the invariant alone.
LEMMA BeatRestKept ==
  ASSUME SessionInv, UNCHANGED beatRest, BeatInv',
         heartbeat' \in Sessions \cup {Nil}, ticking' \subseteq Sessions,
         beat' \in [Sessions -> {"off", "stop", "new", "eval", "wait"}],
         lchan' \in [Sessions -> Sessions \cup {Nil}]
  PROVE  SessionInv'
<1>1. UNCHANGED <<conn, tempSessionKey, ciph, queue, sessionId, steamId, webLoginKey, events,
                  reader, app, webTold, panic, conns, keys, logons, notices, stage, serverKey,
                  serverSession, nonces, garbled, foreign>>
  BY DEF beatRest, linkVars, idVars, countVars, serverVars
<1>2. TypeOK'
  BY <1>1 DEF SessionInv, TypeOK
<1>3. LinkInv' /\ CountInv' /\ ReaderInv'
  BY <1>1 DEF SessionInv, LinkInv, CountInv, ReaderInv
<1>4. KeyInv'
  BY <1>1 DEF SessionInv, KeyInv, Secured
<1>5. LogOnInv' /\ OwnInv'
  BY <1>1 DEF SessionInv, LogOnInv, OwnInv, Waiting, Queued
<1> QED
  BY <1>1, <1>2, <1>3, <1>4, <1>5 DEF SessionInv, AllReadable, OwnSession

\* The statements of a heartbeatLoop up to its receive.
LEMMA BeatStartStep ==
  ASSUME SessionInv, NEW k \in Sessions, BeatStart(k)
  PROVE  SessionInv'
<1>1. /\ beat \in [Sessions -> {"off", "stop", "new", "eval", "wait"}]
      /\ lchan \in [Sessions -> Sessions \cup {Nil}]
      /\ heartbeat \in Sessions \cup {Nil} /\ ticking \subseteq Sessions /\ BeatInv
  BY DEF SessionInv, TypeOK
<1>2. UNCHANGED beatRest
  BY DEF BeatStart, BeatStop, BeatNew, BeatEval
<1>3. logons' = logons /\ stage' = stage /\ reader' = reader
  BY <1>2 DEF beatRest, countVars, serverVars
<1>4. beat[k] # "off" => ~(k > logons)
  BY <1>1 DEF BeatInv
<1>5. k # Nil
  BY SizesAssumption DEF Sessions, Nil
<1>6. CASE BeatStop(k)
  <2>1. /\ beat[k] = "stop" /\ beat' = [beat EXCEPT ![k] = "new"] /\ ticking' = ticking \ {heartbeat}
        /\ heartbeat' = heartbeat /\ lchan' = lchan
    BY <1>6 DEF BeatStop, BeatGoto
  <2>2. heartbeat # Nil => heartbeat # k
    BY <1>1, <2>1 DEF BeatInv
  <2>3. beat'[k] = "new" /\ \A j \in Sessions : j # k => beat'[j] = beat[j]
    BY <1>1, <2>1
  <2>4. BeatInv'
    BY <1>1, <1>3, <1>4, <2>1, <2>2, <2>3 DEF BeatInv
  <2> QED
    BY <1>1, <1>2, <2>1, <2>4, BeatRestKept
<1>7. CASE BeatNew(k)
  <2>1. /\ beat[k] = "new" /\ beat' = [beat EXCEPT ![k] = "eval"] /\ ticking' = ticking \cup {k}
        /\ heartbeat' = k /\ lchan' = lchan
    BY <1>7 DEF BeatNew, BeatGoto
  <2>2. beat'[k] = "eval" /\ \A j \in Sessions : j # k => beat'[j] = beat[j]
    BY <1>1, <2>1
  <2>3. BeatInv'
    BY <1>1, <1>3, <1>4, <2>1, <2>2 DEF BeatInv
  <2> QED
    BY <1>1, <1>2, <2>1, <2>3, BeatRestKept
<1>8. CASE BeatEval(k)
  <2>1. /\ beat[k] = "eval" /\ beat' = [beat EXCEPT ![k] = "wait"]
        /\ lchan' = [lchan EXCEPT ![k] = heartbeat] /\ heartbeat' = heartbeat /\ ticking' = ticking
    BY <1>8 DEF BeatEval, BeatGoto
  <2>2. /\ beat'[k] = "wait" /\ lchan'[k] = heartbeat
        /\ \A j \in Sessions : j # k => beat'[j] = beat[j] /\ lchan'[j] = lchan[j]
    BY <1>1, <2>1
  <2>3. BeatInv'
    <3>1. \A j \in Sessions : beat[j] \in {"stop", "new"} => beat'[j] \in {"stop", "new"}
      BY <2>1, <2>2
    <3>2. heartbeat # Nil => beat'[heartbeat] = "eval"
                               \/ (beat'[heartbeat] = "wait" /\ lchan'[heartbeat] = heartbeat)
      BY <1>1, <2>2 DEF BeatInv
    <3>3. \A j \in Sessions : j > logons => beat'[j] = "off"
      BY <1>1, <1>4, <2>1, <2>2 DEF BeatInv
    <3> QED
      BY <1>1, <1>3, <2>1, <3>1, <3>2, <3>3 DEF BeatInv
  <2> QED
    BY <1>1, <1>2, <2>1, <2>3, BeatRestKept
<1> QED
  BY <1>6, <1>7, <1>8 DEF BeatStart

\* NewTicker panics: nothing else changes.
LEMMA BeatZeroStep ==
  ASSUME SessionInv, NEW k \in Sessions, BeatZero(k)
  PROVE  SessionInv'
<1>1. /\ panic' = TRUE
      /\ UNCHANGED <<conn, tempSessionKey, ciph, queue, sessionId, steamId, webLoginKey, events,
                     reader, app, webTold, conns, keys, logons, notices, stage, serverKey,
                     serverSession, nonces, garbled, foreign, heartbeat, ticking, beat, lchan>>
  BY DEF BeatZero, linkVars, idVars, countVars, serverVars, beatVars
<1>2. TypeOK'
  BY <1>1 DEF SessionInv, TypeOK
<1>3. LinkInv' /\ CountInv' /\ ReaderInv' /\ BeatInv'
  BY <1>1 DEF SessionInv, LinkInv, CountInv, ReaderInv, BeatInv
<1>4. KeyInv'
  BY <1>1 DEF SessionInv, KeyInv, Secured
<1>5. LogOnInv' /\ OwnInv'
  BY <1>1 DEF SessionInv, LogOnInv, OwnInv, Waiting, Queued
<1> QED
  BY <1>1, <1>2, <1>3, <1>4, <1>5 DEF SessionInv, AllReadable, OwnSession

\* A goroutine that may have outlived its connection writes a heartbeat or a nonce request.
LEMMA StrayWritten ==
  ASSUME SessionInv, NEW f \in Frames, f.kind \in Strays, Write(f), BeatInv',
         UNCHANGED <<heartbeat, ticking, lchan, conn, tempSessionKey, ciph, idVars, events, reader,
                     app, webTold, panic, countVars, serverVars>>,
         beat' \in [Sessions -> {"off", "stop", "new", "eval", "wait"}]
  PROVE  SessionInv'
<1>1. UNCHANGED <<conn, tempSessionKey, ciph, sessionId, steamId, webLoginKey, events, reader, app,
                  webTold, panic, conns, keys, logons, notices, stage, serverKey, serverSession,
                  nonces, garbled, foreign, heartbeat, ticking, lchan>>
  BY DEF idVars, countVars, serverVars
<1>2. queue' \in Seq(Frames) /\ Len(queue') <= WriteCap /\ (conn = Nil => queue' = queue)
  BY WriteFacts DEF SessionInv
<1>3. TypeOK'
  BY <1>1, <1>2 DEF SessionInv, TypeOK
<1>4. LinkInv' /\ CountInv' /\ ReaderInv'
  BY <1>1, <1>2 DEF SessionInv, LinkInv, CountInv, ReaderInv
<1>5. KeyInv' /\ LogOnInv' /\ OwnInv'
  <2>1. CASE conn = Nil
    BY <1>1, <2>1 DEF KeyInv, LogOnInv, OwnInv
  <2>2. CASE conn # Nil
    <3>1. /\ \A t \in {"Connected", "LoggedOn"} : Waiting(t)' => Waiting(t)
          /\ \A j, n \in DOMAIN events' :
               events'[j] = "Connected" /\ events'[n] = "Connected" => j = n
      BY <1>1, <2>2 DEF Waiting, SessionInv, LogOnInv
    <3>2. f.kind \notin {"EncryptResponse", "Logon", "Data", "Reply"}
      BY DEF Strays
    <3> QED
      BY <1>1, <3>1, <3>2, SendKeeps
  <2> QED
    BY <2>1, <2>2
<1> QED
  BY <1>1, <1>3, <1>4, <1>5 DEF SessionInv, AllReadable, OwnSession

\* A tick: a heartbeat is written, and the loop goes back to its receive.
LEMMA BeatTickStep ==
  ASSUME SessionInv, NEW k \in Sessions, BeatTick(k)
  PROVE  SessionInv'
<1>1. /\ beat[k] = "wait" /\ beat' = [beat EXCEPT ![k] = "eval"] /\ Write(Frame("HeartBeat", Nil))
      /\ UNCHANGED <<heartbeat, ticking, lchan, conn, tempSessionKey, ciph, idVars, events, reader,
                     app, webTold, panic, countVars, serverVars>>
  BY DEF BeatTick, BeatGoto
<1>2. beat \in [Sessions -> {"off", "stop", "new", "eval", "wait"}] /\ BeatInv
  BY DEF SessionInv, TypeOK
<1>3. beat' \in [Sessions -> {"off", "stop", "new", "eval", "wait"}]
  BY <1>1, <1>2
<1>4. BeatInv'
  <2>1. logons' = logons /\ stage' = stage
    BY <1>1 DEF countVars, serverVars
  <2>2. beat'[k] = "eval" /\ \A j \in Sessions : j # k => beat'[j] = beat[j]
    BY <1>1, <1>2
  <2>3. \A j \in Sessions : beat[j] \in {"stop", "new"} => beat'[j] \in {"stop", "new"}
    BY <1>1, <2>2
  <2>4. heartbeat \in Sessions \cup {Nil}
    BY DEF SessionInv, TypeOK
  <2>5. heartbeat # Nil => beat'[heartbeat] = "eval"
                             \/ (beat'[heartbeat] = "wait" /\ lchan[heartbeat] = heartbeat)
    BY <1>2, <2>2, <2>4 DEF BeatInv
  <2>6. \A j \in Sessions : j > logons => beat'[j] = "off"
    BY <1>1, <1>2, <2>2 DEF BeatInv
  <2> QED
    BY <1>1, <1>2, <2>1, <2>3, <2>5, <2>6 DEF BeatInv
<1>5. Frame("HeartBeat", Nil) \in Frames /\ Frame("HeartBeat", Nil).kind \in Strays
  BY FrameTypes DEF Frame, Strays
<1> QED
  BY <1>1, <1>3, <1>4, <1>5, StrayWritten

-----------------------------------------------------------------------------
(* The theorems about Session *)

\* Every step of the session keeps the inductive invariant.
LEMMA SessionStep == SessionInv /\ [SessionNext]_sessionVars => SessionInv'
<1> SUFFICES ASSUME SessionInv, [SessionNext]_sessionVars PROVE SessionInv'
  OBVIOUS
<1>1. CASE UNCHANGED sessionVars
  <2>1. UNCHANGED beatRest /\ UNCHANGED <<heartbeat, ticking, beat, lchan, logons, stage, reader>>
    BY <1>1 DEF sessionVars, beatRest, beatVars, countVars, serverVars
  <2>2. BeatInv'
    BY <2>1 DEF SessionInv, BeatInv
  <2> QED
    BY <2>1, <2>2, BeatRestKept DEF SessionInv, TypeOK
<1>2. <<>> \in Seq(EventTypes) /\ <<"Fatal">> \in Seq(EventTypes)
  BY DEF EventTypes
<1>3. CASE Disconnect \/ TransmitError \/ ReadError
  <2>1. PICK es \in Seq(EventTypes) : DisconnectAfter(es)
    BY <1>2, <1>3 DEF Disconnect, TransmitError, ReadError
  <2>2. app' = app /\ reader' \in {reader, "off"}
    BY <1>3 DEF Disconnect, TransmitError, ReadError, Goto
  <2> QED
    BY <2>1, <2>2, DisconnectStep
<1>4. CASE HandleFatal
  <2>1. /\ DisconnectAfter(<<"Fatal">>) /\ app' = app
        /\ reader' = "read" \/ (reader = "badUniverse" /\ reader' = "request")
    BY <1>4 DEF HandleFatal, Goto
  <2> QED
    BY <1>2, <2>1, DisconnectStep
<1>5. CASE \/ \E t \in Transports : Connect(t)
           \/ \E p \in Placeholders : LogOn(p)
           \/ Poll \/ WriteData \/ Transmit \/ ReadPacket \/ ReaderEnds
  BY <1>5, ConnectStep, LogOnStep, PollStep, WriteDataStep, TransmitStep, ReadPacketStep,
     ReaderEndsStep
<1>6. CASE \/ HandleEncryptRequest \/ HandleEncryptResult \/ HandleLoggedOn
           \/ HandleLogOnRefused \/ HandlerEmits \/ HandleNotice
  BY <1>6, EncryptRequestStep, EncryptResultStep, LoggedOnStep, LogOnRefusedStep, HandlerEmitsStep,
     NoticeStep
<1>7. CASE \E k \in Sessions : BeatStart(k) \/ BeatZero(k) \/ BeatTick(k)
  BY <1>7, BeatStartStep, BeatZeroStep, BeatTickStep
<1> QED
  BY <1>1, <1>3, <1>4, <1>5, <1>6, <1>7 DEF SessionNext, Handle

\* SessionInv is an invariant of the session.
THEOREM SessionInvariant == SessionSpec => []SessionInv
  BY SessionInit, SessionStep, PTL DEF SessionSpec

\* The session keeps its types: no channel exceeds its capacity, and one key and one logon
\* per connection suffice (client.go:22-45, connection.go:25-32).
THEOREM SessionTypes == SessionSpec => []TypeOK
  BY SessionInvariant, PTL DEF SessionInv

\* The server can read whatever the write loop sends but stray heartbeats and nonce requests,
\* for any number of connections (client.go:349-375, connection.go:102-106).
THEOREM FramesAreReadable == SessionSpec => []AllReadable
  BY SessionInvariant, PTL DEF SessionInv

\* What the application writes carries the session and the steam id of its own logon
\* (client.go:235-238, auth.go:147, 200-201).
THEOREM DataIsOwn == SessionSpec => []OwnSession
  BY SessionInvariant, PTL DEF SessionInv

\* A loop that has come to rest waits for a ticker that runs.
LEMMA BeatKeeps == SessionInv => HeartbeatKept
<1> SUFFICES ASSUME SessionInv, stage = "on", reader = "read",
                    \A k \in Sessions : beat[k] \in {"off", "wait"}
             PROVE  \E k \in Sessions : beat[k] = "wait" /\ lchan[k] \in ticking
  BY DEF HeartbeatKept
<1>1. heartbeat \in ticking
  BY DEF SessionInv, BeatInv
<1>2. heartbeat \in Sessions /\ heartbeat # Nil
  BY <1>1, SizesAssumption DEF SessionInv, TypeOK, Sessions, Nil
<1>3. beat[heartbeat] = "wait" /\ lchan[heartbeat] = heartbeat
  BY <1>2 DEF SessionInv, BeatInv
<1> QED
  BY <1>1, <1>2, <1>3

\* A session is kept alive, however the heartbeatLoops of earlier logons interleave
\* (client.go:221-224, 298-304).
THEOREM SessionIsKept == SessionSpec => []HeartbeatKept
  BY SessionInvariant, BeatKeeps, PTL

-----------------------------------------------------------------------------
(* Web: the session below it *)

\* A step of the web logon that touches no more of the session than the nonce, the event of
\* a web logon and the key, or panics.
LEMMA WebKeeps ==
  ASSUME SessionInv,
         UNCHANGED <<linkVars, sessionId, steamId, beatVars, app, webTold, countVars, stage,
                     serverKey, serverSession, garbled, foreign>>,
         nonces' \in Nat, webLoginKey' \in BOOLEAN, panic' \in BOOLEAN,
         \/ reader' = reader
         \/ reader = "read" /\ reader' = "nonce"
         \/ reader = "nonce" /\ reader' = "read",
         UNCHANGED events \/ Emit(<<"Web">>)
  PROVE  SessionInv'
<1>1. UNCHANGED <<conn, tempSessionKey, ciph, queue, sessionId, steamId, heartbeat, ticking, beat,
                  lchan, app, webTold, conns, keys, logons, notices, stage, serverKey,
                  serverSession, garbled, foreign>>
  BY DEF linkVars, beatVars, countVars
<1>2. "Web" \in EventTypes
  BY DEF EventTypes
<1>3. events' \in Seq(EventTypes) /\ Len(events') <= EventCap
  BY <1>2, EmitFacts DEF SessionInv, TypeOK
<1>4. \A u \in {"Connected", "LoggedOn"} : Waiting(u)' <=> Waiting(u)
  <2>1. CASE UNCHANGED events
    BY <2>1 DEF Waiting
  <2>2. CASE Emit(<<"Web">>)
    BY <1>2, <2>2, EmitWaits DEF SessionInv
  <2> QED
    BY <2>1, <2>2
<1>5. conn # Nil =>
        \A j, k \in DOMAIN events' : events'[j] = "Connected" /\ events'[k] = "Connected" => j = k
  BY <1>2, EmitWaits DEF SessionInv, LogOnInv
<1>6. TypeOK'
  BY <1>1, <1>3 DEF SessionInv, TypeOK, ReaderLabels
<1>7. LinkInv' /\ CountInv' /\ ReaderInv' /\ BeatInv'
  BY <1>1 DEF SessionInv, LinkInv, CountInv, ReaderInv, BeatInv
<1>8. KeyInv'
  BY <1>1 DEF SessionInv, KeyInv, Secured
<1>9. Queued("Logon")' = Queued("Logon")
  BY <1>1 DEF Queued
<1>10. LogOnInv'
  BY <1>1, <1>4, <1>5, <1>9 DEF SessionInv, LogOnInv
<1>11. OwnInv'
  BY <1>1, <1>4 DEF SessionInv, OwnInv
<1> QED
  BY <1>1, <1>6, <1>7, <1>8, <1>10, <1>11 DEF SessionInv, AllReadable, OwnSession

\* The web logons keep the session's invariant.
LEMMA WebOnSession == SessionInv /\ [WebNext]_vars => SessionInv'
<1> SUFFICES ASSUME SessionInv, [WebNext]_vars PROVE SessionInv'
  OBVIOUS
<1>1. CASE UNCHANGED sessionVars \/ SessionNext
  BY <1>1, SessionStep
<1>2. nonces \in Nat /\ webLoginKey \in BOOLEAN /\ panic \in BOOLEAN
  BY DEF SessionInv, TypeOK
<1>3. CASE WebLogOn
  BY <1>2, <1>3, WebKeeps DEF WebLogOn, idVars, serverVars
<1>4. CASE ReadNonce
  <2>1. nonces' \in Nat
    BY <1>2, <1>4 DEF ReadNonce
  <2> QED
    BY <1>2, <1>4, <2>1, WebKeeps DEF ReadNonce, idVars
<1>5. CASE HandleNonce
  <2>1. panic' \in BOOLEAN
    BY <1>2, <1>5 DEF HandleNonce
  <2> QED
    BY <1>2, <1>5, <2>1, WebKeeps DEF HandleNonce, serverVars
<1>6. ASSUME NEW i \in Gos, WebStep(i) PROVE SessionInv'
  <2>1. CASE PostFails(i) \/ PostExpired(i)
    BY <1>1, <2>1 DEF PostFails, PostExpired
  <2>2. CASE ReportError(i) \/ PostSucceeds(i)
    BY <1>2, <2>2, WebKeeps DEF ReportError, PostSucceeds, idVars, serverVars
  <2>3. CASE AskNonce(i)
    <3>1. /\ Write(Frame("Nonce", Nil))
          /\ UNCHANGED <<heartbeat, ticking, beat, lchan, conn, tempSessionKey, ciph, idVars, events,
                         reader, app, webTold, panic, countVars, serverVars>>
      BY <2>3 DEF AskNonce, beatVars
    <3>2. Frame("Nonce", Nil) \in Frames /\ Frame("Nonce", Nil).kind \in Strays
      BY FrameTypes DEF Frame, Strays
    <3>3. BeatInv' /\ beat' \in [Sessions -> {"off", "stop", "new", "eval", "wait"}]
      BY <3>1 DEF SessionInv, TypeOK, BeatInv, countVars, serverVars
    <3> QED
      BY <3>1, <3>2, <3>3, StrayWritten
  <2> QED
    BY <1>6, <2>1, <2>2, <2>3 DEF WebStep
<1> QED
  BY <1>1, <1>3, <1>4, <1>5, <1>6 DEF WebNext, vars

-----------------------------------------------------------------------------
(* Web: one event per call *)

\* The goroutines that will report an outcome.
Posters == {i \in Gos : web[i] \notin {"off", "ask"}}

\* The types, and the balance: an outcome that was told, a goroutine that will tell one and
\* a nonce that will start one stand for a call each.
WebTypes ==
  /\ web \in [Gos -> {"off", "post1", "post2", "post3", "fail", "ask"}]
  /\ told \in Nat /\ calls \in Nat /\ relogOnNonce \in BOOLEAN
Debt == IF relogOnNonce THEN told + 1 ELSE told
WebInv == WebTypes /\ Debt + Cardinality(Posters) <= calls

\* There are finitely many goroutines.
LEMMA PostersFinite == IsFiniteSet(Posters) /\ Cardinality(Posters) \in Nat
<1>1. MaxWebLogOns + MaxExpired \in Int
  BY WebAssumption
<1>2. IsFiniteSet(Gos)
  BY <1>1, FS_Interval DEF Gos
<1>3. IsFiniteSet(Posters)
  BY <1>2, FS_Subset DEF Posters
<1> QED
  BY <1>3, FS_CardinalityType

\* A goroutine that starts to post is one more, one that stops is one less.
LEMMA PostersChange ==
  ASSUME WebTypes, NEW i \in Gos, NEW l \in {"off", "post1", "post2", "post3", "fail", "ask"},
         WebGoto(i, l)
  PROVE  /\ (i \in Posters <=> l \notin {"off", "ask"}) => Posters' = Posters
         /\ i \notin Posters /\ l \notin {"off", "ask"} =>
              Cardinality(Posters') = Cardinality(Posters) + 1
         /\ i \in Posters /\ l \in {"off", "ask"} =>
              Cardinality(Posters') = Cardinality(Posters) - 1
         /\ web' \in [Gos -> {"off", "post1", "post2", "post3", "fail", "ask"}]
<1>1. /\ web' \in [Gos -> {"off", "post1", "post2", "post3", "fail", "ask"}]
      /\ web'[i] = l /\ \A j \in Gos : j # i => web'[j] = web[j]
  BY DEF WebTypes, WebGoto
<1>2. (i \in Posters <=> l \notin {"off", "ask"}) => Posters' = Posters
  BY <1>1 DEF Posters
<1>3. i \notin Posters /\ l \notin {"off", "ask"} => Posters' = Posters \cup {i}
  BY <1>1 DEF Posters
<1>4. i \in Posters /\ l \in {"off", "ask"} => Posters' = Posters \ {i}
  BY <1>1 DEF Posters
<1>5. i \notin Posters => Cardinality(Posters \cup {i}) = Cardinality(Posters) + 1
  BY PostersFinite, FS_AddElement
<1>6. i \in Posters => Cardinality(Posters \ {i}) = Cardinality(Posters) - 1
  BY PostersFinite, FS_RemoveElement
<1> QED
  BY <1>1, <1>2, <1>3, <1>4, <1>5, <1>6

\* Every step keeps the balance.
LEMMA WebBalance == WebInv /\ [WebNext]_vars => WebInv'
<1> SUFFICES ASSUME WebInv, [WebNext]_vars PROVE WebInv'
  OBVIOUS
<1>1. /\ WebTypes /\ told \in Nat /\ calls \in Nat /\ Cardinality(Posters) \in Nat
      /\ Debt + Cardinality(Posters) <= calls
      /\ web \in [Gos -> {"off", "post1", "post2", "post3", "fail", "ask"}]
  BY PostersFinite DEF WebInv, WebTypes
<1>2. CASE UNCHANGED webVars
  BY <1>1, <1>2 DEF webVars, WebInv, WebTypes, Debt, Posters
<1>3. ASSUME Spawn
      PROVE  /\ Cardinality(Posters)' = Cardinality(Posters) + 1
             /\ web' \in [Gos -> {"off", "post1", "post2", "post3", "fail", "ask"}]
  <2>1. PICK i \in Gos : web[i] = "off" /\ WebGoto(i, "post1")
    BY <1>3 DEF Spawn
  <2>2. i \notin Posters
    BY <2>1 DEF Posters
  <2> QED
    BY <1>1, <2>1, <2>2, PostersChange
<1>4. CASE WebLogOn
  <2>1. calls' = calls + 1 /\ relogOnNonce' = relogOnNonce /\ told' = told
        /\ (Spawn \/ web' = web)
    BY <1>4 DEF WebLogOn
  <2>2. CASE Spawn
    BY <1>1, <1>3, <2>1, <2>2 DEF WebInv, WebTypes, Debt
  <2>3. CASE web' = web
    BY <1>1, <2>1, <2>3 DEF WebInv, WebTypes, Debt, Posters
  <2> QED
    BY <2>1, <2>2, <2>3
<1>5. CASE ReadNonce
  BY <1>2, <1>5 DEF ReadNonce
<1>6. CASE HandleNonce
  <2>1. calls' = calls /\ told' = told
    BY <1>6 DEF HandleNonce
  <2>2. CASE relogOnNonce' = relogOnNonce /\ web' = web
    BY <1>1, <2>1, <2>2 DEF WebInv, WebTypes, Debt, Posters
  <2>3. CASE relogOnNonce /\ relogOnNonce' = FALSE /\ Spawn
    <3>1. Debt = told + 1 /\ Debt' = told
      BY <2>1, <2>3 DEF Debt
    <3>2. WebTypes'
      BY <1>1, <1>3, <2>1, <2>3 DEF WebTypes
    <3> QED
      BY <1>1, <1>3, <2>1, <2>3, <3>1, <3>2 DEF WebInv
  <2>4. CASE relogOnNonce /\ relogOnNonce' = FALSE /\ web' = web
    <3>1. Debt = told + 1 /\ Debt' = told /\ Posters' = Posters
      BY <2>1, <2>4 DEF Debt, Posters
    <3>2. WebTypes'
      BY <1>1, <2>1, <2>4 DEF WebTypes
    <3> QED
      BY <1>1, <2>1, <3>1, <3>2 DEF WebInv
  <2> QED
    BY <1>6, <2>2, <2>3, <2>4 DEF HandleNonce, SwapNonce
<1>7. ASSUME NEW i \in Gos, WebStep(i) PROVE WebInv'
  <2>1. calls' = calls
    BY <1>7 DEF WebStep, PostFails, ReportError, PostSucceeds, PostExpired, AskNonce
  <2>2. CASE PostFails(i)
    <3>1. PICK l \in {"post2", "post3", "fail"} : WebGoto(i, l)
      BY <2>2 DEF PostFails
    <3>2. i \in Posters /\ relogOnNonce' = relogOnNonce /\ told' = told
      BY <2>2 DEF PostFails, Posters
    <3>3. Posters' = Posters
          /\ web' \in [Gos -> {"off", "post1", "post2", "post3", "fail", "ask"}]
      BY <1>1, <3>1, <3>2, PostersChange
    <3> QED
      BY <1>1, <2>1, <3>2, <3>3 DEF WebInv, WebTypes, Debt
  <2>3. CASE ReportError(i) \/ PostSucceeds(i)
    <3>1. /\ i \in Posters /\ WebGoto(i, "off") /\ told' = told + 1 /\ relogOnNonce' = relogOnNonce
      BY <2>3 DEF ReportError, PostSucceeds, Posting, Posters
    <3>2. Cardinality(Posters') = Cardinality(Posters) - 1
          /\ web' \in [Gos -> {"off", "post1", "post2", "post3", "fail", "ask"}]
      BY <1>1, <3>1, PostersChange
    <3> QED
      BY <1>1, <2>1, <3>1, <3>2 DEF WebInv, WebTypes, Debt
  <2>4. CASE PostExpired(i)
    <3>1. /\ i \in Posters /\ WebGoto(i, "ask") /\ told' = told /\ relogOnNonce' = TRUE
      BY <2>4 DEF PostExpired, Posting, Posters
    <3>2. Cardinality(Posters') = Cardinality(Posters) - 1
          /\ web' \in [Gos -> {"off", "post1", "post2", "post3", "fail", "ask"}]
      BY <1>1, <3>1, PostersChange
    <3> QED
      BY <1>1, <2>1, <3>1, <3>2 DEF WebInv, WebTypes, Debt
  <2>5. CASE AskNonce(i)
    <3>1. /\ i \notin Posters /\ WebGoto(i, "off") /\ told' = told /\ relogOnNonce' = relogOnNonce
      BY <2>5 DEF AskNonce, Posters
    <3>2. Posters' = Posters
          /\ web' \in [Gos -> {"off", "post1", "post2", "post3", "fail", "ask"}]
      BY <1>1, <3>1, PostersChange
    <3> QED
      BY <1>1, <2>1, <3>1, <3>2 DEF WebInv, WebTypes, Debt
  <2> QED
    BY <1>7, <2>2, <2>3, <2>4, <2>5 DEF WebStep
<1> QED
  BY <1>2, <1>4, <1>5, <1>6, <1>7 DEF WebNext, vars

\* Initially there is no goroutine and no call.
LEMMA WebStart == WebInit => SessionInv /\ WebInv
<1> SUFFICES ASSUME WebInit PROVE SessionInv /\ WebInv
  OBVIOUS
<1>1. SessionInv
  BY SessionInit DEF WebInit
<1>2. Posters = {}
  BY DEF WebInit, Posters
<1>3. Cardinality(Posters) = 0
  BY <1>2, FS_EmptySet
<1>4. WebTypes
  BY DEF WebInit, WebTypes
<1>5. Debt = 0 /\ calls = 0
  BY DEF WebInit, Debt
<1> QED
  BY <1>1, <1>3, <1>4, <1>5 DEF WebInv

\* Both invariants hold with the web logons on top of the session.
THEOREM WebInvariant == WebSpec => [](SessionInv /\ WebInv)
<1>1. SessionInv /\ WebInv /\ [WebNext]_vars => (SessionInv /\ WebInv)'
  BY WebOnSession, WebBalance
<1> QED
  BY <1>1, WebStart, PTL DEF WebSpec

\* Every WebLoggedOnEvent and WebLogOnErrorEvent answers a call of LogOn of its own, for any
\* number of calls, goroutines and expired keys (web.go:58-71, 92-96, 141-143).
THEOREM OneWebEventPerCall == WebSpec => []NoSpuriousWebEvent
<1>1. WebInv => NoSpuriousWebEvent
  <2> SUFFICES ASSUME WebInv
               PROVE  told + Cardinality(Posters) + (IF relogOnNonce THEN 1 ELSE 0) <= calls
    BY DEF NoSpuriousWebEvent, Posters
  <2>1. told \in Nat /\ Cardinality(Posters) \in Nat /\ Debt + Cardinality(Posters) <= calls
        /\ calls \in Nat
    BY PostersFinite DEF WebInv, WebTypes
  <2> QED
    BY <2>1 DEF Debt
<1> QED
  BY <1>1, WebInvariant, PTL

\* The web logons leave the session's promises intact: the frames are readable, the data is
\* the session's own and the session is kept alive, while goroutines of web logons write
\* nonce requests to whatever connection there is (web.go:92-96, 111-144).
THEOREM WebKeepsSession == WebSpec => [](AllReadable /\ OwnSession /\ HeartbeatKept)
<1>1. SessionInv => AllReadable /\ OwnSession /\ HeartbeatKept
  BY BeatKeeps DEF SessionInv
<1> QED
  BY <1>1, WebInvariant, PTL
=============================================================================
