------------------------------- MODULE Client -------------------------------
(***************************************************************************)
(* The goroutines of a steam.Client (client.go): application goroutines    *)
(* that call Connect, Disconnect and Write, the readLoop and the writeLoop *)
(* of every connection that was ever dialed, the heartbeatLoop of every    *)
(* logon, and the goroutine that polls Events().  They share c.conn,       *)
(* c.writeChan, c.writeBuf, c.heartbeat, the RWMutex c.mutex and the       *)
(* buffered channel c.events.                                              *)
(*                                                                         *)
(* Every statement that another goroutine can observe or be delayed by is  *)
(* a step of its own.  A panic of any goroutine ends the program.          *)
(***************************************************************************)
EXTENDS Integers, Sequences, FiniteSets

CONSTANTS
  Apps,             \* the application's goroutines
  Calls,            \* Calls[a]: the methods goroutine a calls
  Pollers,          \* the application goroutines that receive from Events()
  ExclusiveConnect, \* TRUE: no other call of the application overlaps a Connect
  Kinds,            \* what the packets that arrive make their handlers do
  WriteCap,         \* capacity of writeChan (5 in the code)
  EventCap,         \* capacity of events (3 in the code)
  MaxConns,         \* bound: connections that are ever dialed successfully
  MaxWrites,        \* bound: messages that are ever passed to Write
  MaxPackets,       \* bound: packets that are ever handled
  MaxLogOns         \* bound: successful logons (heartbeatLoop goroutines)

Conns      == 1..MaxConns
Msgs       == 1..MaxWrites
Tickers    == 1..MaxLogOns
Nil        == 0
Torn       == -1     \* a half-written interface: type word set, data word nil

\* Goroutines started by the library.
ReadLoops  == {"readLoop"} \X Conns
WriteLoops == {"writeLoop"} \X Conns
Beats      == {"heartbeatLoop"} \X Tickers
Loops      == ReadLoops \cup WriteLoops
Procs      == Apps \cup Loops \cup Beats
NoProc     == <<"nobody", 0>>

Methods == {"Connect", "ConnectToWebSocket", "Disconnect", "Write"}

ASSUME AppsAssumption     == Apps \cap (Loops \cup Beats \cup {NoProc}) = {}
ASSUME CallsAssumption    == Calls \in [Apps -> SUBSET Methods]
ASSUME PollersAssumption  == Pollers \subseteq Apps
ASSUME ModeAssumption     == ExclusiveConnect \in BOOLEAN
ASSUME CapacityAssumption == WriteCap \in Nat \ {0} /\ EventCap \in Nat \ {0}
ASSUME BoundsAssumption   == /\ MaxConns \in Nat /\ MaxWrites \in Nat
                             /\ MaxPackets \in Nat /\ MaxLogOns \in Nat

\* An event of the events channel.  The connection it is about is not part of
\* the code's event; the properties use it.
EventTypes == {"Fatal", "Disconnected", "Connected", "Packet"}
Events     == [type : EventTypes, conn : Conns \cup {Nil, Torn}]
Event(t, c) == [type |-> t, conn |-> c]

\* Control points.
ConnectLabels == {"dialTCP", "dialWS", "setConn", "setConn2", "setChan", "announce"}
LockLabels    == {"lock", "lockWait", "close", "setNil", "closeChan", "emitDisc"}
WriteLabels   == {"rlock", "check", "send"}
ReadLabels    == {"r_lock", "r_conn", "r_read", "r_packet", "r_nil", "notify", "fatal"}
DrainLabels   == {"l_lock", "l_conn", "l_chan", "l_recv", "l_serialize",
                  "l_write", "l_reset", "l_fail"}
BeatLabels    == {"b_stop", "b_new", "b_zero", "b_wait", "b_tick"}
Labels        == {"off", "idle", "done"} \cup ConnectLabels \cup LockLabels
                   \cup WriteLabels \cup ReadLabels \cup DrainLabels \cup BeatLabels
\* Where a call of Disconnect, Fatalf, Emit or Write returns to.
ReturnLabels  == {"off", "idle", "done", "dialTCP", "dialWS", "announce", "r_packet",
                  "b_wait"}

VARIABLES
  conn,       \* c.conn: a connection, Nil or Torn
  writeChan,  \* c.writeChan: the channel made for that connection, or Nil
  queue,      \* queue[g]: buffered messages of channel g
  closed,     \* closed[g]: close() was called on channel g
  sock,       \* sock[g]: the transport of connection g
  wire,       \* wire[g]: the frames written to connection g
  writeBuf,   \* c.writeBuf: the messages serialized since the last Reset
  events,     \* c.events
  heartbeat,  \* c.heartbeat: a ticker or Nil
  ticking,    \* the tickers that were started and not stopped
  writer,     \* who has called mutex.Lock and got past the other writers
  readers,    \* who holds mutex.RLock
  rwait,      \* who is blocked in mutex.RLock behind writer
  pc,         \* pc[p]: the statement goroutine p is at
  ret,        \* ret[p]: where p goes on when the call it is in returns
  lconn,      \* lconn[p]: the local variable conn
  lchan,      \* lchan[p]: the channel operand p has evaluated
  lmsg,       \* lmsg[p]: the local variable msg
  dialed, msgs, packets, logons,   \* counters for the bounds
  panic,      \* a goroutine has panicked
  accepted,   \* history: accepted[g] is what Write put into channel g
  closing,    \* history: the connection the Disconnect in progress has closed
  discon      \* history: discon[g] counts the DisconnectedEvents for g

lockVars   == <<writer, readers, rwait>>
chanVars   == <<writeChan, queue, closed, accepted>>
localVars  == <<lconn, lchan, lmsg>>
beatVars   == <<heartbeat, ticking>>
wireVars   == <<wire, writeBuf>>
countVars  == <<dialed, msgs, packets, logons>>
histVars   == <<closing, discon>>
vars == <<conn, sock, events, pc, ret, panic, histVars,
          lockVars, chanVars, localVars, beatVars, wireVars, countVars>>

ControlOK == pc \in [Procs -> Labels] /\ ret \in [Procs -> ReturnLabels]
TypeOK ==
  /\ ControlOK
  /\ conn \in Conns \cup {Nil, Torn}
  /\ writeChan \in Conns \cup {Nil}
  /\ queue \in [Conns -> Seq(Msgs)] /\ \A g \in Conns : Len(queue[g]) <= WriteCap
  /\ closed \in [Conns -> BOOLEAN]
  /\ sock \in [Conns -> {"none", "open", "closed"}]
  /\ wire \in [Conns -> Seq(Seq(Msgs))]
  /\ writeBuf \in Seq(Msgs)
  /\ events \in Seq(Events) /\ Len(events) <= EventCap
  /\ heartbeat \in Tickers \cup {Nil}
  /\ ticking \subseteq Tickers
  /\ writer \in Procs \cup {NoProc}
  /\ readers \subseteq Procs
  /\ rwait \subseteq Procs
  /\ lconn \in [Procs -> Conns \cup {Nil, Torn}]
  /\ lchan \in [Procs -> Conns \cup Tickers \cup {Nil}]
  /\ lmsg \in [Procs -> Msgs \cup {Nil}]
  /\ dialed \in 0..MaxConns
  /\ msgs \in 0..MaxWrites
  /\ packets \in 0..MaxPackets
  /\ logons \in 0..MaxLogOns
  /\ panic \in BOOLEAN
  /\ accepted \in [Conns -> Seq(Msgs)]
  /\ closing \in Conns \cup {Nil}
  /\ discon \in [Conns -> Nat]

Init ==
  /\ conn = Nil /\ writeChan = Nil
  /\ queue = [g \in Conns |-> <<>>]
  /\ closed = [g \in Conns |-> FALSE]
  /\ sock = [g \in Conns |-> "none"]
  /\ wire = [g \in Conns |-> <<>>]
  /\ writeBuf = <<>> /\ events = <<>>
  /\ heartbeat = Nil /\ ticking = {}
  /\ writer = NoProc /\ readers = {} /\ rwait = {}
  /\ pc = [p \in Procs |-> IF p \in Apps THEN "idle" ELSE "off"]
  /\ ret = [p \in Procs |-> "off"]
  /\ lconn = [p \in Procs |-> Nil]
  /\ lchan = [p \in Procs |-> Nil]
  /\ lmsg = [p \in Procs |-> Nil]
  /\ dialed = 0 /\ msgs = 0 /\ packets = 0 /\ logons = 0
  /\ panic = FALSE
  /\ accepted = [g \in Conns |-> <<>>]
  /\ closing = Nil
  /\ discon = [g \in Conns |-> 0]

-----------------------------------------------------------------------------
(* Building blocks *)

At(p, l) == pc[p] = l
Goto(p, l) == pc' = [pc EXCEPT ![p] = l]
\* Call label l, and go on at r when that call returns.
Call(p, l, r) == Goto(p, l) /\ ret' = [ret EXCEPT ![p] = r]

\* The call returns; its local variables are gone.  Only a handler's caller, readLoop,
\* still needs its own conn.
Return(p) ==
  /\ Goto(p, ret[p])
  /\ ret' = [ret EXCEPT ![p] = "off"]
  /\ lconn' = [lconn EXCEPT ![p] = IF ret[p] = "r_packet" THEN @ ELSE Nil]
  /\ lchan' = [lchan EXCEPT ![p] = Nil]
  /\ lmsg' = [lmsg EXCEPT ![p] = Nil]

\* sync.RWMutex: a writer that has announced itself holds off new readers.
RLock(p) ==
  /\ readers' = IF writer = NoProc THEN readers \cup {p} ELSE readers
  /\ rwait' = IF writer = NoProc THEN rwait ELSE rwait \cup {p}
  /\ UNCHANGED writer
RUnlock(p) ==
  /\ readers' = readers \ {p}
  /\ UNCHANGED <<writer, rwait>>
\* The readers that were blocked when the writer unlocks get in before the next writer.
Unlock(p) ==
  /\ writer' = NoProc
  /\ readers' = rwait
  /\ rwait' = {}

\* Variant for mutation: an event channel without a bound.
EmitUnbounded(e) == events' = Append(events, e)
\* c.events <- e: blocks while the channel is full.
Emit(e) ==
  /\ Len(events) < EventCap
  /\ events' = Append(events, e)

\* Write(msg) is entered with a fresh message; r is where its caller goes on.
EnterWrite(p, r) ==
  /\ msgs < MaxWrites
  /\ msgs' = msgs + 1
  /\ lmsg' = [lmsg EXCEPT ![p] = msgs + 1]
  /\ Call(p, "rlock", r)
  /\ UNCHANGED <<dialed, lconn, lchan>>

\* The statements of Disconnect that another one relies on, and variants that forget them.
ForgetTransport == UNCHANGED sock
CloseTransport == sock' = [sock EXCEPT ![conn] = "closed"]
KeepConn == UNCHANGED conn
ClearConn == conn' = Nil
ForgetChan == UNCHANGED closed
CloseWriteChan == closed' = [closed EXCEPT ![writeChan] = TRUE]

\* c.writeBuf.Reset(), and a variant that forgets it.
KeepWriteBuf == UNCHANGED writeBuf
ResetWriteBuf == writeBuf' = <<>>

Panic == panic' = TRUE

-----------------------------------------------------------------------------
(* The application calls a method *)

InConnect(a) == At(a, "dialTCP") \/ At(a, "dialWS") \/ At(a, "setConn")
                \/ At(a, "setConn2") \/ At(a, "setChan") \/ At(a, "announce")
                \/ (pc[a] \in LockLabels /\ ret[a] \in {"dialTCP", "dialWS"})

MayCall(a, method) ==
  /\ At(a, "idle") /\ method \in Calls[a]
  /\ ExclusiveConnect => \A b \in Apps : ~InConnect(b)

\* ConnectToBind and ConnectToWebSocket start with c.Disconnect().
CallConnect(a) ==
  /\ \/ MayCall(a, "Connect") /\ Call(a, "lock", "dialTCP")
     \/ MayCall(a, "ConnectToWebSocket") /\ Call(a, "lock", "dialWS")
  /\ ExclusiveConnect => \A b \in Apps : At(b, "idle")
  /\ dialed < MaxConns
  /\ UNCHANGED <<conn, sock, events, panic, histVars, lockVars, chanVars,
                 localVars, beatVars, wireVars, countVars>>

CallDisconnect(a) ==
  /\ MayCall(a, "Disconnect")
  /\ Call(a, "lock", "idle")
  /\ UNCHANGED <<conn, sock, events, panic, histVars, lockVars, chanVars,
                 localVars, beatVars, wireVars, countVars>>

CallWrite(a) ==
  /\ MayCall(a, "Write")
  /\ EnterWrite(a, "idle")
  /\ UNCHANGED <<packets, logons, conn, sock, events, panic, histVars, lockVars, chanVars,
                 beatVars, wireVars>>

\* for event := range client.Events()
Poll(a) ==
  /\ a \in Pollers /\ At(a, "idle")
  /\ events # <<>>
  /\ events' = Tail(events)
  /\ UNCHANGED <<conn, sock, pc, ret, panic, histVars, lockVars, chanVars,
                 localVars, beatVars, wireVars, countVars>>

-----------------------------------------------------------------------------
(* ConnectToBind, ConnectToWebSocket *)

\* dialTCP / dialWebSocket return a connection.
DialOk(p) ==
  /\ \/ At(p, "dialTCP") /\ Call(p, "setConn", "idle")
     \/ At(p, "dialWS") /\ Call(p, "setConn", "announce")
  /\ dialed < MaxConns
  /\ dialed' = dialed + 1
  /\ sock' = [sock EXCEPT ![dialed + 1] = "open"]
  /\ lconn' = [lconn EXCEPT ![p] = dialed + 1]
  /\ UNCHANGED <<conn, events, panic, histVars, lockVars, chanVars, lchan, lmsg,
                 beatVars, wireVars, msgs, packets, logons>>

\* Variant for mutation: dial again and again.
DialForever(p) ==
  /\ \/ At(p, "dialTCP") /\ Call(p, "fatal", "dialTCP")
     \/ At(p, "dialWS") /\ Call(p, "fatal", "dialWS")
  /\ lconn' = [lconn EXCEPT ![p] = Nil]
  /\ UNCHANGED <<conn, sock, events, panic, histVars, lockVars, chanVars,
                 lchan, lmsg, beatVars, wireVars, countVars>>
\* The dial fails: Fatalf, return.
DialFail(p) ==
  /\ At(p, "dialTCP") \/ At(p, "dialWS")
  /\ Call(p, "fatal", "idle")
  /\ lconn' = [lconn EXCEPT ![p] = Nil]
  /\ UNCHANGED <<conn, sock, events, panic, histVars, lockVars, chanVars,
                 lchan, lmsg, beatVars, wireVars, countVars>>

\* c.conn = conn, without the mutex.  An interface is stored word by word: until the
\* second store another goroutine reads a connection that is not nil and points nowhere.
SetConn(p) ==
  /\ \/ /\ At(p, "setConn") /\ conn = Nil
        /\ conn' = Torn /\ Goto(p, "setConn2")
     \/ /\ At(p, "setConn2") \/ (At(p, "setConn") /\ conn # Nil)
        /\ conn' = lconn[p] /\ Goto(p, "setChan")
  /\ UNCHANGED <<sock, events, ret, panic, histVars, lockVars, chanVars,
                 localVars, beatVars, wireVars, countVars>>

\* c.writeChan = make(...), without the mutex; go c.readLoop(); go c.writeLoop().
SetChan(p) ==
  /\ At(p, "setChan")
  /\ writeChan' = lconn[p]
  /\ pc' = [pc EXCEPT ![p] = ret[p],
                      ![<<"readLoop", lconn[p]>>] = "r_lock",
                      ![<<"writeLoop", lconn[p]>>] = "l_lock"]
  /\ ret' = [ret EXCEPT ![p] = "off"]
  /\ UNCHANGED <<conn, sock, events, panic, histVars, lockVars, queue, closed,
                 accepted, localVars, beatVars, wireVars, countVars>>

\* ConnectToWebSocket: c.Emit(&ConnectedEvent{})
Announce(p) ==
  /\ At(p, "announce")
  /\ Emit(Event("Connected", lconn[p]))
  /\ Goto(p, "idle")
  /\ UNCHANGED <<conn, sock, ret, panic, histVars, lockVars, chanVars,
                 localVars, beatVars, wireVars, countVars>>

-----------------------------------------------------------------------------
(* Fatalf, Disconnect *)

\* Variant for mutation: emit and return without Disconnect.
FatalfOnly(p) ==
  /\ At(p, "fatal")
  /\ Emit(Event("Fatal", lconn[p]))
  /\ Return(p)
  /\ UNCHANGED <<conn, sock, panic, histVars, lockVars, chanVars, beatVars, wireVars,
                 countVars>>
\* c.Emit(FatalErrorEvent(...)), then c.Disconnect().  The handler of a failed logon
\* does the same with a LogOnFailedEvent.
Fatalf(p) ==
  /\ At(p, "fatal")
  /\ Emit(Event("Fatal", lconn[p]))
  /\ Goto(p, "lock")
  /\ UNCHANGED <<conn, sock, ret, panic, histVars, lockVars, chanVars,
                 localVars, beatVars, wireVars, countVars>>

\* Variant for mutation: Disconnect without c.mutex.Lock().
LockForgotten(p) ==
  /\ At(p, "lock")
  /\ Goto(p, "lockWait")
  /\ UNCHANGED <<conn, sock, events, ret, panic, histVars, lockVars, chanVars,
                 localVars, beatVars, wireVars, countVars>>
\* c.mutex.Lock(): first past the other writers, then wait until the readers have left.
Lock(p) ==
  /\ At(p, "lock") /\ writer = NoProc
  /\ writer' = p
  /\ Goto(p, "lockWait")
  /\ UNCHANGED <<conn, sock, events, ret, panic, histVars, readers, rwait, chanVars,
                 localVars, beatVars, wireVars, countVars>>

\* The lock is held: return at once when c.conn is nil.
Locked(p) ==
  /\ At(p, "lockWait") /\ readers = {}
  /\ \/ conn = Nil /\ Unlock(p) /\ Return(p)
     \/ conn # Nil /\ Goto(p, "close") /\ UNCHANGED <<lockVars, ret, localVars>>
  /\ UNCHANGED <<conn, sock, events, panic, histVars, chanVars,
                 beatVars, wireVars, countVars>>

\* c.conn.Close()
CloseConn(p) ==
  /\ At(p, "close")
  /\ \/ conn \in Conns /\ CloseTransport
        /\ closing' = conn
        /\ Goto(p, "setNil") /\ UNCHANGED panic
     \/ conn \notin Conns /\ Panic /\ UNCHANGED <<sock, pc, closing>>
  /\ UNCHANGED <<conn, events, ret, discon, lockVars, chanVars,
                 localVars, beatVars, wireVars, countVars>>

\* c.conn = nil; stop the heartbeat ticker if there is one.
SetNil(p) ==
  /\ At(p, "setNil")
  /\ ClearConn
  /\ ticking' = ticking \ {heartbeat}
  /\ Goto(p, "closeChan")
  /\ UNCHANGED <<sock, events, ret, panic, histVars, lockVars, chanVars,
                 localVars, heartbeat, wireVars, countVars>>

\* close(c.writeChan): panics on a nil or a closed channel.
CloseChan(p) ==
  /\ At(p, "closeChan")
  /\ \/ /\ writeChan # Nil /\ ~closed[writeChan]
        /\ CloseWriteChan
        /\ Goto(p, "emitDisc") /\ UNCHANGED panic
     \/ /\ writeChan # Nil => closed[writeChan]
        /\ Panic /\ UNCHANGED <<pc, closed>>
  /\ UNCHANGED <<conn, sock, events, ret, histVars, lockVars, writeChan, queue, accepted,
                 localVars, beatVars, wireVars, countVars>>

\* c.Emit(&DisconnectedEvent{}) with the lock still held; then the deferred Unlock.
EmitDisconnected(p) ==
  /\ At(p, "emitDisc")
  /\ Emit(Event("Disconnected", closing))
  /\ discon' = [discon EXCEPT ![closing] = @ + 1]
  /\ closing' = Nil
  /\ Unlock(p)
  /\ Return(p)
  /\ UNCHANGED <<conn, sock, panic, chanVars, beatVars, wireVars, countVars>>

-----------------------------------------------------------------------------
(* Write *)

\* c.mutex.RLock()
WriteRLock(p) ==
  /\ At(p, "rlock")
  /\ RLock(p)
  /\ Goto(p, "check")
  /\ UNCHANGED <<conn, sock, events, ret, panic, histVars, chanVars,
                 localVars, beatVars, wireVars, countVars>>

\* Variant for mutation: the lock is released before the send.
WriteCheckEarly(p) ==
  /\ At(p, "check") /\ p \in readers
  /\ RUnlock(p)
  /\ \/ conn = Nil /\ Return(p)
     \/ /\ conn # Nil
        /\ lchan' = [lchan EXCEPT ![p] = writeChan]
        /\ Goto(p, "send") /\ UNCHANGED <<ret, lconn, lmsg>>
  /\ UNCHANGED <<conn, sock, events, panic, histVars, chanVars,
                 beatVars, wireVars, countVars>>
\* Ignored when c.conn is nil; otherwise the operand c.writeChan is evaluated.
WriteCheck(p) ==
  /\ At(p, "check") /\ p \in readers
  /\ \/ conn = Nil /\ RUnlock(p) /\ Return(p)
     \/ /\ conn # Nil
        /\ lchan' = [lchan EXCEPT ![p] = writeChan]
        /\ Goto(p, "send") /\ UNCHANGED <<lockVars, ret, lconn, lmsg>>
  /\ UNCHANGED <<conn, sock, events, panic, histVars, chanVars,
                 beatVars, wireVars, countVars>>

\* c.writeChan <- msg with the read lock held: blocks on a nil or full channel,
\* panics on a closed one.
Send(p) ==
  /\ At(p, "send") /\ lchan[p] # Nil
  /\ LET g == lchan[p] IN
     \/ closed[g] /\ Panic /\ UNCHANGED <<pc, ret, queue, accepted, lockVars, localVars>>
     \/ /\ ~closed[g] /\ Len(queue[g]) < WriteCap
        /\ queue' = [queue EXCEPT ![g] = Append(@, lmsg[p])]
        /\ accepted' = [accepted EXCEPT ![g] = Append(@, lmsg[p])]
        /\ RUnlock(p) /\ Return(p) /\ UNCHANGED panic
  /\ UNCHANGED <<conn, sock, events, histVars, writeChan, closed,
                 beatVars, wireVars, countVars>>

-----------------------------------------------------------------------------
(* readLoop *)

\* The loops read c.conn under the read lock, once per iteration.
LoopRLock(p) ==
  /\ \/ At(p, "r_lock") /\ Goto(p, "r_conn")
     \/ At(p, "l_lock") /\ Goto(p, "l_conn")
  /\ RLock(p)
  /\ UNCHANGED <<conn, sock, events, ret, panic, histVars, chanVars,
                 localVars, beatVars, wireVars, countVars>>

\* conn := c.conn; c.mutex.RUnlock(); return when it is nil.
LoopConn(p) ==
  /\ p \in readers
  /\ \/ At(p, "r_conn") /\ Goto(p, IF conn = Nil THEN "done" ELSE "r_read")
     \/ At(p, "l_conn") /\ Goto(p, IF conn = Nil THEN "done" ELSE "l_chan")
  /\ lconn' = [lconn EXCEPT ![p] = conn]
  /\ RUnlock(p)
  /\ UNCHANGED <<conn, sock, events, ret, panic, histVars, chanVars,
                 lchan, lmsg, beatVars, wireVars, countVars>>

\* conn.Read() on a connection that was closed locally, or never stored completely.
ReadClosed(p) ==
  /\ At(p, "r_read")
  /\ \/ lconn[p] = Torn /\ Panic /\ UNCHANGED <<pc, ret>>
     \/ /\ lconn[p] # Torn /\ sock[lconn[p]] = "closed"
        /\ Call(p, "fatal", "done") /\ UNCHANGED panic
  /\ UNCHANGED <<conn, sock, events, histVars, lockVars, chanVars,
                 localVars, beatVars, wireVars, countVars>>

\* conn.Read() fails on an open connection: the server or the network gave it up.
ReadError(p) ==
  /\ At(p, "r_read") /\ lconn[p] # Torn /\ sock[lconn[p]] = "open"
  /\ Call(p, "fatal", "done")
  /\ UNCHANGED <<conn, sock, events, panic, histVars, lockVars, chanVars,
                 localVars, beatVars, wireVars, countVars>>

\* conn.Read() returns a packet.
ReadPacket(p) ==
  /\ At(p, "r_read") /\ lconn[p] # Torn /\ sock[lconn[p]] = "open"
  /\ packets < MaxPackets
  /\ Goto(p, "r_packet")
  /\ UNCHANGED <<conn, sock, events, ret, panic, histVars, lockVars, chanVars,
                 localVars, beatVars, wireVars, countVars>>

\* handlePacket, with the packets of a Multi and all the registered handlers: what the
\* handlers do is a sequence of the effects in Kinds, in the read loop's goroutine.  One of
\* them, handleChannelEncryptResult, reads c.conn again, without the mutex, and calls a
\* method of what it finds.
HandlePacket(p) ==
  /\ At(p, "r_packet") /\ packets < MaxPackets
  /\ packets' = packets + 1
  /\ \/ /\ "event" \in Kinds                          \* a handler emits an event
        /\ Call(p, "notify", "r_packet")
        /\ UNCHANGED <<dialed, msgs, logons, localVars, panic>>
     \/ /\ "reply" \in Kinds                          \* a handler writes an answer
        /\ EnterWrite(p, "r_packet")
        /\ UNCHANGED <<logons, panic>>
     \/ /\ "fatal" \in Kinds                          \* a handler calls Fatalf and returns
        /\ Call(p, "fatal", "r_packet")
        /\ UNCHANGED <<dialed, msgs, logons, localVars, panic>>
     \/ /\ "logon" \in Kinds /\ logons < MaxLogOns    \* go heartbeatLoop, emit LoggedOn
        /\ logons' = logons + 1
        /\ pc' = [pc EXCEPT ![p] = "notify",
                            ![<<"heartbeatLoop", logons + 1>>] = "b_stop"]
        /\ ret' = [ret EXCEPT ![p] = "r_packet"]
        /\ UNCHANGED <<dialed, msgs, localVars, panic>>
     \/ /\ "result" \in Kinds                         \* c.conn.SetEncryptionKey, an event
        /\ \/ conn \in Conns /\ Call(p, "notify", "r_packet") /\ UNCHANGED panic
           \/ conn \notin Conns /\ Panic /\ Goto(p, "r_nil") /\ UNCHANGED ret
        /\ UNCHANGED <<dialed, msgs, logons, localVars>>
  /\ UNCHANGED <<conn, sock, events, histVars, lockVars, chanVars, beatVars, wireVars>>

\* handlePacket returns and the read loop starts over.
PacketDone(p) ==
  /\ At(p, "r_packet")
  /\ Goto(p, "r_lock")
  /\ lconn' = [lconn EXCEPT ![p] = Nil]
  /\ UNCHANGED <<conn, sock, events, ret, panic, histVars, lockVars, chanVars,
                 lchan, lmsg, beatVars, wireVars, countVars>>

\* A handler calls c.Emit.
Notify(p) ==
  /\ At(p, "notify")
  /\ Emit(Event("Packet", lconn[p]))
  /\ Return(p)
  /\ UNCHANGED <<conn, sock, panic, histVars, lockVars, chanVars,
                 beatVars, wireVars, countVars>>

-----------------------------------------------------------------------------
(* writeLoop *)

\* The operand c.writeChan of the receive is evaluated without the mutex.
LoopChan(p) ==
  /\ At(p, "l_chan")
  /\ lchan' = [lchan EXCEPT ![p] = writeChan]
  /\ Goto(p, "l_recv")
  /\ UNCHANGED <<conn, sock, events, ret, panic, histVars, lockVars, chanVars,
                 lconn, lmsg, beatVars, wireVars, countVars>>

\* msg, ok := <-c.writeChan: the buffered messages first, then the end of the channel.
Receive(p) ==
  /\ At(p, "l_recv") /\ lchan[p] # Nil
  /\ LET g == lchan[p] IN
     \/ /\ queue[g] # <<>>
        /\ lmsg' = [lmsg EXCEPT ![p] = Head(queue[g])]
        /\ queue' = [queue EXCEPT ![g] = Tail(@)]
        /\ Goto(p, "l_serialize")
     \/ /\ queue[g] = <<>> /\ closed[g]
        /\ Goto(p, "done") /\ UNCHANGED <<lmsg, queue>>
  /\ UNCHANGED <<conn, sock, events, ret, panic, histVars, lockVars, writeChan, closed,
                 accepted, lconn, lchan, beatVars, wireVars, countVars>>

\* msg.Serialize(c.writeBuf) appends to the buffer all writeLoops share.
Serialize(p) ==
  /\ At(p, "l_serialize")
  /\ writeBuf' = Append(writeBuf, lmsg[p])
  /\ Goto(p, "l_write")
  /\ UNCHANGED <<conn, sock, events, ret, panic, histVars, lockVars, chanVars,
                 localVars, beatVars, wire, countVars>>

\* Serialize fails: Reset, Fatalf, return.
SerializeError(p) ==
  /\ At(p, "l_serialize")
  /\ ResetWriteBuf
  /\ Call(p, "fatal", "done")
  /\ UNCHANGED <<conn, sock, events, panic, histVars, lockVars, chanVars,
                 localVars, beatVars, wire, countVars>>

\* conn.Write(c.writeBuf.Bytes()) on the connection read at the loop's start.
WriteConn(p) ==
  /\ At(p, "l_write")
  /\ \/ /\ lconn[p] = Torn /\ Panic /\ UNCHANGED <<pc, wire>>
     \/ /\ lconn[p] # Torn /\ sock[lconn[p]] = "open"
        /\ wire' = [wire EXCEPT ![lconn[p]] = Append(@, writeBuf)]
        /\ Goto(p, "l_reset") /\ UNCHANGED panic
     \/ /\ lconn[p] # Torn
        /\ Goto(p, "l_fail") /\ UNCHANGED <<panic, wire>>
  /\ UNCHANGED <<conn, sock, events, ret, histVars, lockVars, chanVars,
                 localVars, beatVars, writeBuf, countVars>>

\* c.writeBuf.Reset(); on an error Fatalf and return, otherwise the next iteration.
ResetBuf(p) ==
  /\ \/ /\ At(p, "l_reset") /\ Goto(p, "l_lock")
        /\ lconn' = [lconn EXCEPT ![p] = Nil]
        /\ UNCHANGED ret
     \/ At(p, "l_fail") /\ Call(p, "fatal", "done") /\ UNCHANGED lconn
  /\ ResetWriteBuf
  /\ lchan' = [lchan EXCEPT ![p] = Nil]
  /\ lmsg' = [lmsg EXCEPT ![p] = Nil]
  /\ UNCHANGED <<conn, sock, events, panic, histVars, lockVars, chanVars,
                 beatVars, wire, countVars>>

-----------------------------------------------------------------------------
(* heartbeatLoop *)

\* Stop the previous ticker, if any.
BeatStop(p) ==
  /\ At(p, "b_stop")
  /\ ticking' = ticking \ {heartbeat}
  /\ Goto(p, "b_new")
  /\ UNCHANGED <<conn, sock, events, ret, panic, histVars, lockVars, chanVars,
                 localVars, heartbeat, wireVars, countVars>>

\* c.heartbeat = time.NewTicker(...), which panics if the server's interval is 0.
BeatNew(p) ==
  /\ At(p, "b_new")
  /\ \/ /\ heartbeat' = p[2]
        /\ ticking' = ticking \cup {p[2]}
        /\ Goto(p, "b_wait") /\ UNCHANGED panic
     \/ Panic /\ Goto(p, "b_zero") /\ UNCHANGED beatVars
  /\ UNCHANGED <<conn, sock, events, ret, histVars, lockVars, chanVars,
                 localVars, wireVars, countVars>>

\* The operand c.heartbeat.C of the receive is evaluated, the latest ticker's channel.
BeatWait(p) ==
  /\ At(p, "b_wait")
  /\ lchan' = [lchan EXCEPT ![p] = heartbeat]
  /\ Goto(p, "b_tick")
  /\ UNCHANGED <<conn, sock, events, ret, panic, histVars, lockVars, chanVars,
                 lconn, lmsg, beatVars, wireVars, countVars>>

\* A tick: Write(ClientHeartBeat).  A stopped ticker's channel is never closed, so the
\* loop never ends.
BeatTick(p) ==
  /\ At(p, "b_tick") /\ lchan[p] \in ticking
  /\ EnterWrite(p, "b_wait")
  /\ UNCHANGED <<conn, sock, events, panic, histVars, lockVars, chanVars,
                 beatVars, wireVars, packets, logons>>

-----------------------------------------------------------------------------
(* The specification *)

\* Steps a goroutine takes by itself once it can.
ConnectStep(p)    == DialOk(p) \/ DialFail(p) \/ SetConn(p) \/ SetChan(p) \/ Announce(p)
DisconnectStep(p) == Fatalf(p) \/ Lock(p) \/ Locked(p) \/ CloseConn(p) \/ SetNil(p)
                       \/ CloseChan(p) \/ EmitDisconnected(p)
WriteStep(p)      == WriteRLock(p) \/ WriteCheck(p) \/ Send(p)
ReadStep(p)       == LoopRLock(p) \/ LoopConn(p) \/ ReadClosed(p) \/ HandlePacket(p)
                       \/ PacketDone(p) \/ Notify(p)
DrainStep(p)      == LoopChan(p) \/ Receive(p) \/ Serialize(p) \/ SerializeError(p)
                       \/ WriteConn(p) \/ ResetBuf(p)
BeatStep(p)       == BeatStop(p) \/ BeatNew(p) \/ BeatWait(p)
Step(p) == ConnectStep(p) \/ DisconnectStep(p) \/ WriteStep(p) \/ ReadStep(p)
             \/ DrainStep(p) \/ BeatStep(p)

\* Steps that need the application, the server or the clock to act.
AppCall(a) == CallConnect(a) \/ CallDisconnect(a) \/ CallWrite(a)
Outside(p) == ReadError(p) \/ ReadPacket(p) \/ BeatTick(p)

Run == /\ ~panic
       /\ \/ \E a \in Apps : AppCall(a) \/ Poll(a)
          \/ \E p \in Procs : Step(p) \/ Outside(p)

\* Nothing is left to do: the program has panicked, or the application's goroutines are
\* idle and the library's have ended or wait for the server, a message or a tick.
Resting(p) == \/ pc[p] \in {"off", "idle", "done", "r_read", "b_tick"}
              \/ At(p, "l_recv") /\ lchan[p] # Nil /\ queue[lchan[p]] = <<>>
                                 /\ ~closed[lchan[p]]
Rest == /\ panic \/ \A p \in Procs : Resting(p)
        /\ UNCHANGED vars

Next == Run \/ Rest

Spec == Init /\ [][Next]_vars

\* The steps in which goroutines compete: sync.Mutex hands the lock over to a waiter that
\* starves, and a channel serves its blocked senders in the order they came.
Competing(p) == Lock(p) \/ Send(p) \/ Fatalf(p) \/ Notify(p) \/ Announce(p)
                  \/ EmitDisconnected(p)

\* The Go scheduler runs every goroutine that can run, the dialers and the transport
\* return, and the application polls Events() as the package asks.
Fairness == /\ \A p \in Procs : WF_vars(~panic /\ Step(p))
            /\ \A p \in Procs : SF_vars(~panic /\ Competing(p))
            /\ \A a \in Pollers : WF_vars(~panic /\ Poll(a))
FairSpec == Spec /\ Fairness

-----------------------------------------------------------------------------
(* Properties *)

\* The statements of Disconnect behind c.mutex.Lock().
HeldLabels == {"close", "setNil", "closeChan", "emitDisc"}

\* Disconnect (client.go:213) has c.conn and c.writeChan for itself: while a goroutine is
\* behind Lock, no other one is, and no goroutine holds the read lock.
LockExclusion ==
  \A p \in Procs : pc[p] \in HeldLabels =>
    readers = {} /\ \A q \in Procs : pc[q] \in HeldLabels => q = p

\* Write blocks on a full channel with the read lock held (client.go:239-244): the channel
\* a goroutine is sending to is never closed while it waits, however many goroutines
\* disconnect, reconnect or fail meanwhile.
NoCloseUnderSender ==
  [][\A g \in Conns : closed'[g] /\ ~closed[g] =>
       \A p \in Procs : ~(At(p, "send") /\ lchan[p] = g)]_vars

\* However many goroutines call Disconnect for a connection that fails (the application,
\* both loops, a handler), one DisconnectedEvent is emitted for it, and only once its
\* transport is closed (client.go:212-228).
OneDisconnected ==
  \A g \in Conns : discon[g] <= 1 /\ (discon[g] = 1 => sock[g] = "closed")

\* What can panic is known: an encryption result that is handled when its own connection is
\* no longer open (client.go:372), and a heartbeat interval of 0 (client.go:302).  Whatever
\* else the application, the loops and the handlers do to one connection at a time, the
\* channel they send to is open, the one they close is open and made, and the connection
\* they use is stored (client.go:212-292).
PanicsAreKnown ==
  panic => \E p \in Procs : \/ At(p, "b_zero")
                            \/ At(p, "r_nil") /\ sock[lconn[p]] # "open"

\* The messages on their way: accepted into channel g and not yet written out.
InFlight(g) ==
  LET p == <<"writeLoop", g>> IN
  IF pc[p] \in {"l_serialize", "l_write"} THEN <<lmsg[p]>> ELSE <<>>

\* Every frame on the wire holds one message, in the order Write accepted them, and
\* until the writeLoop gives up nothing is lost: what Write accepted is on the wire, in
\* the writeLoop's hands or queued (client.go:244, 275-289).
Conserved ==
  \A g \in Conns :
    /\ \A i \in DOMAIN wire[g] : wire[g][i] = <<accepted[g][i]>>
    /\ pc[<<"writeLoop", g>>] \in DrainLabels \ {"l_fail"} =>
         accepted[g] = [i \in DOMAIN wire[g] |-> wire[g][i][1]] \o InFlight(g) \o queue[g]

\* A loop that fails closes the connection it failed on, not the one a reconnect has
\* stored since (client.go:28: "When a FatalErrorEvent is emitted, the connection is
\* automatically closed. The same client can be used to reconnect.").
FatalClosesOwn ==
  \A p \in Loops : At(p, "close") => conn = lconn[p]

\* Once a FatalErrorEvent was emitted for a connection, the connection is eventually
\* closed (client.go:28, Fatalf at client.go:110).
FatalCloses ==
  \A g \in Conns : (\E i \in DOMAIN events : events[i] = Event("Fatal", g))
                     ~> (sock[g] = "closed")

\* Every call of the application returns: Write gets its message into the queue or finds
\* the client disconnected, Disconnect gets the lock and room for its event.
CallsReturn == \A a \in Apps : ~At(a, "idle") ~> At(a, "idle")

\* The two goroutines of a connection end after it was disconnected: none is left blocked
\* on the socket, the channel, the mutex or the event queue.
LoopsEnd ==
  \A g \in Conns : (discon[g] = 1) ~>
     (At(<<"readLoop", g>>, "done") /\ At(<<"writeLoop", g>>, "done"))
=============================================================================
