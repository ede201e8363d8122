---------------------------- MODULE ClientProofs ----------------------------
(***************************************************************************)
(* What holds of the goroutines of a Client for every number of            *)
(* goroutines, connections, messages and logons, and for every capacity of *)
(* the channels.                                                           *)
(***************************************************************************)
EXTENDS Client, SequenceTheorems, TLAPS

-----------------------------------------------------------------------------
(* Types *)

\* What a goroutine's local variables hold where it uses them.
LocalInv ==
  /\ \A p \in Procs : pc[p] \in {"setConn", "setConn2", "setChan"} => lconn[p] \in 1..dialed
  /\ \A p \in Procs : pc[p] \in {"rlock", "check", "send", "l_serialize"} => lmsg[p] \in Msgs
  /\ \A p \in Procs : pc[p] \in {"send", "l_recv"} => lchan[p] \in Conns \cup {Nil}
  /\ \A p \in Procs : pc[p] \in {"b_stop", "b_new", "b_wait", "b_tick"} \/ ret[p] = "b_wait"
       => p \in Beats

TypeInv == TypeOK /\ LocalInv

\* Append keeps the type of a sequence and adds one to its length.
LEMMA AppendType ==
  ASSUME NEW S, NEW s \in Seq(S), NEW e \in S
  PROVE  Append(s, e) \in Seq(S) /\ Len(Append(s, e)) = Len(s) + 1 /\ Len(s) \in Nat
OBVIOUS

\* The rest of a sequence that is not empty, and its head.
LEMMA HeadTailType ==
  ASSUME NEW S, NEW s \in Seq(S), s # <<>>
  PROVE  /\ Tail(s) \in Seq(S) /\ Head(s) \in S
         /\ Len(Tail(s)) = Len(s) - 1 /\ Len(s) \in Nat
OBVIOUS

\* c.events never holds more than its capacity.
LEMMA EmitType ==
  ASSUME TypeOK, NEW e \in Events, Emit(e)
  PROVE  events' \in Seq(Events) /\ Len(events') <= EventCap
<1>1. events \in Seq(Events) /\ EventCap \in Nat
  BY CapacityAssumption DEF CapacityAssumption, TypeOK
<1>2. events' = Append(events, e) /\ Len(events) < EventCap
  BY DEF Emit
<1> QED
  BY <1>1, <1>2, AppendType

\* The client NewClient returns has the types.
LEMMA InitType == Init => TypeInv
<1> SUFFICES ASSUME Init PROVE TypeInv
  OBVIOUS
<1> USE BoundsAssumption DEF BoundsAssumption, Init, Nil
<1>1. ControlOK
  BY DEF ControlOK, Labels, ReturnLabels
<1>2. /\ wire \in [Conns -> Seq(Seq(Msgs))] /\ queue \in [Conns -> Seq(Msgs)]
      /\ accepted \in [Conns -> Seq(Msgs)] /\ writeBuf \in Seq(Msgs)
      /\ events \in Seq(Events)
  OBVIOUS
<1>3. /\ panic \in BOOLEAN /\ closed \in [Conns -> BOOLEAN]
      /\ sock \in [Conns -> {"none", "open", "closed"}]
  OBVIOUS
<1>4. /\ conn \in Conns \cup {Nil, Torn} /\ writeChan \in Conns \cup {Nil}
      /\ closing \in Conns \cup {Nil} /\ discon \in [Conns -> Nat]
      /\ heartbeat \in Tickers \cup {Nil} /\ ticking \subseteq Tickers
  OBVIOUS
<1>5. /\ writer \in Procs \cup {NoProc} /\ readers \subseteq Procs /\ rwait \subseteq Procs
      /\ lconn \in [Procs -> Conns \cup {Nil, Torn}]
      /\ lchan \in [Procs -> Conns \cup Tickers \cup {Nil}]
      /\ lmsg \in [Procs -> Msgs \cup {Nil}]
  OBVIOUS
<1>6. /\ dialed \in 0..MaxConns /\ msgs \in 0..MaxWrites
      /\ packets \in 0..MaxPackets /\ logons \in 0..MaxLogOns
  OBVIOUS
<1>7. Len(events) <= EventCap /\ \A g \in Conns : Len(queue[g]) <= WriteCap
  BY CapacityAssumption DEF CapacityAssumption
<1>8. TypeOK
  BY <1>1, <1>2, <1>3, <1>4, <1>5, <1>6, <1>7, Zenon DEF TypeOK
<1>9. LocalInv
  BY DEF LocalInv
<1> QED
  BY <1>8, <1>9 DEF TypeInv

\* A call returns: control goes to a return label and the locals keep their types.
LEMMA ReturnType ==
  ASSUME TypeOK, NEW p \in Procs, Return(p)
  PROVE  /\ ControlOK'
         /\ lconn' \in [Procs -> Conns \cup {Nil, Torn}]
         /\ lchan' \in [Procs -> Conns \cup Tickers \cup {Nil}]
         /\ lmsg' \in [Procs -> Msgs \cup {Nil}]
<1>1. ret[p] \in Labels
  BY DEF TypeOK, ControlOK, ReturnLabels, Labels, ConnectLabels, ReadLabels, BeatLabels
<1>2. ControlOK'
  BY <1>1 DEF TypeOK, ControlOK, Return, Goto, ReturnLabels
<1> QED
  BY <1>2 DEF TypeOK, Return, Nil

\* The facts LocalInv has about the other goroutines survive a return.
LEMMA ReturnLocal ==
  ASSUME TypeInv, NEW p \in Procs, Return(p), UNCHANGED dialed
  PROVE  LocalInv'
  BY DEF TypeInv, TypeOK, ControlOK, LocalInv, Return, Goto, ReturnLabels

\* A goroutine enters Write with a message of its own.
LEMMA EnterWriteType ==
  ASSUME TypeInv, NEW p \in Procs, NEW r \in {"idle", "r_packet", "b_wait"}, EnterWrite(p, r),
         r = "b_wait" => p \in Beats
  PROVE  /\ ControlOK' /\ LocalInv'
         /\ msgs' \in 0..MaxWrites /\ lmsg' \in [Procs -> Msgs \cup {Nil}]
<1>1. msgs + 1 \in Msgs /\ msgs' = msgs + 1
  BY BoundsAssumption DEF BoundsAssumption, TypeInv, TypeOK, EnterWrite, Msgs
<1>2. ControlOK'
  BY DEF TypeInv, TypeOK, ControlOK, EnterWrite, Call, Goto, ReturnLabels, Labels,
     WriteLabels
<1>3. LocalInv'
  BY <1>1 DEF TypeInv, TypeOK, ControlOK, LocalInv, EnterWrite, Call, Goto
<1>4. msgs' \in 0..MaxWrites
  BY <1>1, BoundsAssumption DEF BoundsAssumption, Msgs
<1>5. lmsg' \in [Procs -> Msgs \cup {Nil}]
  BY <1>1 DEF TypeInv, TypeOK, EnterWrite
<1> QED
  BY <1>2, <1>3, <1>4, <1>5

\* An application goroutine that enters Write keeps the types.
LEMMA CallWriteType ==
  ASSUME TypeInv, NEW p \in Procs, CallWrite(p)
  PROVE  TypeInv'
<1>1. EnterWrite(p, "idle")
  BY DEF CallWrite
<1>2. TypeOK'
  BY <1>1, EnterWriteType DEF CallWrite, EnterWrite, TypeInv, TypeOK, lockVars, chanVars,
     localVars, beatVars, wireVars, countVars, histVars
<1> QED
  BY <1>1, <1>2, EnterWriteType DEF TypeInv

\* A heartbeat that enters Write keeps the types.
LEMMA BeatTickType ==
  ASSUME TypeInv, NEW p \in Procs, BeatTick(p)
  PROVE  TypeInv'
<1>1. EnterWrite(p, "b_wait") /\ p \in Beats
  BY DEF BeatTick, TypeInv, LocalInv, At
<1>2. TypeOK'
  BY <1>1, EnterWriteType DEF BeatTick, EnterWrite, TypeInv, TypeOK, lockVars, chanVars,
     localVars, beatVars, wireVars, countVars, histVars
<1> QED
  BY <1>1, <1>2, EnterWriteType DEF TypeInv

\* A successful dial hands out a connection that is within the bound.
LEMMA DialOkType ==
  ASSUME TypeInv, NEW p \in Procs, DialOk(p)
  PROVE  TypeInv'
<1>1. dialed + 1 \in Conns /\ dialed' = dialed + 1 /\ dialed \in Nat
  BY BoundsAssumption DEF BoundsAssumption, TypeInv, TypeOK, DialOk, Conns
<1>2. ControlOK'
  BY DEF TypeInv, TypeOK, ControlOK, DialOk, Call, Goto, ReturnLabels, Labels, ConnectLabels
<1>3. dialed' \in 0..MaxConns
  BY <1>1, BoundsAssumption DEF BoundsAssumption, Conns
<1>4. TypeOK'
  BY <1>1, <1>2, <1>3 DEF TypeInv, TypeOK, DialOk, lockVars, chanVars, localVars,
     beatVars, wireVars, countVars, histVars
<1>5. dialed' \in 1..dialed' /\ \A x \in 1..dialed : x \in 1..dialed'
  BY <1>1
<1>6. LocalInv'
  BY <1>1, <1>5 DEF TypeInv, TypeOK, ControlOK, LocalInv, DialOk, Call, Goto, At
<1> QED
  BY <1>4, <1>6 DEF TypeInv

\* Storing the channel and starting the loops keeps the types.
LEMMA SetChanType ==
  ASSUME TypeInv, NEW p \in Procs, SetChan(p)
  PROVE  TypeInv'
<1>1. lconn[p] \in Conns
  BY BoundsAssumption DEF BoundsAssumption, TypeInv, TypeOK, LocalInv, SetChan, At, Conns
<1>2. ControlOK'
  BY DEF TypeInv, TypeOK, ControlOK, SetChan, ReturnLabels, Labels, ConnectLabels,
     ReadLabels,
     DrainLabels, BeatLabels
<1>3. TypeOK'
  BY <1>1, <1>2 DEF TypeInv, TypeOK, SetChan, lockVars, chanVars, localVars, beatVars,
     wireVars, countVars, histVars
<1>4. LocalInv'
  BY DEF TypeInv, TypeOK, ControlOK, LocalInv, SetChan, ReturnLabels, lockVars, chanVars,
     localVars, beatVars, wireVars, countVars, histVars
<1> QED
  BY <1>3, <1>4 DEF TypeInv

\* Disconnect behind the lock, with and without a connection.
LEMMA LockedType ==
  ASSUME TypeInv, NEW p \in Procs, Locked(p)
  PROVE  TypeInv'
<1>1. CASE conn = Nil
  <2>1. Return(p) /\ Unlock(p)
    BY <1>1 DEF Locked
  <2>2. TypeOK'
    BY <2>1, ReturnType DEF Locked, Unlock, TypeInv, TypeOK, lockVars, chanVars,
       localVars, beatVars, wireVars, countVars, histVars
  <2> QED
    BY <2>1, <2>2, ReturnLocal DEF Locked, TypeInv, countVars
<1>2. CASE conn # Nil
  <2>1. ControlOK'
    BY <1>2 DEF TypeInv, TypeOK, ControlOK, Locked, Goto, Labels, LockLabels
  <2>2. TypeOK'
    BY <1>2, <2>1 DEF Locked, TypeInv, TypeOK, lockVars, chanVars, localVars, beatVars,
       wireVars, countVars, histVars
  <2>3. LocalInv'
    BY <1>2 DEF TypeInv, TypeOK, ControlOK, LocalInv, Locked, Goto, lockVars, chanVars,
       localVars, beatVars, wireVars, countVars, histVars
  <2> QED
    BY <2>2, <2>3 DEF TypeInv
<1> QED
  BY <1>1, <1>2

\* The last statement of Disconnect, its deferred Unlock and its return.
LEMMA EmitDisconnectedType ==
  ASSUME TypeInv, NEW p \in Procs, EmitDisconnected(p)
  PROVE  TypeInv'
<1>1. Return(p) /\ Unlock(p)
  BY DEF EmitDisconnected
<1>2. events' \in Seq(Events) /\ Len(events') <= EventCap
  <2>1. Event("Disconnected", closing) \in Events
    BY DEF TypeInv, TypeOK, Event, Events, EventTypes
  <2> QED
    BY <2>1, EmitType DEF EmitDisconnected, TypeInv
<1>3. discon' \in [Conns -> Nat]
  <2>1. discon \in [Conns -> Nat]
    BY DEF TypeInv, TypeOK
  <2>2. discon' = [discon EXCEPT ![closing] = discon[closing] + 1]
    BY DEF EmitDisconnected
  <2>3. CASE closing \in Conns
    BY <2>1, <2>2, <2>3
  <2>4. CASE closing \notin Conns
    BY <2>1, <2>2, <2>4
  <2> QED
    BY <2>3, <2>4
<1>4. closing' \in Conns \cup {Nil}
  BY DEF EmitDisconnected
<1>5. TypeOK'
  BY <1>1, <1>2, <1>3, <1>4, ReturnType DEF EmitDisconnected, Unlock, TypeInv, TypeOK,
     lockVars, chanVars, localVars, beatVars, wireVars, countVars, histVars
<1> QED
  BY <1>1, <1>5, ReturnLocal DEF EmitDisconnected, TypeInv, countVars

\* Write behind the read lock, with and without a connection.
LEMMA WriteCheckType ==
  ASSUME TypeInv, NEW p \in Procs, WriteCheck(p)
  PROVE  TypeInv'
<1>1. CASE conn = Nil
  <2>1. Return(p) /\ RUnlock(p)
    BY <1>1 DEF WriteCheck
  <2>2. TypeOK'
    BY <2>1, ReturnType DEF WriteCheck, RUnlock, TypeInv, TypeOK, lockVars, chanVars,
       localVars, beatVars, wireVars, countVars, histVars
  <2> QED
    BY <2>1, <2>2, ReturnLocal DEF WriteCheck, TypeInv, countVars
<1>2. CASE conn # Nil
  <2>1. ControlOK'
    BY <1>2 DEF TypeInv, TypeOK, ControlOK, WriteCheck, Goto, Labels, WriteLabels
  <2>2. TypeOK'
    BY <1>2, <2>1 DEF WriteCheck, TypeInv, TypeOK, lockVars, chanVars, localVars,
       beatVars, wireVars, countVars, histVars
  <2>3. LocalInv'
    BY <1>2 DEF TypeInv, TypeOK, ControlOK, LocalInv, WriteCheck, Goto, At, lockVars,
       chanVars, localVars, beatVars, wireVars, countVars, histVars
  <2> QED
    BY <2>2, <2>3 DEF TypeInv
<1> QED
  BY <1>1, <1>2

\* A send keeps the channel within its capacity, or panics and changes nothing else.
LEMMA SendType ==
  ASSUME TypeInv, NEW p \in Procs, Send(p)
  PROVE  TypeInv'
<1>1. lmsg[p] \in Msgs /\ lchan[p] \in Conns
  BY DEF TypeInv, LocalInv, Send, At
<1>2. CASE closed[lchan[p]]
  <2>1. UNCHANGED <<pc, ret, queue, accepted, lockVars, localVars, dialed>> /\ panic' = TRUE
    BY <1>2 DEF Send, Panic, countVars
  <2>2. TypeOK'
    BY <2>1 DEF Send, TypeInv, TypeOK, ControlOK, lockVars, chanVars, localVars, beatVars,
       wireVars, countVars, histVars
  <2>3. LocalInv'
    BY <2>1 DEF TypeInv, LocalInv, localVars
  <2> QED
    BY <2>2, <2>3 DEF TypeInv
<1>3. CASE ~closed[lchan[p]]
  <2>1. Return(p) /\ RUnlock(p) /\ UNCHANGED panic
    BY <1>3 DEF Send
  <2>2. /\ queue' = [queue EXCEPT ![lchan[p]] = Append(@, lmsg[p])]
        /\ accepted' = [accepted EXCEPT ![lchan[p]] = Append(@, lmsg[p])]
    BY <1>3 DEF Send
  <2>3. queue' \in [Conns -> Seq(Msgs)] /\ accepted' \in [Conns -> Seq(Msgs)]
    BY <1>1, <2>2, AppendType DEF TypeInv, TypeOK
  <2>4. \A g \in Conns : Len(queue'[g]) <= WriteCap
    <3>1. Len(queue[lchan[p]]) < WriteCap /\ WriteCap \in Nat
      BY <1>3, CapacityAssumption DEF CapacityAssumption, Send
    <3>2. Len(Append(queue[lchan[p]], lmsg[p])) <= WriteCap
      BY <1>1, <3>1, AppendType DEF TypeInv, TypeOK
    <3> QED
      BY <1>1, <2>2, <3>2 DEF TypeInv, TypeOK
  <2>5. TypeOK'
    BY <2>1, <2>3, <2>4, ReturnType DEF Send, RUnlock, TypeInv, TypeOK, lockVars,
       chanVars, localVars, beatVars, wireVars, countVars, histVars
  <2> QED
    BY <2>1, <2>5, ReturnLocal DEF Send, TypeInv, countVars
<1> QED
  BY <1>2, <1>3

\* A receive takes a message that was sent, or finds the channel closed.
LEMMA ReceiveType ==
  ASSUME TypeInv, NEW p \in Procs, Receive(p)
  PROVE  TypeInv'
<1>1. lchan[p] \in Conns
  BY DEF TypeInv, LocalInv, Receive, At
<1>2. ControlOK'
  BY DEF TypeInv, TypeOK, ControlOK, Receive, Goto, Labels, DrainLabels
<1>3. CASE queue[lchan[p]] # <<>>
  <2>1. Head(queue[lchan[p]]) \in Msgs /\ Tail(queue[lchan[p]]) \in Seq(Msgs)
    BY <1>1, <1>3, HeadTailType DEF TypeInv, TypeOK
  <2>2. queue' \in [Conns -> Seq(Msgs)] /\ lmsg' \in [Procs -> Msgs \cup {Nil}]
    BY <1>3, <2>1 DEF Receive, TypeInv, TypeOK
  <2>3. \A g \in Conns : Len(queue'[g]) <= WriteCap
    <3>1. Len(Tail(queue[lchan[p]])) <= WriteCap
      BY <1>1, <1>3, HeadTailType, CapacityAssumption DEF CapacityAssumption, TypeInv,
         TypeOK
    <3>2. queue' = [queue EXCEPT ![lchan[p]] = Tail(queue[lchan[p]])]
      BY <1>3 DEF Receive
    <3> QED
      BY <1>1, <3>1, <3>2 DEF TypeInv, TypeOK
  <2>4. TypeOK'
    BY <1>2, <2>2, <2>3 DEF Receive, TypeInv, TypeOK, lockVars, chanVars, localVars,
       beatVars, wireVars, countVars, histVars
  <2>5. LocalInv'
    BY <1>3, <2>1 DEF TypeInv, TypeOK, ControlOK, LocalInv, Receive, Goto, lockVars,
       chanVars, localVars, beatVars, wireVars, countVars, histVars
  <2> QED
    BY <2>4, <2>5 DEF TypeInv
<1>4. CASE queue[lchan[p]] = <<>>
  <2>1. UNCHANGED <<lmsg, queue>> /\ Goto(p, "done")
    BY <1>4 DEF Receive
  <2>2. TypeOK'
    BY <1>2, <2>1 DEF Receive, TypeInv, TypeOK, lockVars, chanVars, localVars, beatVars,
       wireVars, countVars, histVars
  <2>3. LocalInv'
    BY <2>1 DEF TypeInv, TypeOK, ControlOK, LocalInv, Receive, Goto, lockVars, chanVars,
       localVars, beatVars, wireVars, countVars, histVars
  <2> QED
    BY <2>2, <2>3 DEF TypeInv
<1> QED
  BY <1>3, <1>4

\* A frame on the wire is a sequence of messages.
LEMMA WriteConnType ==
  ASSUME TypeInv, NEW p \in Procs, WriteConn(p)
  PROVE  TypeInv'
<1>1. ControlOK'
  BY DEF TypeInv, TypeOK, ControlOK, WriteConn, Goto, Labels, DrainLabels
<1>2. wire' \in [Conns -> Seq(Seq(Msgs))]
  <2>1. wire \in [Conns -> Seq(Seq(Msgs))] /\ writeBuf \in Seq(Msgs)
    BY DEF TypeInv, TypeOK
  <2>2. \/ UNCHANGED wire
        \/ wire' = [wire EXCEPT ![lconn[p]] = Append(wire[lconn[p]], writeBuf)]
    BY DEF WriteConn
  <2>3. \A g \in Conns : Append(wire[g], writeBuf) \in Seq(Seq(Msgs))
    BY <2>1, AppendType
  <2> QED
    BY <2>1, <2>2, <2>3
<1>3. panic' \in BOOLEAN
  BY DEF WriteConn, Panic, TypeInv, TypeOK
<1>4. TypeOK'
  BY <1>1, <1>2, <1>3 DEF WriteConn, TypeInv, TypeOK, lockVars, chanVars, localVars,
     beatVars, wireVars, countVars, histVars
<1>5. LocalInv'
  BY DEF TypeInv, TypeOK, ControlOK, LocalInv, WriteConn, Goto, lockVars, chanVars,
     localVars, beatVars, wireVars, countVars, histVars
<1> QED
  BY <1>4, <1>5 DEF TypeInv

\* The end of an iteration of the writeLoop forgets the channel and the message.
LEMMA ResetBufType ==
  ASSUME TypeInv, NEW p \in Procs, ResetBuf(p)
  PROVE  TypeInv'
<1>1. ControlOK'
  BY DEF TypeInv, TypeOK, ControlOK, ResetBuf, ResetWriteBuf, Call, Goto, Labels,
     ReadLabels, DrainLabels, ReturnLabels
<1>2. /\ lconn' \in [Procs -> Conns \cup {Nil, Torn}]
      /\ lchan' \in [Procs -> Conns \cup Tickers \cup {Nil}]
      /\ lmsg' \in [Procs -> Msgs \cup {Nil}]
  BY DEF ResetBuf, ResetWriteBuf, TypeInv, TypeOK
<1>3. writeBuf' \in Seq(Msgs)
  BY DEF ResetBuf, ResetWriteBuf
<1>4. TypeOK'
  BY <1>1, <1>2, <1>3 DEF ResetBuf, ResetWriteBuf, TypeInv, TypeOK, lockVars, chanVars,
     localVars, beatVars, wireVars, countVars, histVars
<1>5. LocalInv'
  BY DEF TypeInv, TypeOK, ControlOK, LocalInv, ResetBuf, ResetWriteBuf, Call, Goto, At,
     lockVars, chanVars, localVars, beatVars, wireVars, countVars, histVars
<1> QED
  BY <1>4, <1>5 DEF TypeInv

\* Each effect a handler can have keeps the types.
LEMMA HandlePacketType ==
  ASSUME TypeInv, NEW p \in Procs, HandlePacket(p)
  PROVE  TypeInv'
<1>1. packets' \in 0..MaxPackets
  BY BoundsAssumption DEF BoundsAssumption, HandlePacket, TypeInv, TypeOK
<1>2. CASE EnterWrite(p, "r_packet") /\ UNCHANGED <<logons, panic>>
  <2>1. TypeOK'
    BY <1>1, <1>2, EnterWriteType DEF HandlePacket, EnterWrite, TypeInv, TypeOK, lockVars,
       chanVars, localVars, beatVars, wireVars, countVars, histVars
  <2> QED
    BY <1>2, <2>1, EnterWriteType DEF TypeInv
<1>3. CASE /\ \/ Call(p, "notify", "r_packet")
              \/ Call(p, "fatal", "r_packet")
           /\ UNCHANGED <<dialed, msgs, logons, localVars, panic>>
  <2>1. ControlOK'
    BY <1>3 DEF TypeInv, TypeOK, ControlOK, Call, Goto, Labels, ReadLabels, ReturnLabels
  <2>2. TypeOK'
    BY <1>1, <1>3, <2>1 DEF HandlePacket, TypeInv, TypeOK, lockVars, chanVars, localVars,
       beatVars, wireVars, countVars, histVars
  <2>3. LocalInv'
    BY <1>3 DEF TypeInv, TypeOK, ControlOK, LocalInv, Call, Goto, lockVars, chanVars,
       localVars, beatVars, wireVars, countVars, histVars
  <2> QED
    BY <2>2, <2>3 DEF TypeInv
<1>4. CASE /\ logons < MaxLogOns /\ logons' = logons + 1
           /\ pc' = [pc EXCEPT ![p] = "notify", ![<<"heartbeatLoop", logons + 1>>] = "b_stop"]
           /\ ret' = [ret EXCEPT ![p] = "r_packet"]
           /\ UNCHANGED <<dialed, msgs, localVars, panic>>
  <2>0. logons' \in 0..MaxLogOns /\ logons + 1 \in Tickers
    BY <1>4, BoundsAssumption DEF BoundsAssumption, TypeInv, TypeOK, Tickers
  <2>1. logons' \in 0..MaxLogOns /\ <<"heartbeatLoop", logons + 1>> \in Beats
    BY <2>0 DEF Beats
  <2>2. ControlOK'
    BY <1>4 DEF TypeInv, TypeOK, ControlOK, Labels, ReadLabels, BeatLabels, ReturnLabels
  <2>3. TypeOK'
    BY <1>1, <1>4, <2>1, <2>2 DEF HandlePacket, TypeInv, TypeOK, lockVars, chanVars,
       localVars, beatVars, wireVars, countVars, histVars
  <2>4. LocalInv'
    BY <1>4, <2>1 DEF TypeInv, TypeOK, ControlOK, LocalInv, lockVars, chanVars, localVars,
       beatVars, wireVars, countVars, histVars
  <2> QED
    BY <2>3, <2>4 DEF TypeInv
<1>5. CASE /\ Panic /\ Goto(p, "r_nil")
           /\ UNCHANGED <<ret, dialed, msgs, logons, localVars>>
  <2>1. ControlOK'
    BY <1>5 DEF TypeInv, TypeOK, ControlOK, Goto, Labels, ReadLabels
  <2>2. TypeOK'
    BY <1>1, <1>5, <2>1 DEF HandlePacket, Panic, TypeInv, TypeOK, lockVars, chanVars,
       localVars, beatVars, wireVars, countVars, histVars
  <2>3. LocalInv'
    BY <1>5 DEF TypeInv, TypeOK, ControlOK, LocalInv, Goto, localVars
  <2> QED
    BY <2>2, <2>3 DEF TypeInv
<1> QED
  BY <1>2, <1>3, <1>4, <1>5 DEF HandlePacket

\* Entering Connect keeps the types.
LEMMA CallConnectType ==
  ASSUME TypeInv, NEW p \in Procs, CallConnect(p)
  PROVE  TypeInv'
<1>1. ControlOK'
  BY DEF CallConnect, Call, Goto, TypeInv, TypeOK, ControlOK, Labels, ReturnLabels,
     LockLabels
<1>2. TypeOK'
  BY <1>1 DEF CallConnect, Call, Goto, TypeInv, TypeOK, LocalInv, lockVars, chanVars,
     localVars, beatVars, wireVars, countVars, histVars
<1>3. LocalInv'
  BY DEF CallConnect, Call, Goto, TypeInv, TypeOK, ControlOK, LocalInv, lockVars,
     chanVars, localVars, beatVars, wireVars, countVars, histVars
<1> QED
  BY <1>2, <1>3 DEF TypeInv

\* What is stored in c.conn is the dialed connection, or half of it.
LEMMA SetConnType ==
  ASSUME TypeInv, NEW p \in Procs, SetConn(p)
  PROVE  TypeInv'
<1>1. ControlOK'
  BY DEF SetConn, Goto, At, Nil, Conns, TypeInv, TypeOK, ControlOK, Labels,
     ReturnLabels, ConnectLabels
<1>2. TypeOK'
  BY <1>1, BoundsAssumption DEF BoundsAssumption, SetConn, Goto, At, Nil, Conns,
     TypeInv, TypeOK, LocalInv, lockVars, chanVars, localVars, beatVars, wireVars,
     countVars, histVars
<1>3. LocalInv'
  BY DEF SetConn, Goto, At, Nil, Conns, TypeInv, TypeOK, ControlOK, LocalInv, lockVars,
     chanVars, localVars, beatVars, wireVars, countVars, histVars
<1> QED
  BY <1>2, <1>3 DEF TypeInv

\* Closing the transport keeps the types.
LEMMA CloseConnType ==
  ASSUME TypeInv, NEW p \in Procs, CloseConn(p)
  PROVE  TypeInv'
<1>1. ControlOK'
  BY DEF CloseConn, CloseTransport, Panic, Goto, Nil, TypeInv, TypeOK, ControlOK, Labels,
     ReturnLabels, LockLabels
<1>2. TypeOK'
  BY <1>1 DEF CloseConn, CloseTransport, Panic, Goto, Nil, TypeInv, TypeOK, LocalInv,
     lockVars, chanVars, localVars, beatVars, wireVars, countVars, histVars
<1>3. LocalInv'
  BY DEF CloseConn, CloseTransport, Panic, Goto, Nil, TypeInv, TypeOK, ControlOK,
     LocalInv, lockVars, chanVars, localVars, beatVars, wireVars, countVars, histVars
<1> QED
  BY <1>2, <1>3 DEF TypeInv

\* Closing the channel keeps the types.
LEMMA CloseChanType ==
  ASSUME TypeInv, NEW p \in Procs, CloseChan(p)
  PROVE  TypeInv'
<1>1. ControlOK'
  BY DEF CloseChan, CloseWriteChan, Panic, Goto, TypeInv, TypeOK, ControlOK, Labels,
     ReturnLabels, LockLabels
<1>2. TypeOK'
  BY <1>1 DEF CloseChan, CloseWriteChan, Panic, Goto, TypeInv, TypeOK, LocalInv, lockVars,
     chanVars, localVars, beatVars, wireVars, countVars, histVars
<1>3. LocalInv'
  BY DEF CloseChan, CloseWriteChan, Panic, Goto, TypeInv, TypeOK, ControlOK, LocalInv,
     lockVars, chanVars, localVars, beatVars, wireVars, countVars, histVars
<1> QED
  BY <1>2, <1>3 DEF TypeInv

\* A loop that asks for the read lock keeps the types.
LEMMA LoopRLockType ==
  ASSUME TypeInv, NEW p \in Procs, LoopRLock(p)
  PROVE  TypeInv'
<1>1. ControlOK'
  BY DEF LoopRLock, RLock, Goto, TypeInv, TypeOK, ControlOK, Labels, ReturnLabels,
     ReadLabels, DrainLabels
<1>2. TypeOK'
  BY <1>1 DEF LoopRLock, RLock, Goto, TypeInv, TypeOK, LocalInv, lockVars, chanVars,
     localVars, beatVars, wireVars, countVars, histVars
<1>3. LocalInv'
  BY DEF LoopRLock, RLock, Goto, TypeInv, TypeOK, ControlOK, LocalInv, lockVars,
     chanVars, localVars, beatVars, wireVars, countVars, histVars
<1> QED
  BY <1>2, <1>3 DEF TypeInv

\* A loop that copies c.conn keeps the types.
LEMMA LoopConnType ==
  ASSUME TypeInv, NEW p \in Procs, LoopConn(p)
  PROVE  TypeInv'
<1>1. ControlOK'
  BY DEF LoopConn, RUnlock, Goto, TypeInv, TypeOK, ControlOK, Labels, ReturnLabels,
     ReadLabels, DrainLabels
<1>2. TypeOK'
  BY <1>1 DEF LoopConn, RUnlock, Goto, TypeInv, TypeOK, LocalInv, lockVars, chanVars,
     localVars, beatVars, wireVars, countVars, histVars
<1>3. LocalInv'
  BY DEF LoopConn, RUnlock, Goto, TypeInv, TypeOK, ControlOK, LocalInv, lockVars,
     chanVars, localVars, beatVars, wireVars, countVars, histVars
<1> QED
  BY <1>2, <1>3 DEF TypeInv

\* A Read on a closed or torn connection keeps the types.
LEMMA ReadClosedType ==
  ASSUME TypeInv, NEW p \in Procs, ReadClosed(p)
  PROVE  TypeInv'
<1>1. ControlOK'
  BY DEF ReadClosed, Panic, Call, Goto, TypeInv, TypeOK, ControlOK, Labels,
     ReturnLabels, ReadLabels
<1>2. TypeOK'
  BY <1>1 DEF ReadClosed, Panic, Call, Goto, TypeInv, TypeOK, LocalInv, lockVars,
     chanVars, localVars, beatVars, wireVars, countVars, histVars
<1>3. LocalInv'
  BY DEF ReadClosed, Panic, Call, Goto, TypeInv, TypeOK, ControlOK, LocalInv, lockVars,
     chanVars, localVars, beatVars, wireVars, countVars, histVars
<1> QED
  BY <1>2, <1>3 DEF TypeInv

\* The ticker a heartbeatLoop starts is its own.
LEMMA BeatNewType ==
  ASSUME TypeInv, NEW p \in Procs, BeatNew(p)
  PROVE  TypeInv'
<1>1. ControlOK'
  BY DEF BeatNew, Panic, Goto, At, Beats, TypeInv, TypeOK, ControlOK, Labels,
     ReturnLabels, BeatLabels
<1>2. TypeOK'
  BY <1>1 DEF BeatNew, Panic, Goto, At, Beats, TypeInv, TypeOK, LocalInv, lockVars,
     chanVars, localVars, beatVars, wireVars, countVars, histVars
<1>3. LocalInv'
  BY DEF BeatNew, Panic, Goto, At, Beats, TypeInv, TypeOK, ControlOK, LocalInv,
     lockVars, chanVars, localVars, beatVars, wireVars, countVars, histVars
<1> QED
  BY <1>2, <1>3 DEF TypeInv

\* The types and the facts about locals are inductive.
LEMMA TypeStep ==
  ASSUME TypeInv, [Next]_vars
  PROVE  TypeInv'
<1> USE DEF lockVars, chanVars, localVars, beatVars, wireVars, countVars, histVars
<1>1. CASE UNCHANGED vars
  BY <1>1 DEF vars, TypeInv, TypeOK, ControlOK, LocalInv
<1>2. ASSUME NEW a \in Apps, Poll(a)
      PROVE  TypeInv'
  <2>1. events' \in Seq(Events) /\ Len(events') <= EventCap
    BY <1>2, HeadTailType, CapacityAssumption DEF CapacityAssumption, Poll, TypeInv, TypeOK
  <2> QED
    BY <1>2, <2>1 DEF Poll, TypeInv, TypeOK, ControlOK, LocalInv
<1>3. ASSUME NEW p \in Procs, Notify(p)
      PROVE  TypeInv'
  <2>1. Return(p)
    BY <1>3 DEF Notify
  <2>2. Event("Packet", lconn[p]) \in Events
    BY DEF TypeInv, TypeOK, Event, Events, EventTypes
  <2>3. events' \in Seq(Events) /\ Len(events') <= EventCap
    BY <1>3, <2>2, EmitType DEF Notify, TypeInv
  <2>4. TypeOK'
    BY <1>3, <2>1, <2>3, ReturnType DEF Notify, TypeInv, TypeOK
  <2> QED
    BY <1>3, <2>1, <2>4, ReturnLocal DEF Notify, TypeInv
<1>4. ASSUME NEW p \in Procs, SerializeError(p)
      PROVE  TypeInv'
  <2>1. ControlOK' /\ writeBuf' \in Seq(Msgs)
    BY <1>4 DEF SerializeError, ResetWriteBuf, Call, Goto, TypeInv, TypeOK, ControlOK,
       Labels, ReadLabels, ReturnLabels
  <2>2. TypeOK'
    BY <1>4, <2>1 DEF SerializeError, ResetWriteBuf, TypeInv, TypeOK
  <2>3. LocalInv'
    BY <1>4 DEF SerializeError, ResetWriteBuf, Call, Goto, TypeInv, TypeOK, ControlOK,
       LocalInv
  <2> QED
    BY <2>2, <2>3 DEF TypeInv
<1>5. ASSUME NEW p \in Procs, CallDisconnect(p)
      PROVE  TypeInv'
  BY <1>5 DEF CallDisconnect, Call, Goto, LockLabels, TypeInv, TypeOK, ControlOK,
     LocalInv, Labels, ReturnLabels
<1>6. ASSUME NEW p \in Procs, DialFail(p)
      PROVE  TypeInv'
  BY <1>6 DEF DialFail, Call, Goto, At, Nil, ReadLabels, TypeInv, TypeOK, ControlOK,
     LocalInv, Labels, ReturnLabels
<1>7. ASSUME NEW p \in Procs, Announce(p)
      PROVE  TypeInv'
  <2>1. Event("Connected", lconn[p]) \in Events
    BY DEF TypeInv, TypeOK, Event, Events, EventTypes
  <2>2. events' \in Seq(Events) /\ Len(events') <= EventCap
    BY <1>7, <2>1, EmitType DEF Announce, TypeInv
  <2> QED
    BY <1>7, <2>2 DEF Announce, Goto, TypeInv, TypeOK, ControlOK, LocalInv, Labels,
       ReturnLabels
<1>8. ASSUME NEW p \in Procs, Fatalf(p)
      PROVE  TypeInv'
  <2>1. Event("Fatal", lconn[p]) \in Events
    BY DEF TypeInv, TypeOK, Event, Events, EventTypes
  <2>2. events' \in Seq(Events) /\ Len(events') <= EventCap
    BY <1>8, <2>1, EmitType DEF Fatalf, TypeInv
  <2> QED
    BY <1>8, <2>2 DEF Fatalf, Goto, LockLabels, TypeInv, TypeOK, ControlOK, LocalInv,
       Labels, ReturnLabels
<1>9. ASSUME NEW p \in Procs, Lock(p)
      PROVE  TypeInv'
  BY <1>9 DEF Lock, Goto, LockLabels, TypeInv, TypeOK, ControlOK, LocalInv, Labels,
     ReturnLabels
<1>10. ASSUME NEW p \in Procs, SetNil(p)
      PROVE  TypeInv'
  BY <1>10 DEF SetNil, ClearConn, Goto, Nil, LockLabels, TypeInv, TypeOK, ControlOK,
     LocalInv, Labels, ReturnLabels
<1>11. ASSUME NEW p \in Procs, WriteRLock(p)
      PROVE  TypeInv'
  BY <1>11 DEF WriteRLock, RLock, Goto, WriteLabels, At, TypeInv, TypeOK, ControlOK,
     LocalInv, Labels, ReturnLabels
<1>12. ASSUME NEW p \in Procs, ReadError(p)
      PROVE  TypeInv'
  BY <1>12 DEF ReadError, Call, Goto, ReadLabels, TypeInv, TypeOK, ControlOK, LocalInv,
     Labels, ReturnLabels
<1>13. ASSUME NEW p \in Procs, ReadPacket(p)
      PROVE  TypeInv'
  BY <1>13 DEF ReadPacket, Goto, ReadLabels, TypeInv, TypeOK, ControlOK, LocalInv,
     Labels, ReturnLabels
<1>14. ASSUME NEW p \in Procs, PacketDone(p)
      PROVE  TypeInv'
  BY <1>14 DEF PacketDone, Goto, Nil, ReadLabels, TypeInv, TypeOK, ControlOK, LocalInv,
     Labels, ReturnLabels
<1>15. ASSUME NEW p \in Procs, LoopChan(p)
      PROVE  TypeInv'
  BY <1>15 DEF LoopChan, Goto, DrainLabels, At, TypeInv, TypeOK, ControlOK, LocalInv,
     Labels, ReturnLabels
<1>16. ASSUME NEW p \in Procs, Serialize(p)
      PROVE  TypeInv'
  BY <1>16, AppendType DEF Serialize, Goto, DrainLabels, At, TypeInv, TypeOK, ControlOK,
     LocalInv, Labels, ReturnLabels
<1>17. ASSUME NEW p \in Procs, BeatStop(p)
      PROVE  TypeInv'
  BY <1>17 DEF BeatStop, Goto, BeatLabels, At, TypeInv, TypeOK, ControlOK, LocalInv,
     Labels, ReturnLabels
<1>18. ASSUME NEW p \in Procs, BeatWait(p)
      PROVE  TypeInv'
  BY <1>18 DEF BeatWait, Goto, BeatLabels, At, TypeInv, TypeOK, ControlOK, LocalInv,
     Labels, ReturnLabels
<1> QED
  BY <1>1, <1>2, <1>3, <1>4, <1>5, <1>6, <1>7, <1>8, <1>9, <1>10, <1>11, <1>12, <1>13,
     <1>14, <1>15, <1>16, <1>17, <1>18, CallWriteType, BeatTickType, DialOkType,
     SetChanType, LockedType, EmitDisconnectedType, WriteCheckType, SendType,
     ReceiveType, WriteConnType, ResetBufType, HandlePacketType, CallConnectType,
     SetConnType, CloseConnType, CloseChanType, LoopRLockType, LoopConnType,
     ReadClosedType, BeatNewType DEF Next, Run, Rest, AppCall, Outside, Step,
     ConnectStep, DisconnectStep, WriteStep, ReadStep, DrainStep, BeatStep, Procs

\* Every variable keeps its type: no goroutine takes a message, a channel or a connection
\* from a local variable it has not set, however the calls of client.go interleave.
THEOREM TypeCorrect == Spec => []TypeOK
<1>1. Init => TypeInv
  BY InitType
<1>2. TypeInv /\ [Next]_vars => TypeInv'
  BY TypeStep
<1>3. TypeInv => TypeOK
  BY DEF TypeInv
<1> QED
  BY <1>1, <1>2, <1>3, PTL DEF Spec

-----------------------------------------------------------------------------
(* Goroutines are started once *)

Setting == {"setConn", "setConn2", "setChan"}
Reader(g) == <<"readLoop", g>>
Writer(g) == <<"writeLoop", g>>
Beat(k)   == <<"heartbeatLoop", k>>

\* The loops of a connection that is not yet stored, and those of later ones, have not been
\* started, and no two goroutines store the same connection.
SpawnInv ==
  /\ \A g \in Conns : g > dialed => pc[Reader(g)] = "off" /\ pc[Writer(g)] = "off"
  /\ \A p \in Procs : pc[p] \in Setting =>
       pc[Reader(lconn[p])] = "off" /\ pc[Writer(lconn[p])] = "off"
  /\ \A p, q \in Procs : pc[p] \in Setting /\ pc[q] \in Setting /\ lconn[p] = lconn[q] => p = q
  /\ \A k \in Tickers : k > logons => pc[Beat(k)] = "off"

\* The loops are goroutines, and they are different ones.
LEMMA LoopFacts ==
  /\ \A g \in Conns : Reader(g) \in Procs /\ Writer(g) \in Procs /\ Reader(g) # Writer(g)
  /\ \A g, h \in Conns : g # h => Reader(g) # Reader(h) /\ Writer(g) # Writer(h)
  /\ \A g, h \in Conns : Reader(g) # Writer(h)
  /\ \A k \in Tickers : Beat(k) \in Procs
  /\ \A k, j \in Tickers : k # j => Beat(k) # Beat(j)
  /\ \A k \in Tickers, g \in Conns : Beat(k) # Reader(g) /\ Beat(k) # Writer(g)
  BY DEF Reader, Writer, Beat, Procs, Loops, ReadLoops, WriteLoops, Beats

\* The types the following proofs need.
LEMMA SmallTypes ==
  ASSUME TypeInv
  PROVE  /\ pc \in [Procs -> Labels] /\ ret \in [Procs -> ReturnLabels]
         /\ lconn \in [Procs -> Conns \cup {Nil, Torn}]
         /\ dialed \in 0..MaxConns /\ logons \in 0..MaxLogOns
         /\ readers \subseteq Procs /\ rwait \subseteq Procs
         /\ \A p \in Procs : pc[p] \in Setting => lconn[p] \in Conns /\ lconn[p] \in 1..dialed
  BY BoundsAssumption DEF BoundsAssumption, TypeInv, TypeOK, ControlOK, LocalInv, Setting,
     Conns

\* A step of p that starts no goroutine and dials no connection.
Alone(p) ==
  /\ pc[p] # "off" /\ pc'[p] \notin Setting
  /\ \A q \in Procs \ {p} : pc'[q] = pc[q] /\ lconn'[q] = lconn[q]
  /\ UNCHANGED <<dialed, logons>>

\* A goroutine that moves alone to a label that is no start label spawns nothing.
LEMMA AloneSpawn ==
  ASSUME TypeInv, SpawnInv, NEW p \in Procs, Alone(p)
  PROVE  SpawnInv'
<1>1. \A q \in Procs : pc[q] = "off" => pc'[q] = "off"
  BY DEF Alone
<1>2. \A q \in Procs : pc'[q] \in Setting => pc[q] \in Setting /\ lconn'[q] = lconn[q]
  BY DEF Alone
<1> QED
  BY <1>1, <1>2, LoopFacts, SmallTypes DEF SpawnInv, Alone

\* The steps that spawn nothing move one goroutine.
LEMMA AloneSteps ==
  ASSUME TypeInv, NEW p \in Procs,
         CallConnect(p) \/ CallDisconnect(p) \/ CallWrite(p) \/ DialFail(p) \/
         Announce(p) \/ Fatalf(p) \/ Lock(p) \/ Locked(p) \/ CloseConn(p) \/ SetNil(p)
         \/ CloseChan(p) \/ EmitDisconnected(p) \/ WriteRLock(p) \/ WriteCheck(p) \/
         Send(p) \/ LoopRLock(p) \/ LoopConn(p) \/ ReadClosed(p) \/ ReadError(p) \/
         ReadPacket(p) \/ PacketDone(p) \/ Notify(p) \/ LoopChan(p) \/ Receive(p) \/
         Serialize(p) \/ SerializeError(p) \/ WriteConn(p) \/ ResetBuf(p) \/ BeatStop(p)
         \/ BeatNew(p) \/ BeatWait(p) \/ BeatTick(p)
  PROVE  Alone(p)
<1> USE SmallTypes DEF At, Setting, Alone, localVars, countVars
<1>1. CASE CallConnect(p)
  BY <1>1 DEF CallConnect, MayCall, Call, Goto
<1>2. CASE CallDisconnect(p)
  BY <1>2 DEF CallDisconnect, MayCall, Call, Goto
<1>3. CASE CallWrite(p)
  BY <1>3 DEF CallWrite, MayCall, EnterWrite, Call, Goto
<1>4. CASE DialFail(p)
  BY <1>4 DEF DialFail, Call, Goto
<1>5. CASE Announce(p)
  BY <1>5 DEF Announce, Goto
<1>6. CASE Fatalf(p)
  BY <1>6 DEF Fatalf, Goto
<1>7. CASE Lock(p)
  BY <1>7 DEF Lock, Goto
<1>8. CASE Locked(p)
  BY <1>8 DEF Locked, Unlock, Return, Goto, ReturnLabels
<1>9. CASE CloseConn(p)
  BY <1>9 DEF CloseConn, CloseTransport, Goto
<1>10. CASE SetNil(p)
  BY <1>10 DEF SetNil, ClearConn, Goto
<1>11. CASE CloseChan(p)
  BY <1>11 DEF CloseChan, CloseWriteChan, Goto
<1>12. CASE EmitDisconnected(p)
  BY <1>12 DEF EmitDisconnected, Unlock, Return, Goto, ReturnLabels
<1>13. CASE WriteRLock(p)
  BY <1>13 DEF WriteRLock, RLock, Goto
<1>14. CASE WriteCheck(p)
  BY <1>14 DEF WriteCheck, RUnlock, Return, Goto, ReturnLabels
<1>15. CASE Send(p)
  BY <1>15 DEF Send, RUnlock, Return, Goto, ReturnLabels
<1>16. CASE LoopRLock(p)
  BY <1>16 DEF LoopRLock, RLock, Goto
<1>17. CASE LoopConn(p)
  BY <1>17 DEF LoopConn, RUnlock, Goto
<1>18. CASE ReadClosed(p)
  BY <1>18 DEF ReadClosed, Call, Goto
<1>19. CASE ReadError(p)
  BY <1>19 DEF ReadError, Call, Goto
<1>20. CASE ReadPacket(p)
  BY <1>20 DEF ReadPacket, Goto
<1>21. CASE PacketDone(p)
  BY <1>21 DEF PacketDone, Goto
<1>22. CASE Notify(p)
  BY <1>22 DEF Notify, Return, Goto, ReturnLabels
<1>23. CASE LoopChan(p)
  BY <1>23 DEF LoopChan, Goto
<1>24. CASE Receive(p)
  BY <1>24 DEF Receive, Goto
<1>25. CASE Serialize(p)
  BY <1>25 DEF Serialize, Goto
<1>26. CASE SerializeError(p)
  BY <1>26 DEF SerializeError, ResetWriteBuf, Call, Goto
<1>27. CASE WriteConn(p)
  BY <1>27 DEF WriteConn, Goto
<1>28. CASE ResetBuf(p)
  BY <1>28 DEF ResetBuf, ResetWriteBuf, Call, Goto
<1>29. CASE BeatStop(p)
  BY <1>29 DEF BeatStop, Goto
<1>30. CASE BeatNew(p)
  BY <1>30 DEF BeatNew, Goto
<1>31. CASE BeatWait(p)
  BY <1>31 DEF BeatWait, Goto
<1>32. CASE BeatTick(p)
  BY <1>32 DEF BeatTick, EnterWrite, Call, Goto
<1> QED
  BY <1>1, <1>2, <1>3, <1>4, <1>5, <1>6, <1>7, <1>8, <1>9, <1>10, <1>11, <1>12, <1>13,
     <1>14, <1>15, <1>16, <1>17, <1>18, <1>19, <1>20, <1>21, <1>22, <1>23, <1>24, <1>25,
     <1>26, <1>27, <1>28, <1>29, <1>30, <1>31, <1>32

\* SpawnInv is inductive.
LEMMA SpawnStep ==
  ASSUME TypeInv, SpawnInv, [Next]_vars
  PROVE  SpawnInv'
<1> USE SmallTypes, LoopFacts
<1>1. CASE UNCHANGED vars
  BY <1>1 DEF vars, SpawnInv, localVars, countVars
<1>2. ASSUME NEW a \in Apps, Poll(a)
      PROVE  SpawnInv'
  BY <1>2 DEF Poll, SpawnInv, localVars, countVars
<1>3. ASSUME NEW p \in Procs, DialOk(p)
      PROVE  SpawnInv'
  <2>1. /\ pc[p] # "off" /\ pc[p] \notin Setting /\ pc' = [pc EXCEPT ![p] = "setConn"]
        /\ dialed' = dialed + 1 /\ dialed' \in Conns /\ logons' = logons
        /\ lconn' = [lconn EXCEPT ![p] = dialed']
    BY <1>3, BoundsAssumption DEF BoundsAssumption, DialOk, At, Call, Goto, Setting, Conns
  <2>2. \A q \in Procs : pc[q] = "off" => pc'[q] = "off"
    BY <2>1
  <2>3. pc[Reader(dialed')] = "off" /\ pc[Writer(dialed')] = "off"
    BY <2>1 DEF SpawnInv
  <2>4. lconn'[p] = dialed'
    BY <2>1
  <2>5. \A q \in Procs \ {p} : pc'[q] \in Setting =>
          pc[q] \in Setting /\ lconn'[q] = lconn[q] /\ lconn[q] # dialed'
    BY <2>1
  <2>6. \A g \in Conns : g > dialed' => g > dialed
    BY <2>1 DEF Conns
  <2> QED
    BY <2>1, <2>2, <2>3, <2>4, <2>5, <2>6 DEF SpawnInv
<1>4. ASSUME NEW p \in Procs, SetConn(p)
      PROVE  SpawnInv'
  <2>1. /\ pc[p] \in Setting /\ UNCHANGED <<lconn, dialed, logons>>
        /\ \E l \in Setting : pc' = [pc EXCEPT ![p] = l]
    BY <1>4 DEF SetConn, At, Goto, Setting, localVars, countVars
  <2>2. \A q \in Procs : pc[q] = "off" => pc'[q] = "off"
    BY <2>1 DEF Setting
  <2>3. \A q \in Procs : pc'[q] \in Setting => pc[q] \in Setting
    BY <2>1
  <2> QED
    BY <2>1, <2>2, <2>3 DEF SpawnInv
<1>5. ASSUME NEW p \in Procs, SetChan(p)
      PROVE  SpawnInv'
  <2>1. /\ pc[p] \in Setting /\ pc[p] # "off" /\ UNCHANGED <<lconn, dialed, logons>>
        /\ pc' = [pc EXCEPT ![p] = ret[p], ![Reader(lconn[p])] = "r_lock",
                            ![Writer(lconn[p])] = "l_lock"]
        /\ ret[p] \notin Setting
    BY <1>5 DEF SetChan, At, Setting, ReturnLabels, Reader, Writer, localVars, countVars
  <2>2. /\ Reader(lconn[p]) # p /\ Writer(lconn[p]) # p
        /\ pc'[p] \notin Setting
    BY <2>1 DEF SpawnInv
  <2>3. \A q \in Procs \ {p} : pc'[q] \in Setting => pc[q] \in Setting
    BY <2>1 DEF Setting
  <2>4. \A q \in Procs : pc[q] = "off" /\ q # Reader(lconn[p]) /\ q # Writer(lconn[p])
                            => pc'[q] = "off"
    BY <2>1
  <2>5. \A g \in Conns : g > dialed => g # lconn[p]
    BY <2>1 DEF Conns
  <2>6. \A q \in Procs \ {p} : pc[q] \in Setting => lconn[q] # lconn[p]
    BY <2>1 DEF SpawnInv
  <2>7. \A g \in Conns : g > dialed' => pc'[Reader(g)] = "off" /\ pc'[Writer(g)] = "off"
    BY <2>1, <2>4, <2>5 DEF SpawnInv
  <2>8. \A q \in Procs : pc'[q] \in Setting =>
          pc'[Reader(lconn'[q])] = "off" /\ pc'[Writer(lconn'[q])] = "off"
    <3> SUFFICES ASSUME NEW q \in Procs, pc'[q] \in Setting
                 PROVE  pc'[Reader(lconn[q])] = "off" /\ pc'[Writer(lconn[q])] = "off"
      BY <2>1
    <3>1. /\ pc[q] \in Setting /\ lconn[q] # lconn[p]
          /\ lconn[q] \in Conns /\ lconn[p] \in Conns
      BY <2>1, <2>2, <2>3, <2>6
    <3>2. pc[Reader(lconn[q])] = "off" /\ pc[Writer(lconn[q])] = "off"
      BY <3>1 DEF SpawnInv
    <3> QED
      BY <2>4, <3>1, <3>2
  <2>9. \A q, r \in Procs : pc'[q] \in Setting /\ pc'[r] \in Setting
          /\ lconn'[q] = lconn'[r] => q = r
    BY <2>1, <2>2, <2>3 DEF SpawnInv
  <2>10. \A k \in Tickers : k > logons' => pc'[Beat(k)] = "off"
    BY <2>1, <2>4 DEF SpawnInv
  <2> QED
    BY <2>7, <2>8, <2>9, <2>10 DEF SpawnInv
<1>6. ASSUME NEW p \in Procs, HandlePacket(p)
      PROVE  SpawnInv'
  <2>1. CASE logons' = logons
    BY <1>6, <2>1, AloneSpawn DEF HandlePacket, Alone, EnterWrite, Call, Goto, At, Setting,
       localVars
  <2>2. CASE /\ logons < MaxLogOns /\ logons' = logons + 1 /\ pc[p] = "r_packet"
             /\ pc' = [pc EXCEPT ![p] = "notify", ![Beat(logons + 1)] = "b_stop"]
             /\ UNCHANGED <<lconn, dialed>>
    <3>1. logons + 1 \in Tickers
      BY <2>2, BoundsAssumption DEF BoundsAssumption, Tickers
    <3>2. \A q \in Procs : pc'[q] \in Setting => pc[q] \in Setting
      BY <2>2 DEF Setting
    <3>3. \A q \in Procs : pc[q] = "off" /\ q # Beat(logons + 1) => pc'[q] = "off"
      BY <2>2
    <3>4. \A k \in Tickers : k > logons' => k > logons /\ k # logons + 1
      BY <2>2 DEF Tickers
    <3> QED
      BY <2>2, <3>1, <3>2, <3>3, <3>4 DEF SpawnInv
  <2> QED
    BY <1>6, <2>1, <2>2 DEF HandlePacket, EnterWrite, At, Beat, localVars
<1> QED
  BY <1>1, <1>2, <1>3, <1>4, <1>5, <1>6, AloneSpawn, AloneSteps DEF Next, Run, Rest,
     AppCall, Outside, Step, ConnectStep, DisconnectStep, WriteStep, ReadStep,
     DrainStep, BeatStep, Procs

-----------------------------------------------------------------------------
(* The lock *)

\* Who holds c.mutex, and in which mode, as seen from the statements the goroutines are at.
LockInv ==
  /\ \A p \in readers : pc[p] \in {"check", "send", "r_conn", "l_conn"}
  /\ \A p \in rwait : pc[p] \in {"check", "r_conn", "l_conn"}
  /\ readers \cap rwait = {}
  /\ \A p \in Procs : pc[p] = "send" => p \in readers
  /\ \A p \in Procs : pc[p] \in HeldLabels \cup {"lockWait"} => writer = p
  /\ \A p \in Procs : pc[p] \in HeldLabels => readers = {}

\* The placeholder for "no writer" is no goroutine.
LEMMA NobodyRuns == NoProc \notin Procs
  BY AppsAssumption DEF AppsAssumption, NoProc, Procs, Loops, ReadLoops, WriteLoops, Beats

\* LockInv is inductive: one step per action.
LEMMA LockStep ==
  ASSUME TypeInv, SpawnInv, LockInv, [Next]_vars
  PROVE  LockInv'
<1> USE SmallTypes, NobodyRuns DEF At, HeldLabels, LockInv, lockVars
<1>1. CASE UNCHANGED vars
  BY <1>1 DEF vars
<1>2. ASSUME NEW a \in Apps, Poll(a)
      PROVE  LockInv'
  BY <1>2 DEF Poll
<1>3. ASSUME NEW p \in Procs, SetChan(p)
      PROVE  LockInv'
  <2>1. /\ pc[p] \in Setting /\ lconn[p] \in Conns
        /\ pc' = [pc EXCEPT ![p] = ret[p], ![Reader(lconn[p])] = "r_lock",
                            ![Writer(lconn[p])] = "l_lock"]
        /\ UNCHANGED lockVars
    BY <1>3 DEF SetChan, Setting, Reader, Writer
  <2>2. pc[p] = "setChan" /\ pc[Reader(lconn[p])] = "off" /\ pc[Writer(lconn[p])] = "off"
    BY <1>3, <2>1 DEF SetChan, SpawnInv
  <2>3. \A q \in Procs :
          \/ pc'[q] = pc[q]
          \/ pc[q] \in {"setChan", "off"} /\ pc'[q] \in ReturnLabels \cup {"r_lock", "l_lock"}
    BY <2>1, <2>2
  <2> QED
    BY <2>1, <2>3 DEF ReturnLabels
<1>4. ASSUME NEW p \in Procs, HandlePacket(p)
      PROVE  LockInv'
  <2>1. UNCHANGED lockVars /\ pc[p] = "r_packet"
    BY <1>4 DEF HandlePacket
  <2>2. \A q \in Procs :
          \/ pc'[q] = pc[q]
          \/ pc[q] \in {"r_packet", "off"} /\ pc'[q] \in {"notify", "fatal", "rlock", "r_nil", "b_stop"}
    <3>1. CASE UNCHANGED pc
      BY <3>1
    <3>2. CASE \E l \in {"notify", "fatal", "rlock", "r_nil"} : pc' = [pc EXCEPT ![p] = l]
      BY <2>1, <3>2
    <3>3. CASE /\ logons < MaxLogOns
               /\ pc' = [pc EXCEPT ![p] = "notify", ![Beat(logons + 1)] = "b_stop"]
      <4>1. logons + 1 \in Tickers /\ logons + 1 > logons
        BY <3>3, BoundsAssumption DEF BoundsAssumption, Tickers
      <4>2. pc[Beat(logons + 1)] = "off"
        BY <4>1 DEF SpawnInv
      <4> QED
        BY <2>1, <3>3, <4>2
    <3> QED
      BY <1>4, <3>1, <3>2, <3>3 DEF HandlePacket, EnterWrite, Call, Goto, Beat
  <2> QED
    BY <2>1, <2>2
<1>5. ASSUME NEW p \in Procs, CallConnect(p)
      PROVE  LockInv'
  BY <1>5 DEF CallConnect, MayCall, Call, Goto
<1>6. ASSUME NEW p \in Procs, CallDisconnect(p)
      PROVE  LockInv'
  BY <1>6 DEF CallDisconnect, MayCall, Call, Goto
<1>7. ASSUME NEW p \in Procs, CallWrite(p)
      PROVE  LockInv'
  BY <1>7 DEF CallWrite, MayCall, EnterWrite, Call, Goto
<1>8. ASSUME NEW p \in Procs, DialFail(p)
      PROVE  LockInv'
  BY <1>8 DEF DialFail, Call, Goto
<1>9. ASSUME NEW p \in Procs, Announce(p)
      PROVE  LockInv'
  BY <1>9 DEF Announce, Goto
<1>10. ASSUME NEW p \in Procs, Fatalf(p)
      PROVE  LockInv'
  BY <1>10 DEF Fatalf, Goto
<1>11. ASSUME NEW p \in Procs, Lock(p)
      PROVE  LockInv'
  BY <1>11 DEF Lock, Goto
<1>12. ASSUME NEW p \in Procs, Locked(p)
      PROVE  LockInv'
  BY <1>12 DEF Locked, Unlock, Return, Goto, ReturnLabels
<1>13. ASSUME NEW p \in Procs, CloseConn(p)
      PROVE  LockInv'
  BY <1>13 DEF CloseConn, CloseTransport, Goto
<1>14. ASSUME NEW p \in Procs, SetNil(p)
      PROVE  LockInv'
  BY <1>14 DEF SetNil, ClearConn, Goto
<1>15. ASSUME NEW p \in Procs, CloseChan(p)
      PROVE  LockInv'
  BY <1>15 DEF CloseChan, CloseWriteChan, Goto
<1>16. ASSUME NEW p \in Procs, EmitDisconnected(p)
      PROVE  LockInv'
  BY <1>16 DEF EmitDisconnected, Unlock, Return, Goto, ReturnLabels
<1>17. ASSUME NEW p \in Procs, WriteRLock(p)
      PROVE  LockInv'
  BY <1>17 DEF WriteRLock, RLock, Goto
<1>18. ASSUME NEW p \in Procs, WriteCheck(p)
      PROVE  LockInv'
  BY <1>18 DEF WriteCheck, RUnlock, Return, Goto, ReturnLabels
<1>19. ASSUME NEW p \in Procs, Send(p)
      PROVE  LockInv'
  BY <1>19 DEF Send, RUnlock, Return, Goto, ReturnLabels
<1>20. ASSUME NEW p \in Procs, LoopRLock(p)
      PROVE  LockInv'
  BY <1>20 DEF LoopRLock, RLock, Goto
<1>21. ASSUME NEW p \in Procs, LoopConn(p)
      PROVE  LockInv'
  BY <1>21 DEF LoopConn, RUnlock, Goto
<1>22. ASSUME NEW p \in Procs, ReadClosed(p)
      PROVE  LockInv'
  BY <1>22 DEF ReadClosed, Call, Goto
<1>23. ASSUME NEW p \in Procs, ReadError(p)
      PROVE  LockInv'
  BY <1>23 DEF ReadError, Call, Goto
<1>24. ASSUME NEW p \in Procs, ReadPacket(p)
      PROVE  LockInv'
  BY <1>24 DEF ReadPacket, Goto
<1>25. ASSUME NEW p \in Procs, PacketDone(p)
      PROVE  LockInv'
  BY <1>25 DEF PacketDone, Goto
<1>26. ASSUME NEW p \in Procs, Notify(p)
      PROVE  LockInv'
  BY <1>26 DEF Notify, Return, Goto, ReturnLabels
<1>27. ASSUME NEW p \in Procs, LoopChan(p)
      PROVE  LockInv'
  BY <1>27 DEF LoopChan, Goto
<1>28. ASSUME NEW p \in Procs, Receive(p)
      PROVE  LockInv'
  BY <1>28 DEF Receive, Goto
<1>29. ASSUME NEW p \in Procs, Serialize(p)
      PROVE  LockInv'
  BY <1>29 DEF Serialize, Goto
<1>30. ASSUME NEW p \in Procs, SerializeError(p)
      PROVE  LockInv'
  BY <1>30 DEF SerializeError, ResetWriteBuf, Call, Goto
<1>31. ASSUME NEW p \in Procs, WriteConn(p)
      PROVE  LockInv'
  BY <1>31 DEF WriteConn, Goto
<1>32. ASSUME NEW p \in Procs, ResetBuf(p)
      PROVE  LockInv'
  BY <1>32 DEF ResetBuf, ResetWriteBuf, Call, Goto
<1>33. ASSUME NEW p \in Procs, BeatStop(p)
      PROVE  LockInv'
  BY <1>33 DEF BeatStop, Goto
<1>34. ASSUME NEW p \in Procs, BeatNew(p)
      PROVE  LockInv'
  BY <1>34 DEF BeatNew, Goto
<1>35. ASSUME NEW p \in Procs, BeatWait(p)
      PROVE  LockInv'
  BY <1>35 DEF BeatWait, Goto
<1>36. ASSUME NEW p \in Procs, BeatTick(p)
      PROVE  LockInv'
  BY <1>36 DEF BeatTick, EnterWrite, Call, Goto
<1>37. ASSUME NEW p \in Procs, DialOk(p)
      PROVE  LockInv'
  BY <1>37 DEF DialOk, Call, Goto
<1>38. ASSUME NEW p \in Procs, SetConn(p)
      PROVE  LockInv'
  BY <1>38 DEF SetConn, Goto
<1> QED
  BY <1>1, <1>2, <1>3, <1>4, <1>5, <1>6, <1>7, <1>8, <1>9, <1>10, <1>11, <1>12, <1>13,
     <1>14, <1>15, <1>16, <1>17, <1>18, <1>19, <1>20, <1>21, <1>22, <1>23, <1>24, <1>25,
     <1>26, <1>27, <1>28, <1>29, <1>30, <1>31, <1>32, <1>33, <1>34, <1>35, <1>36, <1>37,
     <1>38 DEF Next, Run, Rest, AppCall, Outside, Step, ConnectStep, DisconnectStep,
     WriteStep, ReadStep, DrainStep, BeatStep, Procs

\* At the start no goroutine of the library runs and nobody holds the lock.
LEMMA InitLock == Init => SpawnInv /\ LockInv
  BY LoopFacts, NobodyRuns, AppsAssumption DEF AppsAssumption, Init, SpawnInv, LockInv,
     Setting,
     HeldLabels, Reader, Writer, Beat, Loops, ReadLoops, WriteLoops, Beats, Procs

\* The inductive invariant of the lock.
LEMMA LockInvariant == Spec => [](TypeInv /\ SpawnInv /\ LockInv)
<1>1. Init => TypeInv /\ SpawnInv /\ LockInv
  BY InitType, InitLock
<1>2. TypeInv /\ SpawnInv /\ LockInv /\ [Next]_vars => (TypeInv /\ SpawnInv /\ LockInv)'
  BY TypeStep, SpawnStep, LockStep
<1> QED
  BY <1>1, <1>2, PTL DEF Spec

\* While Disconnect is behind mutex.Lock(), no other goroutine is, and none holds the read
\* lock: the writer preference of the RWMutex and the deferred Unlocks of client.go suffice.
THEOREM LockIsExclusive == Spec => []LockExclusion
<1>1. TypeInv /\ SpawnInv /\ LockInv => LockExclusion
  BY DEF LockInv, LockExclusion
<1> QED
  BY <1>1, LockInvariant, PTL

\* No other statement than close(c.writeChan) in Disconnect closes a channel.
LEMMA OnlyCloseChanCloses ==
  ASSUME [Next]_vars, closed' # closed
  PROVE  \E p \in Procs : CloseChan(p)
<1> USE DEF chanVars
<1>1. ~ UNCHANGED vars
  BY DEF vars
<1>2. ASSUME NEW a \in Apps, AppCall(a) \/ Poll(a)
      PROVE  FALSE
  BY <1>2 DEF AppCall, CallConnect, CallDisconnect, CallWrite, Poll
<1>3. ASSUME NEW p \in Procs, ConnectStep(p)
      PROVE  FALSE
  BY <1>3 DEF ConnectStep, DialOk, DialFail, SetConn, SetChan, Announce
<1>4. ASSUME NEW p \in Procs, DisconnectStep(p)
      PROVE  CloseChan(p)
  BY <1>4 DEF DisconnectStep, Fatalf, Lock, Locked, CloseConn, CloseTransport, SetNil,
     ClearConn, EmitDisconnected
<1>5. ASSUME NEW p \in Procs, WriteStep(p)
      PROVE  FALSE
  BY <1>5 DEF WriteStep, WriteRLock, WriteCheck, Send
<1>6. ASSUME NEW p \in Procs, ReadStep(p) \/ Outside(p)
      PROVE  FALSE
  BY <1>6 DEF ReadStep, LoopRLock, LoopConn, ReadClosed, HandlePacket, PacketDone, Notify,
     Outside, ReadError, ReadPacket, BeatTick
<1>7. ASSUME NEW p \in Procs, DrainStep(p) \/ BeatStep(p)
      PROVE  FALSE
  BY <1>7 DEF DrainStep, LoopChan, Receive, Serialize, SerializeError, ResetWriteBuf,
     WriteConn, ResetBuf, BeatStep, BeatStop, BeatNew, BeatWait
<1> QED
  BY <1>1, <1>2, <1>3, <1>4, <1>5, <1>6, <1>7 DEF Next, Run, Rest, Step

\* A channel is never closed under a goroutine that is blocked sending to it, whatever the
\* other goroutines do: Write keeps the read lock for as long as it waits for room.
THEOREM SendersAreSafe == Spec => NoCloseUnderSender
<1>1. TypeInv /\ SpawnInv /\ LockInv /\ [Next]_vars =>
        [\A g \in Conns : closed'[g] /\ ~closed[g] =>
           \A p \in Procs : ~(At(p, "send") /\ lchan[p] = g)]_vars
  <2> SUFFICES ASSUME TypeInv, SpawnInv, LockInv, [Next]_vars,
                      NEW g \in Conns, closed'[g], ~closed[g],
                      NEW q \in Procs, At(q, "send")
               PROVE  FALSE
    OBVIOUS
  <2>1. \E p \in Procs : CloseChan(p)
    <3>1. closed' # closed
      OBVIOUS
    <3> QED
      BY <3>1, OnlyCloseChanCloses
  <2>2. readers = {}
    BY <2>1 DEF CloseChan, CloseWriteChan, At, LockInv, HeldLabels
  <2> QED
    BY <2>2 DEF LockInv, At
<1> QED
  BY <1>1, LockInvariant, PTL DEF Spec, NoCloseUnderSender

-----------------------------------------------------------------------------
(* One DisconnectedEvent per connection *)

\* A connection is announced as disconnected when it is closed and out of c.conn for good.
ConnInv ==
  /\ \A g \in Conns : discon[g] <= 1
  /\ \A g \in Conns : discon[g] > 0 => g <= dialed /\ sock[g] = "closed" /\ conn # g
  /\ conn \in Conns => conn <= dialed
  /\ \A p \in Procs : pc[p] \in {"setConn", "setConn2"} =>
       discon[lconn[p]] = 0 /\ conn # lconn[p] /\ closing # lconn[p]
  /\ \A p \in Procs : pc[p] \in {"setNil", "closeChan", "emitDisc"} =>
       /\ closing \in Conns
       /\ sock[closing] = "closed" /\ discon[closing] = 0
       /\ pc[p] # "setNil" => conn # closing
  /\ closing <= dialed

\* ConnInv is inductive: one step per action.
LEMMA ConnStep ==
  ASSUME TypeInv, SpawnInv, LockInv, ConnInv, [Next]_vars
  PROVE  ConnInv'
<1>1. /\ conn \in Conns \cup {Nil, Torn} /\ closing \in Conns \cup {Nil}
      /\ discon \in [Conns -> Nat] /\ sock \in [Conns -> {"none", "open", "closed"}]
  BY DEF TypeInv, TypeOK
<1> USE <1>1, SmallTypes DEF At, ConnInv, histVars, localVars, countVars
<1>2. CASE UNCHANGED vars
  BY <1>2 DEF vars
<1>3. ASSUME NEW a \in Apps, Poll(a)
      PROVE  ConnInv'
  BY <1>3 DEF Poll
<1>4. ASSUME NEW p \in Procs, CallConnect(p)
      PROVE  ConnInv'
  BY <1>4 DEF CallConnect, MayCall, Call, Goto
<1>5. ASSUME NEW p \in Procs, CallDisconnect(p)
      PROVE  ConnInv'
  BY <1>5 DEF CallDisconnect, MayCall, Call, Goto
<1>6. ASSUME NEW p \in Procs, CallWrite(p)
      PROVE  ConnInv'
  BY <1>6 DEF CallWrite, MayCall, EnterWrite, Call, Goto
<1>7. ASSUME NEW p \in Procs, DialFail(p)
      PROVE  ConnInv'
  BY <1>7 DEF DialFail, Call, Goto
<1>8. ASSUME NEW p \in Procs, Announce(p)
      PROVE  ConnInv'
  BY <1>8 DEF Announce, Goto
<1>9. ASSUME NEW p \in Procs, Fatalf(p)
      PROVE  ConnInv'
  BY <1>9 DEF Fatalf, Goto
<1>10. ASSUME NEW p \in Procs, Lock(p)
      PROVE  ConnInv'
  BY <1>10 DEF Lock, Goto
<1>11. ASSUME NEW p \in Procs, Locked(p)
      PROVE  ConnInv'
  BY <1>11 DEF Locked, Unlock, Return, Goto, ReturnLabels
<1>12. ASSUME NEW p \in Procs, CloseConn(p)
      PROVE  ConnInv'
  <2>1. pc[p] = "close"
    BY <1>12 DEF CloseConn, CloseTransport
  <2>2. \A q \in Procs : pc[q] \in HeldLabels => q = p
    BY <1>12, <2>1 DEF LockInv, HeldLabels
  <2>3. CASE conn \in Conns
    <3>1. /\ sock' = [sock EXCEPT ![conn] = "closed"] /\ closing' = conn
          /\ pc' = [pc EXCEPT ![p] = "setNil"] /\ UNCHANGED <<conn, discon, lconn, dialed>>
      BY <1>12, <2>3 DEF CloseConn, CloseTransport, Goto
    <3>2. discon[conn] = 0
      BY <2>3
    <3>3. \A g \in Conns : sock[g] = "closed" => sock'[g] = "closed"
      BY <3>1
    <3>4. sock'[conn] = "closed"
      BY <2>3, <3>1
    <3>5. \A q \in Procs : pc'[q] \in {"setNil", "closeChan", "emitDisc"} => pc'[q] = "setNil"
      BY <2>2, <3>1 DEF HeldLabels
    <3>6. \A q \in Procs : pc'[q] \in {"setConn", "setConn2"} => pc[q] = pc'[q]
      BY <3>1
    <3> QED
      BY <2>3, <3>1, <3>2, <3>3, <3>4, <3>5, <3>6
  <2>4. CASE conn \notin Conns
    BY <1>12, <2>4 DEF CloseConn, CloseTransport
  <2> QED
    BY <2>3, <2>4
<1>13. ASSUME NEW p \in Procs, SetNil(p)
      PROVE  ConnInv'
  <2>1. pc[p] = "setNil" /\ pc' = [pc EXCEPT ![p] = "closeChan"] /\ conn' = Nil
        /\ UNCHANGED <<sock, closing, discon, lconn, dialed>>
    BY <1>13 DEF SetNil, ClearConn, Goto
  <2>2. \A q \in Procs : pc[q] \in HeldLabels => q = p
    BY <1>13, <2>1 DEF LockInv, HeldLabels
  <2>3. \A q \in Procs : pc'[q] \in {"setNil", "closeChan", "emitDisc"} => q = p
    BY <2>1, <2>2 DEF HeldLabels
  <2>4. \A q \in Procs : pc'[q] \in {"setConn", "setConn2"} => pc[q] = pc'[q]
    BY <2>1
  <2>5. Nil \notin Conns
    BY DEF Nil, Conns
  <2>6. \A q \in Procs : pc[q] \in {"setConn", "setConn2"} => lconn[q] \in Conns
    BY DEF Setting
  <2> QED
    BY <2>1, <2>3, <2>4, <2>5, <2>6
<1>14. ASSUME NEW p \in Procs, CloseChan(p)
      PROVE  ConnInv'
  BY <1>14 DEF CloseChan, CloseWriteChan, Goto
<1>15. ASSUME NEW p \in Procs, EmitDisconnected(p)
      PROVE  ConnInv'
  <2>1. /\ pc[p] = "emitDisc" /\ pc' = [pc EXCEPT ![p] = ret[p]] /\ closing' = Nil
        /\ discon' = [discon EXCEPT ![closing] = discon[closing] + 1]
        /\ \A q \in Procs \ {p} : lconn'[q] = lconn[q]
        /\ UNCHANGED <<sock, conn, dialed>>
    BY <1>15 DEF EmitDisconnected, Return, Goto
  <2>2. \A q \in Procs : pc[q] \in HeldLabels => q = p
    BY <1>15, <2>1 DEF LockInv, HeldLabels
  <2>3. closing \in Conns /\ discon[closing] = 0 /\ conn # closing
    BY <2>1
  <2>4. \A q \in Procs : pc'[q] \notin {"setNil", "closeChan", "emitDisc"}
    BY <2>1, <2>2 DEF HeldLabels, ReturnLabels
  <2>5. \A q \in Procs : pc'[q] \in {"setConn", "setConn2"} =>
          pc[q] = pc'[q] /\ lconn'[q] = lconn[q] /\ lconn[q] \in Conns /\ lconn[q] # closing
    BY <2>1 DEF Setting, ReturnLabels
  <2>6. \A g \in Conns : discon'[g] = IF g = closing THEN 1 ELSE discon[g]
    BY <2>1, <2>3
  <2>7. Nil \notin Conns /\ closing' <= dialed'
    BY <2>1 DEF Nil, Conns
  <2> QED
    BY <2>1, <2>3, <2>4, <2>5, <2>6, <2>7
<1>16. ASSUME NEW p \in Procs, WriteRLock(p)
      PROVE  ConnInv'
  BY <1>16 DEF WriteRLock, RLock, Goto
<1>17. ASSUME NEW p \in Procs, WriteCheck(p)
      PROVE  ConnInv'
  BY <1>17 DEF WriteCheck, RUnlock, Return, Goto, ReturnLabels
<1>18. ASSUME NEW p \in Procs, Send(p)
      PROVE  ConnInv'
  BY <1>18 DEF Send, RUnlock, Return, Goto, ReturnLabels
<1>19. ASSUME NEW p \in Procs, LoopRLock(p)
      PROVE  ConnInv'
  BY <1>19 DEF LoopRLock, RLock, Goto
<1>20. ASSUME NEW p \in Procs, LoopConn(p)
      PROVE  ConnInv'
  BY <1>20 DEF LoopConn, RUnlock, Goto
<1>21. ASSUME NEW p \in Procs, ReadClosed(p)
      PROVE  ConnInv'
  BY <1>21 DEF ReadClosed, Call, Goto
<1>22. ASSUME NEW p \in Procs, ReadError(p)
      PROVE  ConnInv'
  BY <1>22 DEF ReadError, Call, Goto
<1>23. ASSUME NEW p \in Procs, ReadPacket(p)
      PROVE  ConnInv'
  BY <1>23 DEF ReadPacket, Goto
<1>24. ASSUME NEW p \in Procs, PacketDone(p)
      PROVE  ConnInv'
  BY <1>24 DEF PacketDone, Goto
<1>25. ASSUME NEW p \in Procs, Notify(p)
      PROVE  ConnInv'
  BY <1>25 DEF Notify, Return, Goto, ReturnLabels
<1>26. ASSUME NEW p \in Procs, LoopChan(p)
      PROVE  ConnInv'
  BY <1>26 DEF LoopChan, Goto
<1>27. ASSUME NEW p \in Procs, Receive(p)
      PROVE  ConnInv'
  BY <1>27 DEF Receive, Goto
<1>28. ASSUME NEW p \in Procs, Serialize(p)
      PROVE  ConnInv'
  BY <1>28 DEF Serialize, Goto
<1>29. ASSUME NEW p \in Procs, SerializeError(p)
      PROVE  ConnInv'
  BY <1>29 DEF SerializeError, ResetWriteBuf, Call, Goto
<1>30. ASSUME NEW p \in Procs, WriteConn(p)
      PROVE  ConnInv'
  BY <1>30 DEF WriteConn, Goto
<1>31. ASSUME NEW p \in Procs, ResetBuf(p)
      PROVE  ConnInv'
  BY <1>31 DEF ResetBuf, ResetWriteBuf, Call, Goto
<1>32. ASSUME NEW p \in Procs, BeatStop(p)
      PROVE  ConnInv'
  BY <1>32 DEF BeatStop, Goto
<1>33. ASSUME NEW p \in Procs, BeatNew(p)
      PROVE  ConnInv'
  BY <1>33 DEF BeatNew, Goto
<1>34. ASSUME NEW p \in Procs, BeatWait(p)
      PROVE  ConnInv'
  BY <1>34 DEF BeatWait, Goto
<1>35. ASSUME NEW p \in Procs, BeatTick(p)
      PROVE  ConnInv'
  BY <1>35 DEF BeatTick, EnterWrite, Call, Goto
<1>36. ASSUME NEW p \in Procs, DialOk(p)
      PROVE  ConnInv'
  <2>1. /\ pc[p] \notin Setting /\ pc' = [pc EXCEPT ![p] = "setConn"]
        /\ dialed' = dialed + 1 /\ dialed' \in Conns /\ lconn' = [lconn EXCEPT ![p] = dialed']
        /\ sock' = [sock EXCEPT ![dialed'] = "open"] /\ UNCHANGED <<conn, closing, discon>>
    BY <1>36, BoundsAssumption DEF BoundsAssumption, DialOk, Call, Goto, Setting, Conns
  <2>2. \A g \in Conns : g <= dialed => g <= dialed' /\ g # dialed'
    BY <2>1 DEF Conns
  <2>3. discon[dialed'] = 0 /\ conn # dialed' /\ closing # dialed' /\ closing <= dialed'
    BY <2>1, <2>2 DEF Conns, Nil, Torn
  <2>4. \A q \in Procs : pc'[q] \in {"setConn", "setConn2"} =>
          \/ q = p /\ lconn'[q] = dialed'
          \/ pc[q] = pc'[q] /\ lconn'[q] = lconn[q]
    BY <2>1
  <2>5. \A q \in Procs : pc'[q] \in {"setNil", "closeChan", "emitDisc"} => pc[q] = pc'[q]
    BY <2>1
  <2>6. \A g \in Conns : g # dialed' => sock'[g] = sock[g]
    BY <2>1
  <2> QED
    BY <2>1, <2>2, <2>3, <2>4, <2>5, <2>6
<1>37. ASSUME NEW p \in Procs, SetConn(p)
      PROVE  ConnInv'
  <2>1. /\ pc[p] \in {"setConn", "setConn2"}
        /\ \/ conn' = Torn /\ pc' = [pc EXCEPT ![p] = "setConn2"]
           \/ conn' = lconn[p] /\ pc' = [pc EXCEPT ![p] = "setChan"]
        /\ UNCHANGED <<sock, closing, discon, lconn, dialed>>
    BY <1>37 DEF SetConn, Goto
  <2>2. lconn[p] \in Conns /\ lconn[p] <= dialed
    BY <2>1 DEF Setting
  <2>3. \A q \in Procs : pc'[q] \in {"setNil", "closeChan", "emitDisc"} => pc[q] = pc'[q]
    BY <2>1
  <2>4. \A q \in Procs : pc'[q] \in {"setConn", "setConn2"} =>
          pc[q] \in {"setConn", "setConn2"} /\ lconn[q] \in Conns
    BY <2>1 DEF Setting
  <2>5. CASE conn' = Torn
    <3>1. Torn \notin Conns
      BY DEF Torn, Conns
    <3> QED
      BY <2>1, <2>3, <2>4, <2>5, <3>1
  <2>6. CASE conn' = lconn[p] /\ pc' = [pc EXCEPT ![p] = "setChan"]
    <3>1. \A q \in Procs : pc'[q] \in {"setConn", "setConn2"} => lconn[q] # lconn[p]
      BY <2>1, <2>6 DEF SpawnInv, Setting
    <3> QED
      BY <2>1, <2>2, <2>3, <2>4, <2>6, <3>1
  <2> QED
    BY <2>1, <2>5, <2>6
<1>38. ASSUME NEW p \in Procs, SetChan(p)
      PROVE  ConnInv'
  BY <1>38 DEF SetChan, Reader, Writer, ReturnLabels
<1>39. ASSUME NEW p \in Procs, HandlePacket(p)
      PROVE  ConnInv'
  BY <1>39 DEF HandlePacket, Call, Goto, EnterWrite
<1> QED
  BY <1>1, <1>2, <1>3, <1>4, <1>5, <1>6, <1>7, <1>8, <1>9, <1>10, <1>11, <1>12, <1>13,
     <1>14, <1>15, <1>16, <1>17, <1>18, <1>19, <1>20, <1>21, <1>22, <1>23, <1>24, <1>25,
     <1>26, <1>27, <1>28, <1>29, <1>30, <1>31, <1>32, <1>33, <1>34, <1>35, <1>36, <1>37,
     <1>38, <1>39 DEF Next, Run, Rest, AppCall, Outside, Step, ConnectStep,
     DisconnectStep, WriteStep, ReadStep, DrainStep, BeatStep, Procs

\* However many goroutines disconnect a connection, one DisconnectedEvent is emitted for it,
\* after its transport was closed; this does not depend on the application's discipline.
THEOREM DisconnectedOnce == Spec => []OneDisconnected
<1>1. Init => ConnInv
  BY BoundsAssumption DEF BoundsAssumption, Init, ConnInv, Conns, Nil
<1>2. TypeInv /\ SpawnInv /\ LockInv /\ ConnInv /\ [Next]_vars => ConnInv'
  BY ConnStep
<1>3. TypeInv /\ ConnInv => OneDisconnected
  BY DEF TypeInv, TypeOK, ConnInv, OneDisconnected
<1> QED
  BY <1>1, <1>2, <1>3, LockInvariant, PTL DEF Spec
-----------------------------------------------------------------------------
(* The first connection *)

\* What a goroutine was started for says which statements it comes to.
RoleInv ==
  /\ \A p \in Procs : pc[p] \in ConnectLabels \/ ret[p] \in {"dialTCP", "dialWS", "announce"}
       => p \in Apps
  /\ \A p \in Procs : ret[p] \in {"dialTCP", "dialWS"} => pc[p] \in LockLabels
  /\ \A p \in Procs : ret[p] = "announce" => pc[p] \in Setting
  /\ \A p \in Procs : pc[p] \in (ReadLabels \ {"fatal"}) \/ ret[p] = "r_packet"
       => p \in ReadLoops
  /\ \A p \in Procs : pc[p] \in DrainLabels => p \in WriteLoops

\* An application that lets nothing overlap a Connect: one that is in progress is alone.
ExclusiveInv == \A a, b \in Apps : InConnect(a) /\ b # a => pc[b] = "idle"

Started == {"idle", "off"}

\* As long as one connection was dialed at most, nobody runs beside the goroutine that stores
\* it; from then on c.conn leads to an open channel until the Disconnect that clears it.
OneConn ==
  /\ dialed = 0 => \A p \in Procs \ Apps : pc[p] = "off"
  /\ \A p, q \in Procs : pc[p] \in Setting /\ q # p => pc[q] \in Started
  /\ conn = Torn => \E p \in Procs : pc[p] = "setConn2"
  /\ \A p \in Procs : lconn[p] # Torn
  /\ \A p \in Procs : pc[p] \in Setting => ~closed[lconn[p]]
  /\ conn \in Conns => ~closed[conn] /\ (writeChan = conn \/ \E p \in Procs : pc[p] = "setChan")
  /\ \A p \in Procs : pc[p] \in {"close", "setNil"} => conn \in Conns
  /\ \A p \in Procs : pc[p] = "setNil" => closing = conn
  /\ \A p \in Procs : pc[p] = "closeChan" => writeChan = closing /\ ~closed[closing]
  /\ \A p \in Procs : pc[p] = "send" => conn \in Conns /\ lchan[p] = conn

FirstInv ==
  /\ writeChan <= dialed
  /\ \A g \in Conns : closed[g] => g <= dialed
  /\ dialed <= 1 => OneConn

\* The labels of the roles are inductive: one step per action.
LEMMA RoleStep ==
  ASSUME TypeInv, SpawnInv, RoleInv, [Next]_vars
  PROVE  RoleInv'
<1> USE SmallTypes DEF At, RoleInv, ConnectLabels, ReadLabels, DrainLabels,
        LockLabels, Setting
<1>1. CASE UNCHANGED vars
  BY <1>1 DEF vars
<1>2. ASSUME NEW a \in Apps, Poll(a)
      PROVE  RoleInv'
  BY <1>2 DEF Poll
<1>3. ASSUME NEW a \in Apps, CallConnect(a)
      PROVE  RoleInv'
  BY <1>3 DEF CallConnect, MayCall, Call, Goto, Procs
<1>4. ASSUME NEW a \in Apps, CallDisconnect(a)
      PROVE  RoleInv'
  BY <1>4 DEF CallDisconnect, MayCall, Call, Goto, Procs
<1>5. ASSUME NEW a \in Apps, CallWrite(a)
      PROVE  RoleInv'
  BY <1>5 DEF CallWrite, MayCall, EnterWrite, Call, Goto, Procs
<1>6. ASSUME NEW p \in Procs, DialFail(p)
      PROVE  RoleInv'
  BY <1>6 DEF DialFail, Call, Goto
<1>7. ASSUME NEW p \in Procs, Announce(p)
      PROVE  RoleInv'
  BY <1>7 DEF Announce, Goto
<1>8. ASSUME NEW p \in Procs, Fatalf(p)
      PROVE  RoleInv'
  BY <1>8 DEF Fatalf, Goto
<1>9. ASSUME NEW p \in Procs, Lock(p)
      PROVE  RoleInv'
  BY <1>9 DEF Lock, Goto
<1>10. ASSUME NEW p \in Procs, Locked(p)
      PROVE  RoleInv'
  BY <1>10 DEF Locked, Unlock, Return, Goto, ReturnLabels
<1>11. ASSUME NEW p \in Procs, CloseConn(p)
      PROVE  RoleInv'
  BY <1>11 DEF CloseConn, CloseTransport, Panic, Goto
<1>12. ASSUME NEW p \in Procs, SetNil(p)
      PROVE  RoleInv'
  BY <1>12 DEF SetNil, ClearConn, Goto
<1>13. ASSUME NEW p \in Procs, CloseChan(p)
      PROVE  RoleInv'
  BY <1>13 DEF CloseChan, CloseWriteChan, Panic, Goto
<1>14. ASSUME NEW p \in Procs, EmitDisconnected(p)
      PROVE  RoleInv'
  BY <1>14 DEF EmitDisconnected, Unlock, Return, Goto, ReturnLabels
<1>15. ASSUME NEW p \in Procs, WriteRLock(p)
      PROVE  RoleInv'
  BY <1>15 DEF WriteRLock, RLock, Goto
<1>16. ASSUME NEW p \in Procs, WriteCheck(p)
      PROVE  RoleInv'
  BY <1>16 DEF WriteCheck, RUnlock, Return, Goto, ReturnLabels
<1>17. ASSUME NEW p \in Procs, Send(p)
      PROVE  RoleInv'
  <2>1. CASE UNCHANGED <<pc, ret>>
    BY <2>1
  <2>2. CASE Return(p)
    BY <1>17, <2>2 DEF Send, Return, Goto, ReturnLabels
  <2> QED
    BY <1>17, <2>1, <2>2 DEF Send
<1>18. ASSUME NEW p \in Procs, LoopRLock(p)
      PROVE  RoleInv'
  BY <1>18 DEF LoopRLock, RLock, Goto
<1>19. ASSUME NEW p \in Procs, LoopConn(p)
      PROVE  RoleInv'
  BY <1>19 DEF LoopConn, RUnlock, Goto
<1>20. ASSUME NEW p \in Procs, ReadClosed(p)
      PROVE  RoleInv'
  BY <1>20 DEF ReadClosed, Call, Panic, Goto
<1>21. ASSUME NEW p \in Procs, ReadError(p)
      PROVE  RoleInv'
  BY <1>21 DEF ReadError, Call, Goto
<1>22. ASSUME NEW p \in Procs, ReadPacket(p)
      PROVE  RoleInv'
  BY <1>22 DEF ReadPacket, Goto
<1>23. ASSUME NEW p \in Procs, HandlePacket(p)
      PROVE  RoleInv'
  <2>1. /\ pc[p] = "r_packet" /\ p \in ReadLoops
        /\ \A q \in Procs : q # p => ret'[q] = ret[q]
        /\ ret'[p] \in {ret[p], "r_packet"}
    BY <1>23 DEF HandlePacket, EnterWrite, Call, Goto
  <2>2. logons < MaxLogOns => /\ logons + 1 \in Tickers /\ logons + 1 > logons
                              /\ pc[Beat(logons + 1)] = "off"
    BY BoundsAssumption DEF BoundsAssumption, Tickers, SpawnInv
  <2>3. \A q \in Procs : \/ pc'[q] = pc[q]
                         \/ q = p /\ pc'[q] \in {"rlock", "fatal", "notify", "r_nil"}
                         \/ pc[q] = "off" /\ pc'[q] = "b_stop"
    BY <1>23, <2>1, <2>2 DEF HandlePacket, EnterWrite, Call, Goto, Beat
  <2> QED
    BY <2>1, <2>3
<1>24. ASSUME NEW p \in Procs, PacketDone(p)
      PROVE  RoleInv'
  BY <1>24 DEF PacketDone, Goto
<1>25. ASSUME NEW p \in Procs, Notify(p)
      PROVE  RoleInv'
  BY <1>25 DEF Notify, Return, Goto, ReturnLabels
<1>26. ASSUME NEW p \in Procs, LoopChan(p)
      PROVE  RoleInv'
  BY <1>26 DEF LoopChan, Goto
<1>27. ASSUME NEW p \in Procs, Receive(p)
      PROVE  RoleInv'
  BY <1>27 DEF Receive, Goto
<1>28. ASSUME NEW p \in Procs, Serialize(p)
      PROVE  RoleInv'
  BY <1>28 DEF Serialize, Goto
<1>29. ASSUME NEW p \in Procs, SerializeError(p)
      PROVE  RoleInv'
  BY <1>29 DEF SerializeError, ResetWriteBuf, Call, Goto
<1>30. ASSUME NEW p \in Procs, WriteConn(p)
      PROVE  RoleInv'
  BY <1>30 DEF WriteConn, Panic, Goto
<1>31. ASSUME NEW p \in Procs, ResetBuf(p)
      PROVE  RoleInv'
  BY <1>31 DEF ResetBuf, ResetWriteBuf, Call, Goto
<1>32. ASSUME NEW p \in Procs, BeatStop(p)
      PROVE  RoleInv'
  BY <1>32 DEF BeatStop, Goto
<1>33. ASSUME NEW p \in Procs, BeatNew(p)
      PROVE  RoleInv'
  BY <1>33 DEF BeatNew, Goto
<1>34. ASSUME NEW p \in Procs, BeatWait(p)
      PROVE  RoleInv'
  BY <1>34 DEF BeatWait, Goto
<1>35. ASSUME NEW p \in Procs, BeatTick(p)
      PROVE  RoleInv'
  BY <1>35 DEF BeatTick, EnterWrite, Call, Goto
<1>36. ASSUME NEW p \in Procs, DialOk(p)
      PROVE  RoleInv'
  BY <1>36 DEF DialOk, Call, Goto
<1>37. ASSUME NEW p \in Procs, SetConn(p)
      PROVE  RoleInv'
  BY <1>37 DEF SetConn, Goto
<1>38. ASSUME NEW p \in Procs, SetChan(p)
      PROVE  RoleInv'
  <2>1. /\ pc' = [pc EXCEPT ![p] = ret[p], ![Reader(lconn[p])] = "r_lock",
                            ![Writer(lconn[p])] = "l_lock"]
        /\ ret' = [ret EXCEPT ![p] = "off"] /\ pc[p] = "setChan" /\ lconn[p] \in Conns
    BY <1>38 DEF SetChan, Reader, Writer, Setting
  <2>2. /\ Reader(lconn[p]) \in ReadLoops /\ Writer(lconn[p]) \in WriteLoops
        /\ pc[Reader(lconn[p])] = "off" /\ pc[Writer(lconn[p])] = "off"
    BY <2>1 DEF Reader, Writer, ReadLoops, WriteLoops, SpawnInv
  <2>3. \A q \in Procs : \/ pc'[q] = pc[q] /\ ret'[q] = ret[q]
                         \/ q = p /\ pc'[q] = ret[q] /\ ret'[q] = "off"
                         \/ /\ q = Reader(lconn[p]) /\ pc'[q] = "r_lock"
                            /\ ret'[q] \in {ret[q], "off"}
                         \/ /\ q = Writer(lconn[p]) /\ pc'[q] = "l_lock"
                            /\ ret'[q] \in {ret[q], "off"}
    BY <2>1
  <2> QED
    BY <2>1, <2>2, <2>3 DEF ReturnLabels
<1> QED
  BY <1>1, <1>2, <1>3, <1>4, <1>5, <1>6, <1>7, <1>8, <1>9, <1>10, <1>11, <1>12, <1>13,
     <1>14, <1>15, <1>16, <1>17, <1>18, <1>19, <1>20, <1>21, <1>22, <1>23, <1>24, <1>25,
     <1>26, <1>27, <1>28, <1>29, <1>30, <1>31, <1>32, <1>33, <1>34, <1>35, <1>36, <1>37,
     <1>38 DEF Next, Run, Rest, AppCall, Outside, Step, ConnectStep, DisconnectStep, WriteStep,
     ReadStep, DrainStep, BeatStep

\* No goroutine of the library is one of the application's.
LEMMA NotTheirs ==
  /\ Apps \subseteq Procs
  /\ \A p \in ReadLoops \cup WriteLoops : p \notin Apps
  /\ \A g \in Conns : Reader(g) \notin Apps /\ Writer(g) \notin Apps
  /\ \A k \in Tickers : Beat(k) \notin Apps
  BY AppsAssumption DEF AppsAssumption, Procs, Loops, ReadLoops, WriteLoops, Beats, Reader,
     Writer, Beat

\* A Connect stays alone: one step per action.
LEMMA ExclusiveStep ==
  ASSUME ExclusiveConnect, TypeInv, SpawnInv, RoleInv, ExclusiveInv, [Next]_vars
  PROVE  ExclusiveInv'
<1> USE SmallTypes, NotTheirs DEF At, RoleInv, ExclusiveInv, InConnect, ConnectLabels,
        LockLabels, Setting
<1>1. CASE UNCHANGED vars
  BY <1>1 DEF vars
<1>2. ASSUME NEW a \in Apps, Poll(a)
      PROVE  ExclusiveInv'
  BY <1>2 DEF Poll
<1>3. ASSUME NEW a \in Apps, CallConnect(a)
      PROVE  ExclusiveInv'
  BY <1>3 DEF CallConnect, MayCall, Call, Goto, Procs
<1>4. ASSUME NEW a \in Apps, CallDisconnect(a)
      PROVE  ExclusiveInv'
  BY <1>4 DEF CallDisconnect, MayCall, Call, Goto, Procs
<1>5. ASSUME NEW a \in Apps, CallWrite(a)
      PROVE  ExclusiveInv'
  BY <1>5 DEF CallWrite, MayCall, EnterWrite, Call, Goto, Procs
<1>6. ASSUME NEW p \in Procs, DialFail(p)
      PROVE  ExclusiveInv'
  BY <1>6 DEF DialFail, Call, Goto
<1>7. ASSUME NEW p \in Procs, Announce(p)
      PROVE  ExclusiveInv'
  BY <1>7 DEF Announce, Goto
<1>8. ASSUME NEW p \in Procs, Fatalf(p)
      PROVE  ExclusiveInv'
  BY <1>8 DEF Fatalf, Goto
<1>9. ASSUME NEW p \in Procs, Lock(p)
      PROVE  ExclusiveInv'
  BY <1>9 DEF Lock, Goto
<1>10. ASSUME NEW p \in Procs, Locked(p)
      PROVE  ExclusiveInv'
  BY <1>10 DEF Locked, Unlock, Return, Goto, ReturnLabels
<1>11. ASSUME NEW p \in Procs, CloseConn(p)
      PROVE  ExclusiveInv'
  BY <1>11 DEF CloseConn, CloseTransport, Panic, Goto
<1>12. ASSUME NEW p \in Procs, SetNil(p)
      PROVE  ExclusiveInv'
  BY <1>12 DEF SetNil, ClearConn, Goto
<1>13. ASSUME NEW p \in Procs, CloseChan(p)
      PROVE  ExclusiveInv'
  BY <1>13 DEF CloseChan, CloseWriteChan, Panic, Goto
<1>14. ASSUME NEW p \in Procs, EmitDisconnected(p)
      PROVE  ExclusiveInv'
  BY <1>14 DEF EmitDisconnected, Unlock, Return, Goto, ReturnLabels
<1>15. ASSUME NEW p \in Procs, WriteRLock(p)
      PROVE  ExclusiveInv'
  BY <1>15 DEF WriteRLock, RLock, Goto
<1>16. ASSUME NEW p \in Procs, WriteCheck(p)
      PROVE  ExclusiveInv'
  BY <1>16 DEF WriteCheck, RUnlock, Return, Goto, ReturnLabels
<1>17. ASSUME NEW p \in Procs, Send(p)
      PROVE  ExclusiveInv'
  BY <1>17 DEF Send, RUnlock, Return, Panic, Goto, ReturnLabels
<1>18. ASSUME NEW p \in Procs, LoopRLock(p)
      PROVE  ExclusiveInv'
  BY <1>18 DEF LoopRLock, RLock, Goto
<1>19. ASSUME NEW p \in Procs, LoopConn(p)
      PROVE  ExclusiveInv'
  BY <1>19 DEF LoopConn, RUnlock, Goto
<1>20. ASSUME NEW p \in Procs, ReadClosed(p)
      PROVE  ExclusiveInv'
  BY <1>20 DEF ReadClosed, Call, Panic, Goto
<1>21. ASSUME NEW p \in Procs, ReadError(p)
      PROVE  ExclusiveInv'
  BY <1>21 DEF ReadError, Call, Goto
<1>22. ASSUME NEW p \in Procs, ReadPacket(p)
      PROVE  ExclusiveInv'
  BY <1>22 DEF ReadPacket, Goto
<1>23. ASSUME NEW p \in Procs, HandlePacket(p)
      PROVE  ExclusiveInv'
  <2>1. p \in ReadLoops /\ \A b \in Apps : pc'[b] = pc[b] /\ ret'[b] = ret[b]
    <3>1. p \in ReadLoops
      BY <1>23 DEF HandlePacket, ReadLabels
    <3>2. /\ \A b \in Procs : b # p => ret'[b] = ret[b]
          /\ \/ \A b \in Procs : b # p => pc'[b] = pc[b]
             \/ /\ logons < MaxLogOns
                /\ \A b \in Procs : b # p /\ b # Beat(logons + 1) => pc'[b] = pc[b]
      BY <1>23 DEF HandlePacket, EnterWrite, Call, Goto, Beat
    <3>3. logons < MaxLogOns => logons + 1 \in Tickers
      BY BoundsAssumption DEF BoundsAssumption, Tickers
    <3> QED
      BY <3>1, <3>2, <3>3, NotTheirs
  <2> QED
    BY <2>1
<1>24. ASSUME NEW p \in Procs, PacketDone(p)
      PROVE  ExclusiveInv'
  BY <1>24 DEF PacketDone, Goto
<1>25. ASSUME NEW p \in Procs, Notify(p)
      PROVE  ExclusiveInv'
  BY <1>25 DEF Notify, Return, Goto, ReturnLabels
<1>26. ASSUME NEW p \in Procs, LoopChan(p)
      PROVE  ExclusiveInv'
  BY <1>26 DEF LoopChan, Goto
<1>27. ASSUME NEW p \in Procs, Receive(p)
      PROVE  ExclusiveInv'
  BY <1>27 DEF Receive, Goto
<1>28. ASSUME NEW p \in Procs, Serialize(p)
      PROVE  ExclusiveInv'
  BY <1>28 DEF Serialize, Goto
<1>29. ASSUME NEW p \in Procs, SerializeError(p)
      PROVE  ExclusiveInv'
  BY <1>29 DEF SerializeError, ResetWriteBuf, Call, Goto
<1>30. ASSUME NEW p \in Procs, WriteConn(p)
      PROVE  ExclusiveInv'
  BY <1>30 DEF WriteConn, Panic, Goto
<1>31. ASSUME NEW p \in Procs, ResetBuf(p)
      PROVE  ExclusiveInv'
  BY <1>31 DEF ResetBuf, ResetWriteBuf, Call, Goto
<1>32. ASSUME NEW p \in Procs, BeatStop(p)
      PROVE  ExclusiveInv'
  BY <1>32 DEF BeatStop, Goto
<1>33. ASSUME NEW p \in Procs, BeatNew(p)
      PROVE  ExclusiveInv'
  BY <1>33 DEF BeatNew, Goto
<1>34. ASSUME NEW p \in Procs, BeatWait(p)
      PROVE  ExclusiveInv'
  BY <1>34 DEF BeatWait, Goto
<1>35. ASSUME NEW p \in Procs, BeatTick(p)
      PROVE  ExclusiveInv'
  BY <1>35 DEF BeatTick, EnterWrite, Call, Goto
<1>36. ASSUME NEW p \in Procs, DialOk(p)
      PROVE  ExclusiveInv'
  BY <1>36 DEF DialOk, Call, Goto
<1>37. ASSUME NEW p \in Procs, SetConn(p)
      PROVE  ExclusiveInv'
  BY <1>37 DEF SetConn, Goto
<1>38. ASSUME NEW p \in Procs, SetChan(p)
      PROVE  ExclusiveInv'
  <2>1. /\ pc' = [pc EXCEPT ![p] = ret[p], ![Reader(lconn[p])] = "r_lock",
                            ![Writer(lconn[p])] = "l_lock"]
        /\ ret' = [ret EXCEPT ![p] = "off"] /\ pc[p] = "setChan" /\ lconn[p] \in Conns
    BY <1>38 DEF SetChan, Reader, Writer, Setting
  <2>2. \A b \in Apps : b # p => pc'[b] = pc[b] /\ ret'[b] = ret[b]
    BY <2>1, NotTheirs
  <2>3. p \in Apps /\ InConnect(p)
    BY <2>1
  <2> QED
    BY <2>1, <2>2, <2>3
<1> QED
  BY <1>1, <1>2, <1>3, <1>4, <1>5, <1>6, <1>7, <1>8, <1>9, <1>10, <1>11, <1>12, <1>13,
     <1>14, <1>15, <1>16, <1>17, <1>18, <1>19, <1>20, <1>21, <1>22, <1>23, <1>24, <1>25,
     <1>26, <1>27, <1>28, <1>29, <1>30, <1>31, <1>32, <1>33, <1>34, <1>35, <1>36, <1>37,
     <1>38 DEF Next, Run, Rest, AppCall, Outside, Step, ConnectStep, DisconnectStep, WriteStep,
     ReadStep, DrainStep, BeatStep

\* FirstInv is inductive: one step per action.
LEMMA FirstStep ==
  ASSUME ExclusiveConnect, TypeInv, SpawnInv, LockInv, ConnInv, RoleInv, ExclusiveInv,
         FirstInv, [Next]_vars
  PROVE  FirstInv'
<1>1. /\ conn \in Conns \cup {Nil, Torn} /\ closing \in Conns \cup {Nil}
      /\ writeChan \in Conns \cup {Nil} /\ closed \in [Conns -> BOOLEAN]
      /\ lchan \in [Procs -> Conns \cup Tickers \cup {Nil}]
      /\ dialed \in Nat /\ Conns \subseteq Nat /\ Nil = 0 /\ Torn = -1
      /\ Nil \notin Conns /\ Torn \notin Conns
  BY BoundsAssumption DEF BoundsAssumption, TypeInv, TypeOK, Conns, Nil, Torn
<1> USE <1>1, SmallTypes, NotTheirs DEF At, FirstInv, OneConn, Setting, Started, histVars,
        chanVars, localVars, countVars
<1>2. CASE UNCHANGED vars
  BY <1>2 DEF vars
<1>3. ASSUME NEW a \in Apps, Poll(a)
      PROVE  FirstInv'
  BY <1>3 DEF Poll
<1>4. ASSUME NEW a \in Apps, CallConnect(a)
      PROVE  FirstInv'
  <2>1. \A p \in Procs : pc[p] \notin Setting
    BY <1>4 DEF CallConnect, MayCall, InConnect, RoleInv, ConnectLabels
  <2> QED
    BY <1>4, <2>1 DEF CallConnect, MayCall, Call, Goto
<1>5. ASSUME NEW a \in Apps, CallDisconnect(a)
      PROVE  FirstInv'
  <2>1. \A p \in Procs : pc[p] \notin Setting
    BY <1>5 DEF CallDisconnect, MayCall, InConnect, RoleInv, ConnectLabels
  <2> QED
    BY <1>5, <2>1 DEF CallDisconnect, MayCall, Call, Goto
<1>6. ASSUME NEW a \in Apps, CallWrite(a)
      PROVE  FirstInv'
  <2>1. \A p \in Procs : pc[p] \notin Setting
    BY <1>6 DEF CallWrite, MayCall, InConnect, RoleInv, ConnectLabels
  <2> QED
    BY <1>6, <2>1 DEF CallWrite, MayCall, EnterWrite, Call, Goto
<1>7. ASSUME NEW p \in Procs, DialFail(p)
      PROVE  FirstInv'
  BY <1>7 DEF DialFail, Call, Goto
<1>8. ASSUME NEW p \in Procs, Announce(p)
      PROVE  FirstInv'
  BY <1>8 DEF Announce, Goto
<1>9. ASSUME NEW p \in Procs, Fatalf(p)
      PROVE  FirstInv'
  BY <1>9 DEF Fatalf, Goto
<1>10. ASSUME NEW p \in Procs, Lock(p)
      PROVE  FirstInv'
  BY <1>10 DEF Lock, Goto
<1>11. ASSUME NEW p \in Procs, Locked(p)
      PROVE  FirstInv'
  BY <1>11 DEF Locked, Unlock, Return, Goto, ReturnLabels
<1>12. ASSUME NEW p \in Procs, CloseConn(p)
      PROVE  FirstInv'
  BY <1>12 DEF CloseConn, CloseTransport, Panic, Goto
<1>13. ASSUME NEW p \in Procs, SetNil(p)
      PROVE  FirstInv'
  <2>1. /\ \A q \in Procs : pc[q] \in HeldLabels => q = p
        /\ \A q \in Procs : pc[q] # "send"
    BY <1>13 DEF SetNil, HeldLabels, LockInv
  <2>2. dialed <= 1 => /\ \A q \in Procs : pc[q] \notin Setting
                       /\ writeChan = closing /\ ~closed[closing]
    BY <1>13 DEF SetNil
  <2>3. /\ pc[p] = "setNil" /\ pc' = [pc EXCEPT ![p] = "closeChan"] /\ conn' = Nil
        /\ UNCHANGED <<writeChan, closed, closing, dialed, lconn, lchan>>
    BY <1>13 DEF SetNil, ClearConn, Goto
  <2>4. dialed <= 1 => OneConn'
    BY <2>1, <2>2, <2>3 DEF HeldLabels
  <2> QED
    BY <2>3, <2>4
<1>14. ASSUME NEW p \in Procs, CloseChan(p)
      PROVE  FirstInv'
  <2>1. /\ \A q \in Procs : pc[q] \in HeldLabels => q = p
        /\ \A q \in Procs : pc[q] # "send"
    BY <1>14 DEF CloseChan, HeldLabels, LockInv
  <2>2. dialed <= 1 => \A q \in Procs : pc[q] \notin Setting
    BY <1>14 DEF CloseChan
  <2> QED
    BY <1>14, <2>1, <2>2 DEF CloseChan, CloseWriteChan, Panic, Goto, HeldLabels, ConnInv
<1>15. ASSUME NEW p \in Procs, EmitDisconnected(p)
      PROVE  FirstInv'
  <2>1. /\ \A q \in Procs : pc[q] \in HeldLabels => q = p
        /\ \A q \in Procs : pc[q] # "send"
    BY <1>15 DEF EmitDisconnected, HeldLabels, LockInv
  <2>2. dialed <= 1 => \A q \in Procs : pc[q] \notin Setting
    BY <1>15 DEF EmitDisconnected
  <2> QED
    BY <1>15, <2>1, <2>2 DEF EmitDisconnected, Unlock, Return, Goto, ReturnLabels, HeldLabels,
       ConnInv
<1>16. ASSUME NEW p \in Procs, WriteRLock(p)
      PROVE  FirstInv'
  BY <1>16 DEF WriteRLock, RLock, Goto
<1>17. ASSUME NEW p \in Procs, WriteCheck(p)
      PROVE  FirstInv'
  BY <1>17 DEF WriteCheck, RUnlock, Return, Goto, ReturnLabels
<1>18. ASSUME NEW p \in Procs, Send(p)
      PROVE  FirstInv'
  <2>1. dialed <= 1 => /\ conn \in Conns /\ lchan[p] = conn /\ ~closed[conn]
                       /\ writeChan = conn
                       /\ \A q \in Procs : pc[q] \notin Setting
    BY <1>18 DEF Send
  <2>2. /\ UNCHANGED <<conn, writeChan, closed, closing, dialed>>
        /\ \A q \in Procs : lconn'[q] \in {lconn[q], Nil}
        /\ \A q \in Procs : q # p => lchan'[q] = lchan[q]
    BY <1>18, <2>1 DEF Send, RUnlock, Return, Panic
  <2>3. \A q \in Procs : pc'[q] = pc[q] \/ (q = p /\ pc'[q] \in ReturnLabels)
    BY <1>18 DEF Send, Return, Goto
  <2>4. dialed = 0 => p \in Apps
    BY <1>18 DEF Send
  <2>5. dialed <= 1 =>
          \A q \in Procs : pc'[q] \in {"close", "setNil", "closeChan", "send"} \cup Setting
                             => pc'[q] = pc[q] /\ q # p
    BY <1>18, <2>1 DEF Send, Return, Goto, ReturnLabels
  <2>6. dialed <= 1 => OneConn'
    BY <2>1, <2>2, <2>3, <2>4, <2>5
  <2> QED
    BY <2>2, <2>6
<1>19. ASSUME NEW p \in Procs, LoopRLock(p)
      PROVE  FirstInv'
  BY <1>19 DEF LoopRLock, RLock, Goto
<1>20. ASSUME NEW p \in Procs, LoopConn(p)
      PROVE  FirstInv'
  BY <1>20 DEF LoopConn, RUnlock, Goto
<1>21. ASSUME NEW p \in Procs, ReadClosed(p)
      PROVE  FirstInv'
  BY <1>21 DEF ReadClosed, Call, Panic, Goto
<1>22. ASSUME NEW p \in Procs, ReadError(p)
      PROVE  FirstInv'
  BY <1>22 DEF ReadError, Call, Goto
<1>23. ASSUME NEW p \in Procs, ReadPacket(p)
      PROVE  FirstInv'
  BY <1>23 DEF ReadPacket, Goto
<1>24. ASSUME NEW p \in Procs, HandlePacket(p)
      PROVE  FirstInv'
  <2>1. /\ pc[p] = "r_packet" /\ p \notin Apps
        /\ UNCHANGED <<conn, writeChan, closed, closing, dialed, lconn, lchan>>
    BY <1>24 DEF HandlePacket, EnterWrite, RoleInv, ReadLabels
  <2>2. \A q \in Procs : \/ pc'[q] = pc[q]
                         \/ pc'[q] \in {"rlock", "fatal", "notify", "r_nil", "b_stop"}
    BY <1>24 DEF HandlePacket, EnterWrite, Call, Goto
  <2>3. dialed <= 1 => dialed = 1 /\ \A q \in Procs : pc[q] \notin Setting
    BY <2>1
  <2> QED
    BY <2>1, <2>2, <2>3
<1>25. ASSUME NEW p \in Procs, PacketDone(p)
      PROVE  FirstInv'
  BY <1>25 DEF PacketDone, Goto
<1>26. ASSUME NEW p \in Procs, Notify(p)
      PROVE  FirstInv'
  BY <1>26 DEF Notify, Return, Goto, ReturnLabels
<1>27. ASSUME NEW p \in Procs, LoopChan(p)
      PROVE  FirstInv'
  BY <1>27 DEF LoopChan, Goto
<1>28. ASSUME NEW p \in Procs, Receive(p)
      PROVE  FirstInv'
  BY <1>28 DEF Receive, Goto
<1>29. ASSUME NEW p \in Procs, Serialize(p)
      PROVE  FirstInv'
  BY <1>29 DEF Serialize, Goto
<1>30. ASSUME NEW p \in Procs, SerializeError(p)
      PROVE  FirstInv'
  BY <1>30 DEF SerializeError, ResetWriteBuf, Call, Goto
<1>31. ASSUME NEW p \in Procs, WriteConn(p)
      PROVE  FirstInv'
  BY <1>31 DEF WriteConn, Panic, Goto
<1>32. ASSUME NEW p \in Procs, ResetBuf(p)
      PROVE  FirstInv'
  BY <1>32 DEF ResetBuf, ResetWriteBuf, Call, Goto
<1>33. ASSUME NEW p \in Procs, BeatStop(p)
      PROVE  FirstInv'
  BY <1>33 DEF BeatStop, Goto
<1>34. ASSUME NEW p \in Procs, BeatNew(p)
      PROVE  FirstInv'
  BY <1>34 DEF BeatNew, Goto
<1>35. ASSUME NEW p \in Procs, BeatWait(p)
      PROVE  FirstInv'
  BY <1>35 DEF BeatWait, Goto
<1>36. ASSUME NEW p \in Procs, BeatTick(p)
      PROVE  FirstInv'
  BY <1>36 DEF BeatTick, EnterWrite, Call, Goto
<1>37. ASSUME NEW p \in Procs, DialOk(p)
      PROVE  FirstInv'
  <2>1. /\ dialed' = dialed + 1 /\ dialed + 1 \in Conns
        /\ lconn' = [lconn EXCEPT ![p] = dialed + 1]
        /\ pc[p] \in {"dialTCP", "dialWS"} /\ pc' = [pc EXCEPT ![p] = "setConn"]
        /\ UNCHANGED <<conn, writeChan, closed, closing, lchan>>
    BY <1>37, BoundsAssumption DEF BoundsAssumption, DialOk, Call, Goto, Conns
  <2>2. p \in Apps /\ \A b \in Apps : b # p => pc[b] = "idle"
    BY <2>1 DEF RoleInv, ConnectLabels, ExclusiveInv, InConnect
  <2>3. CASE dialed = 0
    <3>1. \A q \in Procs : q # p => pc[q] \in Started
      BY <2>2, <2>3
    <3>2. conn = Nil /\ ~closed[1] /\ lconn'[p] = 1
      BY <2>1, <2>3, <3>1 DEF ConnInv
    <3> QED
      BY <2>1, <2>3, <3>1, <3>2
  <2>4. CASE dialed > 0
    BY <2>1, <2>4
  <2> QED
    BY <2>3, <2>4
<1>38. ASSUME NEW p \in Procs, SetConn(p)
      PROVE  FirstInv'
  BY <1>38 DEF SetConn, Goto
<1>39. ASSUME NEW p \in Procs, SetChan(p)
      PROVE  FirstInv'
  <2>1. /\ pc' = [pc EXCEPT ![p] = ret[p], ![Reader(lconn[p])] = "r_lock",
                            ![Writer(lconn[p])] = "l_lock"]
        /\ pc[p] = "setChan" /\ lconn[p] \in Conns /\ lconn[p] \in 1..dialed
        /\ writeChan' = lconn[p]
        /\ UNCHANGED <<conn, closed, closing, dialed, lconn, lchan>>
    BY <1>39 DEF SetChan, Reader, Writer
  <2>2. \A q \in Procs : pc'[q] = pc[q] \/ pc'[q] \in {"r_lock", "l_lock"}
                           \/ (q = p /\ pc'[q] \in ReturnLabels)
    BY <2>1
  <2>3. dialed <= 1 => dialed = 1 /\ lconn[p] = 1 /\ Conns = {1} \cup (Conns \ {1})
    BY <2>1
  <2>4. dialed <= 1 /\ conn \in Conns => conn = lconn[p]
    BY <2>1, <2>3 DEF ConnInv, Conns
  <2>5. dialed <= 1 => /\ \A q \in Procs : q # p => pc[q] \in Started
                       /\ conn # Torn
    BY <2>1
  <2> QED
    BY <2>1, <2>2, <2>3, <2>4, <2>5 DEF ReturnLabels
<1> QED
  BY <1>2, <1>3, <1>4, <1>5, <1>6, <1>7, <1>8, <1>9, <1>10, <1>11, <1>12, <1>13, <1>14,
     <1>15, <1>16, <1>17, <1>18, <1>19, <1>20, <1>21, <1>22, <1>23, <1>24, <1>25, <1>26,
     <1>27, <1>28, <1>29, <1>30, <1>31, <1>32, <1>33, <1>34, <1>35, <1>36, <1>37, <1>38,
     <1>39 DEF Next, Run, Rest, AppCall, Outside, Step, ConnectStep, DisconnectStep, WriteStep,
     ReadStep, DrainStep, BeatStep

\* FirstInv and what it rests on, for an application that lets nothing overlap a Connect.
LEMMA FirstInvariant ==
  ASSUME ExclusiveConnect
  PROVE  Spec => [](TypeInv /\ SpawnInv /\ LockInv /\ ConnInv /\ RoleInv /\ FirstInv)
<1>1. Init => TypeInv /\ SpawnInv /\ LockInv /\ ConnInv
  BY InitType, InitLock, BoundsAssumption DEF BoundsAssumption, Init, ConnInv, Conns, Nil
<1>2. Init => RoleInv /\ ExclusiveInv /\ FirstInv
  BY DEF Init, RoleInv, ExclusiveInv, FirstInv, OneConn, InConnect, At, ConnectLabels,
     ReadLabels, DrainLabels, LockLabels, Setting, Procs, Nil, Torn
<1>3. TypeInv /\ SpawnInv /\ LockInv /\ ConnInv /\ RoleInv /\ ExclusiveInv /\ FirstInv
        /\ [Next]_vars =>
      (TypeInv /\ SpawnInv /\ LockInv /\ ConnInv /\ RoleInv /\ ExclusiveInv /\ FirstInv)'
  BY TypeStep, SpawnStep, LockStep, ConnStep, RoleStep, ExclusiveStep, FirstStep
<1> QED
  BY <1>1, <1>2, <1>3, PTL DEF Spec

\* As long as one connection was dialed at most, only the known statements panic: an open
\* connection is the one in c.conn or on its way there, and a handler runs for a connection.
KnownInv ==
  dialed <= 1 =>
    /\ PanicsAreKnown
    /\ \A g \in Conns : sock[g] = "open" =>
         conn = g \/ \E p \in Procs : pc[p] \in {"setConn", "setConn2"} /\ lconn[p] = g
    /\ \A p \in Procs : \/ pc[p] \in {"r_read", "r_packet"}
                         \/ /\ ret[p] = "r_packet"
                            /\ pc[p] \in {"notify", "fatal"} \cup LockLabels \cup WriteLabels
                      => lconn[p] \in Conns

\* KnownInv is inductive: one step per action.
LEMMA KnownStep ==
  ASSUME ExclusiveConnect, TypeInv, SpawnInv, ConnInv, FirstInv, KnownInv, [Next]_vars
  PROVE  KnownInv'
<1>0. /\ conn \in Conns \cup {Nil, Torn} /\ sock \in [Conns -> {"none", "open", "closed"}]
      /\ writeChan \in Conns \cup {Nil}
      /\ dialed \in Nat /\ Conns \subseteq Nat /\ Nil = 0 /\ Torn = -1
      /\ Nil \notin Conns /\ Torn \notin Conns
  BY BoundsAssumption DEF BoundsAssumption, TypeInv, TypeOK, Conns, Nil, Torn
<1> USE <1>0, SmallTypes DEF At, KnownInv, PanicsAreKnown, LockLabels, WriteLabels, histVars,
        chanVars, localVars, countVars
<1>1. CASE UNCHANGED vars
  BY <1>1 DEF vars
<1>2. ASSUME NEW a \in Apps, Poll(a), ~panic
      PROVE  KnownInv'
  BY <1>2 DEF Poll
<1>3. ASSUME NEW a \in Apps, CallConnect(a), ~panic
      PROVE  KnownInv'
  BY <1>3 DEF CallConnect, MayCall, Call, Goto
<1>4. ASSUME NEW a \in Apps, CallDisconnect(a), ~panic
      PROVE  KnownInv'
  BY <1>4 DEF CallDisconnect, MayCall, Call, Goto
<1>5. ASSUME NEW a \in Apps, CallWrite(a), ~panic
      PROVE  KnownInv'
  BY <1>5 DEF CallWrite, MayCall, EnterWrite, Call, Goto
<1>6. ASSUME NEW p \in Procs, DialFail(p), ~panic
      PROVE  KnownInv'
  BY <1>6 DEF DialFail, Call, Goto
<1>7. ASSUME NEW p \in Procs, Announce(p), ~panic
      PROVE  KnownInv'
  BY <1>7 DEF Announce, Goto
<1>8. ASSUME NEW p \in Procs, Fatalf(p), ~panic
      PROVE  KnownInv'
  BY <1>8 DEF Fatalf, Goto
<1>9. ASSUME NEW p \in Procs, Lock(p), ~panic
      PROVE  KnownInv'
  BY <1>9 DEF Lock, Goto
<1>10. ASSUME NEW p \in Procs, Locked(p), ~panic
      PROVE  KnownInv'
  BY <1>10 DEF Locked, Unlock, Return, Goto, ReturnLabels
<1>11. ASSUME NEW p \in Procs, CloseConn(p), ~panic
      PROVE  KnownInv'
  BY <1>11 DEF CloseConn, CloseTransport, Panic, Goto, FirstInv, OneConn
<1>12. ASSUME NEW p \in Procs, SetNil(p), ~panic
      PROVE  KnownInv'
  <2>1. conn' = Nil /\ pc[p] = "setNil" /\ pc' = [pc EXCEPT ![p] = "closeChan"]
        /\ UNCHANGED <<sock, dialed, lconn, ret, panic>>
    BY <1>12 DEF SetNil, ClearConn, Goto
  <2>2. dialed <= 1 => conn = closing /\ sock[conn] = "closed"
    BY <2>1 DEF FirstInv, OneConn, ConnInv
  <2> QED
    BY <1>12, <2>1, <2>2
<1>13. ASSUME NEW p \in Procs, CloseChan(p), ~panic
      PROVE  KnownInv'
  BY <1>13 DEF CloseChan, CloseWriteChan, Panic, Goto, FirstInv, OneConn, ConnInv
<1>14. ASSUME NEW p \in Procs, EmitDisconnected(p), ~panic
      PROVE  KnownInv'
  BY <1>14 DEF EmitDisconnected, Unlock, Return, Goto, ReturnLabels
<1>15. ASSUME NEW p \in Procs, WriteRLock(p), ~panic
      PROVE  KnownInv'
  BY <1>15 DEF WriteRLock, RLock, Goto
<1>16. ASSUME NEW p \in Procs, WriteCheck(p), ~panic
      PROVE  KnownInv'
  BY <1>16 DEF WriteCheck, RUnlock, Return, Goto, ReturnLabels
<1>17. ASSUME NEW p \in Procs, Send(p), ~panic
      PROVE  KnownInv'
  <2>1. dialed <= 1 => lchan[p] = conn /\ ~closed[conn] /\ conn \in Conns
    BY <1>17 DEF Send, FirstInv, OneConn
  <2>2. UNCHANGED <<sock, conn, dialed>>
    BY <1>17 DEF Send
  <2>3. CASE dialed <= 1
    <3>1. Return(p) /\ UNCHANGED panic
      BY <1>17, <2>1, <2>3 DEF Send
    <3> QED
      BY <1>17, <2>2, <2>3, <3>1 DEF Send, Return, Goto, ReturnLabels
  <2> QED
    BY <2>2, <2>3
<1>18. ASSUME NEW p \in Procs, LoopRLock(p), ~panic
      PROVE  KnownInv'
  BY <1>18 DEF LoopRLock, RLock, Goto
<1>19. ASSUME NEW p \in Procs, LoopConn(p), ~panic
      PROVE  KnownInv'
  <2>1. dialed <= 1 => conn # Torn
    BY <1>19 DEF LoopConn, FirstInv, OneConn, Setting, Started
  <2> QED
    BY <1>19, <2>1 DEF LoopConn, RUnlock, Goto
<1>20. ASSUME NEW p \in Procs, ReadClosed(p), ~panic
      PROVE  KnownInv'
  BY <1>20 DEF ReadClosed, Call, Panic, Goto, FirstInv, OneConn
<1>21. ASSUME NEW p \in Procs, ReadError(p), ~panic
      PROVE  KnownInv'
  BY <1>21 DEF ReadError, Call, Goto
<1>22. ASSUME NEW p \in Procs, ReadPacket(p), ~panic
      PROVE  KnownInv'
  BY <1>22 DEF ReadPacket, Goto
<1>23. ASSUME NEW p \in Procs, HandlePacket(p), ~panic
      PROVE  KnownInv'
  <2>1. pc[p] = "r_packet" /\ UNCHANGED <<sock, conn, lconn, dialed>>
    BY <1>23 DEF HandlePacket, EnterWrite
  <2>2. /\ \A q \in Procs : pc'[q] \in {"r_read", "r_packet", "setConn", "setConn2"}
                             => pc'[q] = pc[q]
        /\ \A q \in Procs : pc[q] \in {"setConn", "setConn2"} => pc'[q] = pc[q]
        /\ \A q \in Procs : q # p => pc'[q] \in {pc[q], "b_stop"}
    <3>1. CASE \E l \in {"notify", "fatal", "rlock", "r_nil"} : pc' = [pc EXCEPT ![p] = l]
      BY <2>1, <3>1
    <3>2. CASE /\ logons < MaxLogOns
               /\ pc' = [pc EXCEPT ![p] = "notify", ![Beat(logons + 1)] = "b_stop"]
      <4>1. logons + 1 \in Tickers /\ logons + 1 > logons
        BY <3>2, BoundsAssumption DEF BoundsAssumption, Tickers
      <4>2. pc[Beat(logons + 1)] = "off"
        BY <4>1 DEF SpawnInv
      <4> QED
        BY <2>1, <3>2, <4>2
    <3> QED
      BY <1>23, <3>1, <3>2 DEF HandlePacket, EnterWrite, Call, Goto, Beat
  <2>3. dialed <= 1 => lconn[p] \in Conns
    BY <2>1
  <2>4. \A q \in Procs : ret'[q] = "r_packet" => q = p \/ ret[q] = "r_packet"
    BY <1>23 DEF HandlePacket, EnterWrite, Call
  <2>5. UNCHANGED panic \/ (pc'[p] = "r_nil" /\ conn \notin Conns)
    <3>1. CASE "result" \in Kinds /\ conn \notin Conns /\ Goto(p, "r_nil")
      BY <2>1, <3>1 DEF Goto
    <3> QED
      BY <1>23, <3>1 DEF HandlePacket
  <2>6. dialed <= 1 /\ conn \notin Conns => sock[lconn[p]] # "open"
    <3> SUFFICES ASSUME dialed <= 1, conn \notin Conns, sock[lconn[p]] = "open"
                 PROVE  FALSE
      OBVIOUS
    <3>1. PICK q \in Procs : pc[q] \in {"setConn", "setConn2"}
      BY <2>3
    <3>2. OneConn /\ q # p
      BY <2>1, <3>1 DEF FirstInv
    <3>3. pc[p] \in Started
      BY <3>1, <3>2 DEF OneConn, Setting
    <3> QED
      BY <2>1, <3>3 DEF Started
  <2> QED
    <3> SUFFICES ASSUME dialed <= 1
                 PROVE  KnownInv'
      BY <2>1
    <3>1. PanicsAreKnown'
      BY <1>23, <2>1, <2>5, <2>6
    <3>2. \A g \in Conns : sock'[g] = "open" =>
            conn' = g \/ \E q \in Procs : pc'[q] \in {"setConn", "setConn2"} /\ lconn'[q] = g
      BY <2>1, <2>2
    <3>3. \A q \in Procs : \/ pc'[q] \in {"r_read", "r_packet"}
                           \/ /\ ret'[q] = "r_packet"
                              /\ pc'[q] \in {"notify", "fatal"} \cup LockLabels \cup WriteLabels
                        => lconn'[q] \in Conns
      <4> SUFFICES ASSUME NEW q \in Procs, q # p, ret'[q] = "r_packet",
                          pc'[q] \in {"notify", "fatal"} \cup LockLabels \cup WriteLabels
                   PROVE  lconn[q] \in Conns
        BY <2>1, <2>2, <2>3
      <4>1. ret[q] = "r_packet"
        BY <2>4
      <4>2. pc[q] = pc'[q]
        BY <2>2
      <4> QED
        BY <4>1, <4>2
    <3> QED
      BY <3>1, <3>2, <3>3
<1>24. ASSUME NEW p \in Procs, PacketDone(p), ~panic
      PROVE  KnownInv'
  BY <1>24 DEF PacketDone, Goto
<1>25. ASSUME NEW p \in Procs, Notify(p), ~panic
      PROVE  KnownInv'
  BY <1>25 DEF Notify, Return, Goto, ReturnLabels
<1>26. ASSUME NEW p \in Procs, LoopChan(p), ~panic
      PROVE  KnownInv'
  BY <1>26 DEF LoopChan, Goto
<1>27. ASSUME NEW p \in Procs, Receive(p), ~panic
      PROVE  KnownInv'
  BY <1>27 DEF Receive, Goto
<1>28. ASSUME NEW p \in Procs, Serialize(p), ~panic
      PROVE  KnownInv'
  BY <1>28 DEF Serialize, Goto
<1>29. ASSUME NEW p \in Procs, SerializeError(p), ~panic
      PROVE  KnownInv'
  BY <1>29 DEF SerializeError, ResetWriteBuf, Call, Goto
<1>30. ASSUME NEW p \in Procs, WriteConn(p), ~panic
      PROVE  KnownInv'
  BY <1>30 DEF WriteConn, Panic, Goto, FirstInv, OneConn
<1>31. ASSUME NEW p \in Procs, ResetBuf(p), ~panic
      PROVE  KnownInv'
  BY <1>31 DEF ResetBuf, ResetWriteBuf, Call, Goto
<1>32. ASSUME NEW p \in Procs, BeatStop(p), ~panic
      PROVE  KnownInv'
  BY <1>32 DEF BeatStop, Goto
<1>33. ASSUME NEW p \in Procs, BeatNew(p), ~panic
      PROVE  KnownInv'
  BY <1>33 DEF BeatNew, Panic, Goto
<1>34. ASSUME NEW p \in Procs, BeatWait(p), ~panic
      PROVE  KnownInv'
  BY <1>34 DEF BeatWait, Goto
<1>35. ASSUME NEW p \in Procs, BeatTick(p), ~panic
      PROVE  KnownInv'
  BY <1>35 DEF BeatTick, EnterWrite, Call, Goto
<1>36. ASSUME NEW p \in Procs, DialOk(p), ~panic
      PROVE  KnownInv'
  <2>1. /\ dialed' = dialed + 1 /\ dialed + 1 \in Conns
        /\ lconn' = [lconn EXCEPT ![p] = dialed + 1] /\ ret'[p] # "r_packet"
        /\ \A q \in Procs : q # p => ret'[q] = ret[q]
        /\ sock' = [sock EXCEPT ![dialed + 1] = "open"]
        /\ pc[p] \in {"dialTCP", "dialWS"} /\ pc' = [pc EXCEPT ![p] = "setConn"]
        /\ UNCHANGED <<conn, panic>>
    BY <1>36, BoundsAssumption DEF BoundsAssumption, DialOk, Call, Goto, Conns
  <2>2. CASE dialed = 0
    <3>1. \A g \in Conns : sock[g] # "open"
      BY <2>2 DEF ConnInv, Conns, Setting
    <3>2. /\ \A q \in Procs : q # p => pc'[q] = pc[q] /\ lconn'[q] = lconn[q]
          /\ pc'[p] = "setConn" /\ lconn'[p] = dialed + 1
      BY <2>1
    <3>3. \A g \in Conns : sock'[g] = "open" => lconn'[p] = g
      BY <2>1, <3>1, <3>2
    <3>4. PanicsAreKnown'
      BY <1>36, <2>1
    <3> QED
      BY <2>1, <2>2, <3>2, <3>3, <3>4
  <2>3. CASE dialed > 0
    BY <2>1, <2>3
  <2> QED
    BY <2>2, <2>3
<1>37. ASSUME NEW p \in Procs, SetConn(p), ~panic
      PROVE  KnownInv'
  <2>1. /\ pc[p] \in {"setConn", "setConn2"} /\ lconn[p] \in Conns /\ lconn[p] \in 1..dialed
        /\ \/ conn = Nil /\ conn' = Torn /\ pc' = [pc EXCEPT ![p] = "setConn2"]
           \/ conn' = lconn[p] /\ pc' = [pc EXCEPT ![p] = "setChan"]
        /\ UNCHANGED <<sock, dialed, lconn, ret, panic>>
    BY <1>37 DEF SetConn, Goto, Setting
  <2>2. dialed <= 1 => \A q \in Procs : pc[q] \in {"setConn", "setConn2"} => q = p
    BY <2>1 DEF FirstInv, OneConn, Setting, Started
  <2>3. dialed <= 1 /\ conn \in Conns => conn = lconn[p]
    BY <2>1 DEF ConnInv, Conns
  <2> QED
    BY <1>37, <2>1, <2>2, <2>3
<1>38. ASSUME NEW p \in Procs, SetChan(p), ~panic
      PROVE  KnownInv'
  <2>1. /\ pc' = [pc EXCEPT ![p] = ret[p], ![Reader(lconn[p])] = "r_lock",
                            ![Writer(lconn[p])] = "l_lock"]
        /\ ret' = [ret EXCEPT ![p] = "off"]
        /\ pc[p] = "setChan" /\ lconn[p] \in Conns
        /\ UNCHANGED <<conn, sock, dialed, panic, lconn>>
    BY <1>38 DEF SetChan, Reader, Writer, Setting
  <2>2. \A q \in Procs : pc'[q] = pc[q] \/ pc'[q] \in {"r_lock", "l_lock"}
                           \/ (q = p /\ pc'[q] \in ReturnLabels)
    BY <2>1
  <2>3. dialed <= 1 => \A q \in Procs : pc[q] \notin {"setConn", "setConn2"}
    BY <2>1 DEF FirstInv, OneConn, Setting, Started
  <2> QED
    BY <1>38, <2>1, <2>2, <2>3 DEF ReturnLabels
<1> QED
  BY <1>1, <1>2, <1>3, <1>4, <1>5, <1>6, <1>7, <1>8, <1>9, <1>10, <1>11, <1>12, <1>13,
     <1>14, <1>15, <1>16, <1>17, <1>18, <1>19, <1>20, <1>21, <1>22, <1>23, <1>24,
     <1>25, <1>26, <1>27, <1>28, <1>29, <1>30, <1>31, <1>32, <1>33, <1>34, <1>35,
     <1>36, <1>37, <1>38 DEF Next, Run, Rest, AppCall, Outside, Step, ConnectStep,
     DisconnectStep, WriteStep, ReadStep, DrainStep, BeatStep

\* An application that lets nothing overlap a Connect: on the first connection of a client
\* nothing its goroutines, both loops, the handlers and the heartbeats share makes one of them
\* panic (no method call on a half-stored connection, no send on or close of a closed
\* channel; client.go:26, 184-206, 212-246), but for an encryption result that is handled
\* after a Disconnect (client.go:372) and a heartbeat interval of 0 (client.go:302).
THEOREM FirstConnectionIsSafe ==
  ASSUME ExclusiveConnect
  PROVE  Spec => [](dialed <= 1 => PanicsAreKnown)
<1>1. Init => KnownInv
  BY DEF Init, KnownInv, PanicsAreKnown, LockLabels, WriteLabels
<1>2. TypeInv /\ SpawnInv /\ ConnInv /\ FirstInv /\ KnownInv /\ [Next]_vars => KnownInv'
  BY KnownStep
<1>3. KnownInv => (dialed <= 1 => PanicsAreKnown)
  BY DEF KnownInv
<1> QED
  BY <1>1, <1>2, <1>3, FirstInvariant, PTL DEF Spec

-----------------------------------------------------------------------------
(* What Write accepts on the first connection *)

\* Where a writeLoop is that has lost nothing, and where it has a message in its hands.
Draining == DrainLabels \ {"l_fail"}
InHand   == {"l_serialize", "l_write"}
Taken(g) == Len(wire[g]) + (IF pc[Writer(g)] \in InHand THEN 1 ELSE 0)

\* Channel and wire of connection g, position by position.
Flow(g) ==
  /\ Len(wire[g]) <= Len(accepted[g])
  /\ \A i \in 1..Len(wire[g]) : wire[g][i] = <<accepted[g][i]>>
  /\ pc[Writer(g)] \in Draining =>
       /\ Len(accepted[g]) = Taken(g) + Len(queue[g])
       /\ \A i \in 1..Len(queue[g]) : queue[g][i] = accepted[g][Taken(g) + i]
  /\ pc[Writer(g)] \in InHand => lmsg[Writer(g)] = accepted[g][Taken(g)]

\* The locals of the writeLoop of connection g, and the buffer, which it has for itself.
LoopOf(g) ==
  /\ pc[Writer(g)] \in DrainLabels => writeChan = g
  /\ pc[Writer(g)] \in {"l_chan", "l_recv", "l_serialize", "l_write"} => lconn[Writer(g)] = g
  /\ pc[Writer(g)] = "l_recv" => lchan[Writer(g)] = g
  /\ pc[Writer(g)] \in Draining \ {"l_write", "l_reset"} => writeBuf = <<>>
  /\ pc[Writer(g)] = "l_write" => writeBuf = <<lmsg[Writer(g)]>>

\* A connection whose loops have not started has no messages yet.
Blank(g) == wire[g] = <<>> /\ accepted[g] = <<>> /\ queue[g] = <<>>

OneFlow ==
  /\ \A g \in Conns : Flow(g) /\ (g <= dialed => LoopOf(g)) /\ (g > dialed => Blank(g))
  /\ \A p \in Procs : pc[p] \in Setting => Blank(lconn[p]) /\ writeBuf = <<>>
  /\ dialed = 0 => writeBuf = <<>>

FlowInv == dialed <= 1 => OneFlow

\* A step of p that leaves messages, frames and the other writeLoops alone, and takes p to no
\* statement of a writeLoop.
Beside(p) ==
  /\ UNCHANGED <<wire, accepted, queue, writeBuf, writeChan, dialed>>
  /\ \A q \in WriteLoops : q # p => /\ pc'[q] = pc[q] /\ lconn'[q] = lconn[q]
                                    /\ lchan'[q] = lchan[q] /\ lmsg'[q] = lmsg[q]
  /\ \A q \in Procs : pc'[q] \in Setting => pc[q] \in Setting /\ lconn'[q] = lconn[q]
  /\ p \in WriteLoops => pc'[p] \notin DrainLabels

\* The types the flow of messages needs.
LEMMA FlowTypes ==
  ASSUME TypeInv
  PROVE  /\ wire \in [Conns -> Seq(Seq(Msgs))] /\ accepted \in [Conns -> Seq(Msgs)]
         /\ queue \in [Conns -> Seq(Msgs)] /\ writeBuf \in Seq(Msgs)
         /\ lchan \in [Procs -> Conns \cup Tickers \cup {Nil}]
         /\ lmsg \in [Procs -> Msgs \cup {Nil}]
         /\ WriteLoops \subseteq Procs /\ \A g \in Conns : Writer(g) \in WriteLoops
         /\ \A p \in WriteLoops : \E g \in Conns : p = Writer(g)
         /\ \A g, h \in Conns : Writer(g) = Writer(h) => g = h
         /\ InHand \subseteq Draining /\ Draining \subseteq DrainLabels
<1>1. /\ wire \in [Conns -> Seq(Seq(Msgs))] /\ accepted \in [Conns -> Seq(Msgs)]
      /\ queue \in [Conns -> Seq(Msgs)] /\ writeBuf \in Seq(Msgs)
      /\ lchan \in [Procs -> Conns \cup Tickers \cup {Nil}]
      /\ lmsg \in [Procs -> Msgs \cup {Nil}]
  BY DEF TypeInv, TypeOK
<1>2. /\ WriteLoops \subseteq Procs /\ \A g \in Conns : Writer(g) \in WriteLoops
      /\ \A p \in WriteLoops : \E g \in Conns : p = Writer(g)
      /\ \A g, h \in Conns : Writer(g) = Writer(h) => g = h
  BY DEF Writer, WriteLoops, Procs, Loops
<1>3. InHand \subseteq Draining /\ Draining \subseteq DrainLabels
  BY DEF InHand, Draining, DrainLabels
<1> QED
  BY <1>1, <1>2, <1>3

\* Such a step keeps the flow.
LEMMA BesideFlow ==
  ASSUME TypeInv, FlowInv, NEW p, Beside(p)
  PROVE  FlowInv'
<1> SUFFICES ASSUME dialed <= 1, OneFlow PROVE OneFlow'
  BY DEF FlowInv, Beside
<1>1. ASSUME NEW g \in Conns
      PROVE  Flow(g)' /\ (g <= dialed' => LoopOf(g)') /\ (g > dialed' => Blank(g)')
  <2>1. /\ Flow(g) /\ (g <= dialed => LoopOf(g)) /\ (g > dialed => Blank(g))
        /\ Writer(g) \in WriteLoops
    BY FlowTypes DEF OneFlow
  <2>2. CASE Writer(g) # p
    BY <2>1, <2>2 DEF Beside, Flow, LoopOf, Blank, Taken
  <2>3. CASE pc'[Writer(g)] \notin DrainLabels
    BY <2>1, <2>3, FlowTypes DEF Beside, Flow, LoopOf, Blank, Taken, Draining, InHand,
       DrainLabels
  <2> QED
    BY <2>1, <2>2, <2>3 DEF Beside
<1>2. ASSUME NEW q \in Procs, pc'[q] \in Setting
      PROVE  Blank(lconn[q])' /\ writeBuf' = <<>> /\ lconn'[q] = lconn[q]
  BY <1>2 DEF Beside, OneFlow, Blank
<1> QED
  BY <1>1, <1>2 DEF OneFlow, Beside, Blank

\* Most steps are of that kind.
LEMMA BesideSteps ==
  ASSUME TypeInv, NEW p \in Procs,
         CallConnect(p) \/ CallDisconnect(p) \/ CallWrite(p) \/ DialFail(p) \/
         Announce(p) \/ Fatalf(p) \/ Lock(p) \/ Locked(p) \/ CloseConn(p) \/ SetNil(p) \/
         CloseChan(p) \/ EmitDisconnected(p) \/ WriteRLock(p) \/ WriteCheck(p) \/
         ReadClosed(p) \/ ReadError(p) \/ ReadPacket(p) \/ PacketDone(p) \/ Notify(p) \/
         BeatStop(p) \/ BeatNew(p) \/ BeatWait(p) \/ BeatTick(p)
  PROVE  Beside(p)
<1>0. Alone(p)
  BY AloneSteps
<1> USE <1>0, SmallTypes, FlowTypes DEF At, Alone, Beside, chanVars, localVars, wireVars,
        countVars, DrainLabels
<1>1. CASE CallConnect(p)
  BY <1>1 DEF CallConnect, MayCall, Call, Goto
<1>2. CASE CallDisconnect(p)
  BY <1>2 DEF CallDisconnect, MayCall, Call, Goto
<1>3. CASE CallWrite(p)
  BY <1>3 DEF CallWrite, MayCall, EnterWrite, Call, Goto
<1>4. CASE DialFail(p)
  BY <1>4 DEF DialFail, Call, Goto
<1>5. CASE Announce(p)
  BY <1>5 DEF Announce, Goto
<1>6. CASE Fatalf(p)
  BY <1>6 DEF Fatalf, Goto
<1>7. CASE Lock(p)
  BY <1>7 DEF Lock, Goto
<1>8. CASE Locked(p)
  BY <1>8 DEF Locked, Unlock, Return, Goto, ReturnLabels
<1>9. CASE CloseConn(p)
  BY <1>9 DEF CloseConn, CloseTransport, Panic, Goto
<1>10. CASE SetNil(p)
  BY <1>10 DEF SetNil, ClearConn, Goto
<1>11. CASE CloseChan(p)
  BY <1>11 DEF CloseChan, CloseWriteChan, Panic, Goto
<1>12. CASE EmitDisconnected(p)
  BY <1>12 DEF EmitDisconnected, Unlock, Return, Goto, ReturnLabels
<1>13. CASE WriteRLock(p)
  BY <1>13 DEF WriteRLock, RLock, Goto
<1>14. CASE WriteCheck(p)
  BY <1>14 DEF WriteCheck, RUnlock, Return, Goto, ReturnLabels
<1>15. CASE ReadClosed(p)
  BY <1>15 DEF ReadClosed, Call, Panic, Goto
<1>16. CASE ReadError(p)
  BY <1>16 DEF ReadError, Call, Goto
<1>17. CASE ReadPacket(p)
  BY <1>17 DEF ReadPacket, Goto
<1>18. CASE PacketDone(p)
  BY <1>18 DEF PacketDone, Goto
<1>19. CASE Notify(p)
  BY <1>19 DEF Notify, Return, Goto, ReturnLabels
<1>20. CASE BeatStop(p)
  BY <1>20 DEF BeatStop, Goto
<1>21. CASE BeatNew(p)
  BY <1>21 DEF BeatNew, Goto
<1>22. CASE BeatWait(p)
  BY <1>22 DEF BeatWait, Goto
<1>23. CASE BeatTick(p)
  BY <1>23 DEF BeatTick, EnterWrite, Call, Goto
<1> QED
  BY <1>1, <1>2, <1>3, <1>4, <1>5, <1>6, <1>7, <1>8, <1>9, <1>10, <1>11, <1>12, <1>13,
     <1>14, <1>15, <1>16, <1>17, <1>18, <1>19, <1>20, <1>21, <1>22, <1>23

\* While one connection was dialed at most, a writeLoop that runs is that connection's.
LEMMA OnlyLoop ==
  ASSUME TypeInv, SpawnInv, dialed <= 1, NEW p \in WriteLoops, pc[p] # "off"
  PROVE  1 \in Conns /\ dialed = 1 /\ p = Writer(1)
<1>1. PICK g \in Conns : p = Writer(g)
  BY FlowTypes
<1>2. g <= dialed /\ g \in Nat /\ g > 0 /\ dialed \in Nat
  BY <1>1, SmallTypes DEF SpawnInv, Conns
<1> QED
  BY <1>1, <1>2

\* A step of the only writeLoop, which keeps the flow of its connection.
LEMMA LoopKeepsFlow ==
  ASSUME TypeInv, SpawnInv, dialed <= 1, OneConn, OneFlow, 1 \in Conns, dialed = 1,
         pc[Writer(1)] \in DrainLabels, UNCHANGED <<dialed, accepted>>,
         \A q \in Procs : q # Writer(1) => pc'[q] = pc[q],
         \A h \in Conns : h # 1 => wire'[h] = wire[h] /\ queue'[h] = queue[h],
         pc'[Writer(1)] \notin Setting, Flow(1)', LoopOf(1)'
  PROVE  OneFlow'
<1>1. Writer(1) \in Procs /\ pc[Writer(1)] \notin Started
  BY FlowTypes DEF DrainLabels, Started
<1>2. \A q \in Procs : pc'[q] \notin Setting
  BY <1>1 DEF OneConn
<1>3. ASSUME NEW g \in Conns, g # 1
      PROVE  g > dialed' /\ Flow(g)' /\ Blank(g)'
  <2>1. g > dialed /\ Flow(g) /\ Blank(g) /\ Writer(g) # Writer(1) /\ Writer(g) \in Procs
    BY <1>3, FlowTypes DEF OneFlow, Conns
  <2>2. pc[Writer(g)] = "off"
    BY <2>1 DEF SpawnInv
  <2> QED
    BY <1>3, <2>1, <2>2 DEF Flow, Blank, Draining, InHand, DrainLabels
<1>4. ASSUME NEW g \in Conns
      PROVE  Flow(g)' /\ (g <= dialed' => LoopOf(g)') /\ (g > dialed' => Blank(g)')
  <2>1. CASE g = 1
    <3>1. ~(g > dialed')
      BY <2>1
    <3>2. Flow(g)'
      BY <2>1 DEF Flow, Taken, Writer
    <3>3. LoopOf(g)'
      BY <2>1 DEF LoopOf, Writer
    <3> QED
      BY <3>1, <3>2, <3>3
  <2>2. CASE g # 1
    BY <1>3, <2>2 DEF Conns
  <2> QED
    BY <2>1, <2>2
<1> QED
  BY <1>2, <1>4 DEF OneFlow

\* The steps of the writeLoop: one step per action.
LEMMA LoopFlow ==
  ASSUME TypeInv, SpawnInv, ConnInv, RoleInv, FirstInv, FlowInv, NEW p \in WriteLoops,
         pc[p] \in DrainLabels,
         LoopRLock(p) \/ LoopConn(p) \/ LoopChan(p) \/ Receive(p) \/ Serialize(p)
           \/ SerializeError(p) \/ WriteConn(p) \/ ResetBuf(p)
  PROVE  FlowInv'
<1> SUFFICES ASSUME dialed' <= 1 PROVE OneFlow'
  BY DEF FlowInv
<1>1. UNCHANGED dialed /\ dialed <= 1 /\ OneFlow /\ OneConn
  BY DEF FlowInv, FirstInv, LoopRLock, LoopConn, LoopChan, Receive, Serialize,
     SerializeError, WriteConn, ResetBuf, countVars
<1>2. 1 \in Conns /\ dialed = 1 /\ p = Writer(1)
  BY <1>1, OnlyLoop DEF DrainLabels
<1>3. Flow(1) /\ LoopOf(1) /\ p \in Procs
  BY <1>1, <1>2, FlowTypes DEF OneFlow
<1>4. \A q \in Procs : pc[q] \notin Setting
  BY <1>1, <1>3 DEF OneConn, DrainLabels, Started, Setting
<1>5. /\ wire[1] \in Seq(Seq(Msgs)) /\ accepted[1] \in Seq(Msgs) /\ queue[1] \in Seq(Msgs)
  BY <1>2, FlowTypes
<1> USE <1>2, <1>3, <1>5, SmallTypes, FlowTypes DEF At
<1>6. CASE LoopRLock(p)
  <2>1. pc[p] = "l_lock" /\ pc' = [pc EXCEPT ![p] = "l_conn"]
    BY <1>6 DEF LoopRLock, Goto, DrainLabels
  <2>2. Flow(1)' /\ LoopOf(1)'
    BY <1>6, <2>1 DEF LoopRLock, Flow, LoopOf, Taken, InHand, Draining, DrainLabels, chanVars,
       localVars, wireVars
  <2> QED
    BY <1>1, <1>6, <2>1, <2>2, LoopKeepsFlow DEF LoopRLock, chanVars, wireVars, Setting
<1>7. CASE LoopConn(p)
  <2>1. conn = Nil \/ conn = 1
    BY <1>1, <1>4 DEF OneConn, ConnInv, Conns, TypeInv, TypeOK, Setting
  <2>2. /\ pc[p] = "l_conn" /\ lconn' = [lconn EXCEPT ![p] = conn]
        /\ pc' = [pc EXCEPT ![p] = IF conn = Nil THEN "done" ELSE "l_chan"]
    BY <1>7 DEF LoopConn, Goto, DrainLabels
  <2>3. Flow(1)' /\ LoopOf(1)'
    BY <1>7, <2>1, <2>2 DEF LoopConn, Flow, LoopOf, Taken, InHand, Draining, DrainLabels,
       chanVars, wireVars, Nil
  <2> QED
    BY <1>1, <1>7, <2>2, <2>3, LoopKeepsFlow DEF LoopConn, chanVars, wireVars, Setting
<1>8. CASE LoopChan(p)
  <2>1. /\ pc[p] = "l_chan" /\ lchan' = [lchan EXCEPT ![p] = writeChan] /\ writeChan = 1
        /\ pc' = [pc EXCEPT ![p] = "l_recv"]
    BY <1>8 DEF LoopChan, Goto, LoopOf
  <2>2. Flow(1)' /\ LoopOf(1)'
    BY <1>8, <2>1 DEF LoopChan, Flow, LoopOf, Taken, InHand, Draining, DrainLabels, chanVars,
       wireVars
  <2> QED
    BY <1>1, <1>8, <2>1, <2>2, LoopKeepsFlow DEF LoopChan, chanVars, wireVars, Setting
<1>9. CASE Receive(p)
  <2>1. /\ pc[p] = "l_recv" /\ lchan[p] = 1 /\ writeBuf = <<>> /\ writeChan = 1 /\ lconn[p] = 1
        /\ Taken(1) = Len(wire[1])
    BY <1>9 DEF Receive, LoopOf, Draining, DrainLabels, Taken, InHand
  <2>2. UNCHANGED <<wire, accepted, writeBuf, writeChan, lconn>>
    BY <1>9 DEF Receive, wireVars
  <2>3. CASE /\ queue[1] # <<>> /\ lmsg' = [lmsg EXCEPT ![p] = Head(queue[1])]
             /\ queue' = [queue EXCEPT ![1] = Tail(@)]
             /\ pc' = [pc EXCEPT ![p] = "l_serialize"]
    <3>1. /\ lmsg'[p] = queue[1][1] /\ queue'[1] = Tail(queue[1]) /\ pc'[p] = "l_serialize"
          /\ Taken(1)' = Len(wire[1]) + 1
      BY <2>2, <2>3 DEF Taken, InHand
    <3>2. /\ Len(queue'[1]) = Len(queue[1]) - 1 /\ Len(queue[1]) \in Nat
          /\ \A i \in 1..Len(queue'[1]) : queue'[1][i] = queue[1][i + 1]
      BY <2>3, <3>1
    <3>3. /\ Len(accepted[1]) = Len(wire[1]) + Len(queue[1]) /\ Len(queue[1]) > 0
          /\ \A i \in 1..Len(queue[1]) : queue[1][i] = accepted[1][Len(wire[1]) + i]
      BY <2>1, <2>3 DEF Flow, Draining, DrainLabels
    <3>4. \A i \in 1..Len(queue'[1]) : queue'[1][i] = accepted[1][Len(wire[1]) + 1 + i]
      <4> SUFFICES ASSUME NEW i \in 1..Len(queue'[1])
                   PROVE  queue'[1][i] = accepted[1][Len(wire[1]) + 1 + i]
        OBVIOUS
      <4>1. i + 1 \in 1..Len(queue[1]) /\ Len(wire[1]) \in Nat
        BY <3>2
      <4>2. Len(wire[1]) + (i + 1) = Len(wire[1]) + 1 + i
        BY <4>1
      <4> QED
        BY <3>2, <3>3, <4>1, <4>2
    <3>5. Flow(1)'
      <4>1. /\ Len(wire'[1]) <= Len(accepted'[1])
            /\ \A i \in 1..Len(wire'[1]) : wire'[1][i] = <<accepted'[1][i]>>
        BY <2>2 DEF Flow
      <4>2. /\ Len(accepted'[1]) = Len(wire'[1]) + 1 + Len(queue'[1])
            /\ \A i \in 1..Len(queue'[1]) : queue'[1][i] = accepted'[1][Len(wire'[1]) + 1 + i]
        BY <2>2, <3>2, <3>3, <3>4
      <4>3. lmsg'[Writer(1)] = accepted'[1][Len(wire'[1]) + 1]
        <5>1. 1 \in 1..Len(queue[1])
          BY <3>2, <3>3
        <5> QED
          BY <2>2, <3>1, <3>3, <5>1
      <4> QED
        BY <3>1, <4>1, <4>2, <4>3 DEF Flow, Taken, InHand
    <3>6. LoopOf(1)'
      BY <2>1, <2>2, <3>1 DEF LoopOf
    <3> QED
      BY <1>1, <2>2, <2>3, <3>5, <3>6, LoopKeepsFlow DEF Setting
  <2>4. CASE UNCHANGED queue /\ pc' = [pc EXCEPT ![p] = "done"]
    <3>1. Flow(1)' /\ LoopOf(1)'
      BY <2>2, <2>4 DEF Flow, LoopOf, Taken, InHand, Draining, DrainLabels
    <3> QED
      BY <1>1, <2>2, <2>4, <3>1, LoopKeepsFlow DEF Setting
  <2> QED
    BY <1>9, <2>1, <2>3, <2>4 DEF Receive, Goto
<1>10. CASE Serialize(p)
  <2>1. /\ pc[p] = "l_serialize" /\ pc' = [pc EXCEPT ![p] = "l_write"]
        /\ writeBuf' = Append(writeBuf, lmsg[p]) /\ writeBuf = <<>>
        /\ UNCHANGED <<wire, accepted, queue, writeChan, lconn, lmsg>>
    BY <1>10 DEF Serialize, Goto, LoopOf, Draining, DrainLabels, chanVars, localVars
  <2>2. writeBuf' = <<lmsg[p]>>
    BY <2>1
  <2>3. Flow(1)' /\ LoopOf(1)'
    BY <2>1, <2>2 DEF Flow, LoopOf, Taken, InHand, Draining, DrainLabels
  <2> QED
    BY <1>1, <2>1, <2>3, LoopKeepsFlow DEF Setting
<1>11. CASE SerializeError(p)
  <2>1. pc' = [pc EXCEPT ![p] = "fatal"] /\ UNCHANGED <<wire, accepted, queue>>
    BY <1>11 DEF SerializeError, Call, Goto, chanVars
  <2>2. Flow(1)' /\ LoopOf(1)'
    BY <2>1 DEF Flow, LoopOf, Taken, InHand, Draining, DrainLabels
  <2> QED
    BY <1>1, <2>1, <2>2, LoopKeepsFlow DEF Setting
<1>12. CASE WriteConn(p)
  <2>1. /\ pc[p] = "l_write" /\ lconn[p] = 1 /\ writeBuf = <<lmsg[p]>> /\ writeChan = 1
        /\ UNCHANGED <<accepted, queue, writeBuf, writeChan, lconn, lmsg>>
    BY <1>12 DEF WriteConn, LoopOf, DrainLabels, chanVars, localVars
  <2>2. CASE /\ wire' = [wire EXCEPT ![1] = Append(@, writeBuf)]
             /\ pc' = [pc EXCEPT ![p] = "l_reset"]
    <3>1. /\ wire'[1] = Append(wire[1], <<lmsg[p]>>) /\ pc'[p] = "l_reset"
          /\ Len(wire'[1]) = Len(wire[1]) + 1 /\ Len(wire[1]) \in Nat
          /\ wire'[1][Len(wire[1]) + 1] = <<lmsg[p]>>
          /\ \A i \in 1..Len(wire[1]) : wire'[1][i] = wire[1][i]
      BY <2>1, <2>2
    <3>2. Taken(1) = Len(wire[1]) + 1 /\ Taken(1)' = Len(wire[1]) + 1
      BY <2>1, <3>1 DEF Taken, InHand
    <3>3. Flow(1)'
      <4>1. /\ lmsg[p] = accepted[1][Len(wire[1]) + 1]
            /\ Len(accepted[1]) = Len(wire[1]) + 1 + Len(queue[1])
            /\ \A i \in 1..Len(queue[1]) : queue[1][i] = accepted[1][Len(wire[1]) + 1 + i]
        BY <2>1, <3>2 DEF Flow, InHand, Draining, DrainLabels
      <4>2. /\ Len(wire'[1]) <= Len(accepted'[1])
            /\ \A i \in 1..Len(wire'[1]) : wire'[1][i] = <<accepted'[1][i]>>
        <5> SUFFICES ASSUME NEW i \in 1..Len(wire'[1])
                     PROVE  wire'[1][i] = <<accepted[1][i]>>
          BY <2>1, <3>1, <4>1
        <5>1. CASE i = Len(wire[1]) + 1
          BY <3>1, <4>1, <5>1
        <5>2. CASE i \in 1..Len(wire[1])
          BY <3>1, <5>2 DEF Flow
        <5> QED
          BY <3>1, <5>1, <5>2
      <4>3. /\ Len(accepted'[1]) = Taken(1)' + Len(queue'[1])
            /\ \A i \in 1..Len(queue'[1]) : queue'[1][i] = accepted'[1][Taken(1)' + i]
        BY <2>1, <3>2, <4>1
      <4>4. pc'[Writer(1)] \notin InHand
        BY <3>1 DEF InHand
      <4> QED
        BY <4>2, <4>3, <4>4 DEF Flow
    <3>4. LoopOf(1)'
      BY <2>1, <3>1 DEF LoopOf, Draining
    <3> QED
      BY <1>1, <2>1, <2>2, <3>3, <3>4, LoopKeepsFlow DEF Setting
  <2>3. CASE UNCHANGED wire /\ pc' = [pc EXCEPT ![p] = "l_fail"]
    <3>1. Flow(1)' /\ LoopOf(1)'
      BY <2>1, <2>3 DEF Flow, LoopOf, Taken, InHand, Draining, DrainLabels
    <3> QED
      BY <1>1, <2>1, <2>3, <3>1, LoopKeepsFlow DEF Setting
  <2>4. lconn[p] # Torn
    BY <1>1 DEF OneConn
  <2> QED
    BY <1>12, <2>1, <2>2, <2>3, <2>4 DEF WriteConn, Goto
<1>13. CASE ResetBuf(p)
  <2>1. /\ pc[p] \in {"l_reset", "l_fail"}
        /\ pc' = [pc EXCEPT ![p] = IF pc[p] = "l_reset" THEN "l_lock" ELSE "fatal"]
        /\ writeBuf' = <<>> /\ UNCHANGED <<wire, accepted, queue, writeChan>>
    BY <1>13 DEF ResetBuf, ResetWriteBuf, Call, Goto, chanVars
  <2>2. Flow(1)' /\ LoopOf(1)'
    BY <2>1 DEF Flow, LoopOf, Taken, InHand, Draining, DrainLabels
  <2> QED
    BY <1>1, <2>1, <2>2, LoopKeepsFlow DEF Setting
<1> QED
  BY <1>6, <1>7, <1>8, <1>9, <1>10, <1>11, <1>12, <1>13

\* A connection without messages whose writeLoop does not run is in order.
LEMMA BlankFlow ==
  ASSUME NEW g \in Conns, Blank(g)', pc'[Writer(g)] \notin DrainLabels
  PROVE  Flow(g)' /\ LoopOf(g)'
  BY DEF Flow, LoopOf, Blank, InHand, Draining, DrainLabels

\* Append adds one element at the end and leaves the others where they are.
LEMMA AppendElements ==
  ASSUME NEW S, NEW s \in Seq(S), NEW e \in S
  PROVE  /\ Len(Append(s, e)) = Len(s) + 1 /\ Len(s) \in Nat
         /\ Append(s, e)[Len(s) + 1] = e
         /\ \A i \in 1..Len(s) : Append(s, e)[i] = s[i]
OBVIOUS

\* A message that goes into the channel is accepted at its place.
LEMMA SendFlow ==
  ASSUME TypeInv, SpawnInv, ConnInv, FirstInv, FlowInv, NEW p \in Procs, Send(p)
  PROVE  FlowInv'
<1> SUFFICES ASSUME dialed' <= 1 PROVE OneFlow'
  BY DEF FlowInv
<1>1. UNCHANGED dialed /\ dialed <= 1 /\ OneFlow /\ OneConn
  BY DEF FlowInv, FirstInv, Send, countVars
<1>2. conn \in Conns /\ lchan[p] = conn /\ ~closed[conn] /\ pc[p] = "send"
  BY <1>1 DEF OneConn, Send, At
<1>3. conn = 1 /\ dialed = 1 /\ 1 \in Conns
  BY <1>1, <1>2, SmallTypes DEF ConnInv, Conns
<1>4. lmsg[p] \in Msgs
  BY <1>2 DEF TypeInv, LocalInv
<1>5. /\ queue' = [queue EXCEPT ![1] = Append(@, lmsg[p])]
      /\ accepted' = [accepted EXCEPT ![1] = Append(@, lmsg[p])]
      /\ pc' = [pc EXCEPT ![p] = ret[p]]
      /\ UNCHANGED <<wire, writeBuf, writeChan>>
      /\ \A q \in Procs : q # p =>
           lconn'[q] = lconn[q] /\ lchan'[q] = lchan[q] /\ lmsg'[q] = lmsg[q]
  BY <1>2, <1>3, SmallTypes, FlowTypes DEF Send, Return, Goto, wireVars
<1>6. pc'[p] \notin DrainLabels \cup Setting /\ \A q \in Procs : q # p => pc'[q] = pc[q]
  BY <1>5, SmallTypes DEF ReturnLabels, DrainLabels, Setting
<1>7. \A q \in Procs : pc'[q] \notin Setting
  BY <1>1, <1>2, <1>6 DEF OneConn, Started
<1>8. /\ wire[1] \in Seq(Seq(Msgs)) /\ accepted[1] \in Seq(Msgs) /\ queue[1] \in Seq(Msgs)
      /\ queue'[1] = Append(queue[1], lmsg[p]) /\ accepted'[1] = Append(accepted[1], lmsg[p])
  BY <1>3, <1>5, FlowTypes
<1>9. /\ Len(queue'[1]) = Len(queue[1]) + 1 /\ Len(accepted'[1]) = Len(accepted[1]) + 1
      /\ Len(queue[1]) \in Nat /\ Len(accepted[1]) \in Nat /\ Len(wire[1]) \in Nat
      /\ queue'[1][Len(queue[1]) + 1] = lmsg[p]
      /\ accepted'[1][Len(accepted[1]) + 1] = lmsg[p]
      /\ \A i \in 1..Len(queue[1]) : queue'[1][i] = queue[1][i]
      /\ \A i \in 1..Len(accepted[1]) : accepted'[1][i] = accepted[1][i]
  <2>1. Len(wire[1]) \in Nat
    BY <1>8
  <2> QED
    BY <1>4, <1>8, <2>1, AppendElements
<1>10. Flow(1)'
  <2>1. Flow(1) /\ Writer(1) \in Procs
    BY <1>1, <1>3, FlowTypes DEF OneFlow
  <2>2. /\ Len(wire'[1]) <= Len(accepted'[1])
        /\ \A i \in 1..Len(wire'[1]) : wire'[1][i] = <<accepted'[1][i]>>
    <3>1. Len(wire[1]) <= Len(accepted[1])
      BY <2>1 DEF Flow
    <3>2. \A i \in 1..Len(wire[1]) : i \in 1..Len(accepted[1])
      BY <1>9, <3>1
    <3>3. \A i \in 1..Len(wire[1]) : wire[1][i] = <<accepted[1][i]>>
      BY <2>1 DEF Flow
    <3>4. wire' = wire /\ Len(wire[1]) <= Len(accepted'[1])
      BY <1>5, <1>9, <3>1
    <3> QED
      BY <1>9, <3>2, <3>3, <3>4
  <2>3. CASE pc'[Writer(1)] \notin DrainLabels
    BY <2>2, <2>3, FlowTypes DEF Flow, Draining, InHand, DrainLabels
  <2>4. CASE pc'[Writer(1)] \in Draining
    <3>1. /\ Writer(1) # p /\ pc'[Writer(1)] = pc[Writer(1)]
          /\ lmsg'[Writer(1)] = lmsg[Writer(1)]
      BY <1>5, <1>6, <2>1, <2>4, FlowTypes
    <3>0. PICK n \in Nat : n = Len(wire[1])
      BY <1>9
    <3>2. PICK t \in Nat : t = Taken(1) /\ t = n + (IF pc[Writer(1)] \in InHand THEN 1 ELSE 0)
      <4>1. Taken(1) = n + (IF pc[Writer(1)] \in InHand THEN 1 ELSE 0)
        BY <3>0 DEF Taken
      <4>2. n + (IF pc[Writer(1)] \in InHand THEN 1 ELSE 0) \in Nat
        OBVIOUS
      <4> QED
        BY <4>1, <4>2
    <3>3. Taken(1)' = t
      <4>1. Taken(1)' = n + (IF pc[Writer(1)] \in InHand THEN 1 ELSE 0)
        BY <1>5, <3>0, <3>1 DEF Taken
      <4> QED
        BY <3>2, <4>1
    <3>4. /\ Len(accepted[1]) = t + Len(queue[1])
          /\ \A i \in 1..Len(queue[1]) : queue[1][i] = accepted[1][t + i]
          /\ pc[Writer(1)] \in InHand => lmsg[Writer(1)] = accepted[1][t]
      BY <2>1, <2>4, <3>1, <3>2 DEF Flow
    <3>5. \A i \in 1..Len(queue'[1]) : queue'[1][i] = accepted'[1][t + i]
      <4> SUFFICES ASSUME NEW i \in 1..Len(queue'[1])
                   PROVE  queue'[1][i] = accepted'[1][t + i]
        OBVIOUS
      <4>1. CASE i = Len(queue[1]) + 1
        BY <1>9, <3>3, <3>4, <4>1
      <4>2. CASE i \in 1..Len(queue[1])
        <5>1. t + i \in 1..Len(accepted[1])
          BY <1>9, <3>3, <3>4, <4>2
        <5> QED
          BY <1>9, <3>4, <4>2, <5>1
      <4> QED
        BY <1>9, <4>1, <4>2
    <3>6. pc'[Writer(1)] \in InHand => lmsg'[Writer(1)] = accepted'[1][t]
      <4> SUFFICES ASSUME pc'[Writer(1)] \in InHand
                   PROVE  lmsg'[Writer(1)] = accepted'[1][t]
        OBVIOUS
      <4>1. t >= 1
        BY <3>1, <3>2
      <4>2. t \in 1..Len(accepted[1])
        <5>1. PICK k \in Nat : k = Len(queue[1])
          BY <1>9
        <5>2. Len(accepted[1]) = t + k
          BY <3>4, <5>1
        <5> QED
          BY <4>1, <5>2
      <4> QED
        BY <1>9, <3>1, <3>4, <4>2
    <3>7. Len(accepted'[1]) = t + Len(queue'[1])
      BY <1>9, <3>3, <3>4
    <3> QED
      BY <2>2, <3>3, <3>5, <3>6, <3>7 DEF Flow
  <2>5. CASE pc'[Writer(1)] = "l_fail"
    BY <2>2, <2>5 DEF Flow, Draining, InHand
  <2> QED
    BY <2>3, <2>4, <2>5 DEF Draining
<1>11. LoopOf(1)'
  <2>1. LoopOf(1) /\ Writer(1) \in Procs
    BY <1>1, <1>3, FlowTypes DEF OneFlow
  <2>2. CASE Writer(1) = p
    BY <1>6, <2>2 DEF LoopOf, DrainLabels, Draining
  <2>3. CASE Writer(1) # p
    BY <1>5, <1>6, <2>1, <2>3 DEF LoopOf
  <2> QED
    BY <2>2, <2>3
<1>12. ASSUME NEW g \in Conns
       PROVE  Flow(g)' /\ (g <= dialed' => LoopOf(g)') /\ (g > dialed' => Blank(g)')
  <2>1. CASE g = 1
    <3>1. ~(g > dialed')
      BY <1>1, <1>3, <2>1
    <3>2. Flow(g)'
      BY <1>10, <2>1 DEF Flow, Taken, Writer
    <3>3. LoopOf(g)'
      BY <1>11, <2>1 DEF LoopOf, Writer
    <3> QED
      BY <3>1, <3>2, <3>3
  <2>2. CASE g # 1
    <3>1. g > dialed /\ Flow(g) /\ Blank(g) /\ Writer(g) \in Procs
      BY <1>1, <1>3, <2>2, FlowTypes DEF OneFlow, Conns
    <3>2. pc[Writer(g)] = "off" /\ pc'[Writer(g)] \notin DrainLabels
      BY <1>6, <3>1 DEF SpawnInv, DrainLabels
    <3>3. wire'[g] = <<>> /\ accepted'[g] = <<>> /\ queue'[g] = <<>>
      BY <1>5, <2>2, <3>1, FlowTypes DEF Blank
    <3>4. Blank(g)'
      BY <3>3 DEF Blank
    <3> QED
      BY <3>2, <3>4, BlankFlow
  <2> QED
    BY <2>1, <2>2
<1> QED
  BY <1>1, <1>3, <1>7, <1>12 DEF OneFlow

\* The loops start with nothing accepted.
LEMMA SetChanFlow ==
  ASSUME TypeInv, SpawnInv, FirstInv, FlowInv, NEW p \in Procs, SetChan(p)
  PROVE  FlowInv'
<1> SUFFICES ASSUME dialed' <= 1 PROVE OneFlow'
  BY DEF FlowInv
<1>1. UNCHANGED dialed /\ dialed <= 1 /\ OneFlow /\ OneConn
  BY DEF FlowInv, FirstInv, SetChan, countVars
<1>2. /\ pc' = [pc EXCEPT ![p] = ret[p], ![Reader(lconn[p])] = "r_lock",
                          ![Writer(lconn[p])] = "l_lock"]
      /\ pc[p] = "setChan" /\ lconn[p] \in Conns /\ lconn[p] \in 1..dialed
      /\ writeChan' = lconn[p]
      /\ UNCHANGED <<wire, accepted, queue, writeBuf, lconn, lchan, lmsg>>
  BY SmallTypes DEF SetChan, At, Reader, Writer, Setting, localVars, wireVars
<1>3. lconn[p] = 1 /\ dialed = 1
  BY <1>1, <1>2, SmallTypes
<1>4. Blank(1) /\ writeBuf = <<>>
  BY <1>1, <1>2, <1>3 DEF OneFlow, Setting
<1>5. \A q \in Procs : pc'[q] \notin Setting
  BY <1>1, <1>2, SmallTypes DEF OneConn, Setting, Started, ReturnLabels
<1>6. ASSUME NEW g \in Conns
      PROVE  Flow(g)' /\ (g <= dialed' => LoopOf(g)') /\ (g > dialed' => Blank(g)')
  <2>1. Blank(g) /\ Blank(g)'
    BY <1>1, <1>2, <1>3, <1>4 DEF OneFlow, Blank, Conns
  <2>2. CASE g = 1
    <3>1. pc'[Writer(g)] = "l_lock"
      BY <1>2, <1>3, <2>2, SmallTypes, LoopFacts
    <3>2. Taken(g)' = 0
      BY <2>1, <3>1 DEF Blank, Taken, InHand
    <3> QED
      BY <1>2, <1>3, <1>4, <2>1, <2>2, <3>1, <3>2 DEF Flow, LoopOf, Blank, InHand, Draining
  <2>3. CASE g # 1
    <3>1. g > dialed /\ g > dialed'
      BY <1>1, <1>3, <2>3 DEF Conns
    <3>2. /\ Writer(g) # Writer(1) /\ Writer(g) # Reader(1) /\ Writer(g) # p
          /\ pc[Writer(g)] = "off"
      BY <1>2, <1>3, <2>3, <3>1, LoopFacts DEF SpawnInv
    <3>3. pc'[Writer(g)] \notin DrainLabels
      BY <1>2, <1>3, <3>2, LoopFacts, SmallTypes DEF DrainLabels
    <3> QED
      BY <2>1, <3>3, BlankFlow
  <2> QED
    BY <2>2, <2>3
<1> QED
  BY <1>1, <1>3, <1>5, <1>6 DEF OneFlow

\* The first connection is dialed.
LEMMA DialFlow ==
  ASSUME TypeInv, SpawnInv, FirstInv, FlowInv, NEW p \in Procs, DialOk(p)
  PROVE  FlowInv'
<1> SUFFICES ASSUME dialed' <= 1 PROVE OneFlow'
  BY DEF FlowInv
<1>1. /\ dialed = 0 /\ dialed' = 1 /\ OneFlow /\ 1 \in Conns
      /\ pc' = [pc EXCEPT ![p] = "setConn"] /\ lconn' = [lconn EXCEPT ![p] = 1]
      /\ UNCHANGED <<wire, accepted, queue, writeBuf, writeChan, lmsg>>
  <2>1. dialed' = dialed + 1 /\ dialed < MaxConns /\ dialed \in Nat
    BY SmallTypes DEF DialOk
  <2>2. dialed = 0 /\ dialed' = 1 /\ 1 \in Conns
    BY <2>1, BoundsAssumption DEF BoundsAssumption, Conns
  <2>3. /\ pc' = [pc EXCEPT ![p] = "setConn"] /\ lconn' = [lconn EXCEPT ![p] = 1]
        /\ UNCHANGED <<wire, accepted, queue, writeBuf, writeChan, lmsg>>
    BY <2>2 DEF DialOk, Call, Goto, chanVars, wireVars
  <2> QED
    BY <2>2, <2>3 DEF FlowInv
<1>2. ASSUME NEW g \in Conns
      PROVE  Blank(g)' /\ Flow(g)' /\ LoopOf(g)'
  <2>1. g > dialed /\ Blank(g) /\ Writer(g) \in Procs
    BY <1>1, FlowTypes DEF OneFlow, Conns
  <2>2. Blank(g)'
    BY <1>1, <2>1 DEF Blank
  <2>3. pc'[Writer(g)] \notin DrainLabels
    BY <1>1, <2>1, SmallTypes DEF SpawnInv, DrainLabels
  <2> QED
    BY <2>2, <2>3, BlankFlow
<1>3. ASSUME NEW q \in Procs, pc'[q] \in Setting
      PROVE  Blank(lconn[q])'
  <2>1. lconn'[q] \in Conns
    BY <1>1, <1>3, SmallTypes DEF Setting
  <2> QED
    BY <1>2, <2>1 DEF Blank
<1> QED
  BY <1>1, <1>2, <1>3 DEF OneFlow

\* FlowInv is inductive: the steps beside the messages, and one step per action for the others.
LEMMA FlowStep ==
  ASSUME TypeInv, SpawnInv, ConnInv, RoleInv, FirstInv, FlowInv, [Next]_vars
  PROVE  FlowInv'
<1>1. CASE UNCHANGED vars
  <2>1. Beside(NoProc)
    BY <1>1, FlowTypes, NobodyRuns DEF vars, chanVars, localVars, wireVars, countVars, Beside
  <2> QED
    BY <2>1, BesideFlow
<1>2. ASSUME NEW a \in Apps, Poll(a)
      PROVE  FlowInv'
  <2>1. Beside(NoProc)
    BY <1>2, FlowTypes, NobodyRuns DEF Poll, chanVars, localVars, wireVars, countVars, Beside
  <2> QED
    BY <2>1, BesideFlow
<1>3. ASSUME NEW p \in Procs,
             CallConnect(p) \/ CallDisconnect(p) \/ CallWrite(p) \/ DialFail(p) \/
             Announce(p) \/ Fatalf(p) \/ Lock(p) \/ Locked(p) \/ CloseConn(p) \/ SetNil(p) \/
             CloseChan(p) \/ EmitDisconnected(p) \/ WriteRLock(p) \/ WriteCheck(p) \/
             ReadClosed(p) \/ ReadError(p) \/ ReadPacket(p) \/ PacketDone(p) \/ Notify(p) \/
             BeatStop(p) \/ BeatNew(p) \/ BeatWait(p) \/ BeatTick(p)
      PROVE  FlowInv'
  BY <1>3, BesideSteps, BesideFlow
<1>4. ASSUME NEW p \in Procs, DialOk(p)
      PROVE  FlowInv'
  BY <1>4, DialFlow
<1>5. ASSUME NEW p \in Procs, SetConn(p)
      PROVE  FlowInv'
  <2>1. Beside(p)
    BY <1>5, SmallTypes, FlowTypes DEF SetConn, Goto, At, Beside, chanVars, localVars, wireVars,
       countVars, DrainLabels, Setting
  <2> QED
    BY <2>1, BesideFlow
<1>6. ASSUME NEW p \in Procs, SetChan(p)
      PROVE  FlowInv'
  BY <1>6, SetChanFlow
<1>7. ASSUME NEW p \in Procs, Send(p)
      PROVE  FlowInv'
  BY <1>7, SendFlow
<1>8. ASSUME NEW p \in Procs, LoopRLock(p) \/ LoopConn(p)
      PROVE  FlowInv'
  <2>1. CASE pc[p] \in DrainLabels
    BY <1>8, <2>1, LoopFlow DEF RoleInv
  <2>2. CASE pc[p] \in {"r_lock", "r_conn"}
    <3>1. /\ pc' \in {[pc EXCEPT ![p] = l] : l \in {"r_conn", "r_read", "done"}}
          /\ \A q \in Procs : q # p => lconn'[q] = lconn[q]
          /\ UNCHANGED <<wire, accepted, queue, writeBuf, writeChan, dialed, lchan, lmsg>>
      BY <1>8, <2>2, SmallTypes DEF LoopRLock, LoopConn, Goto, At, chanVars, localVars, wireVars,
         countVars
    <3>2. Beside(p)
      BY <3>1, SmallTypes, FlowTypes DEF Beside, DrainLabels, Setting
    <3> QED
      BY <3>2, BesideFlow
  <2> QED
    BY <1>8, <2>1, <2>2 DEF LoopRLock, LoopConn, At, DrainLabels
<1>9. ASSUME NEW p \in Procs, HandlePacket(p)
      PROVE  FlowInv'
  <2>1. /\ pc[p] = "r_packet" /\ p \in ReadLoops
        /\ UNCHANGED <<wire, accepted, queue, writeBuf, writeChan, dialed>>
        /\ \A q \in Procs : q # p => /\ lconn'[q] = lconn[q] /\ lchan'[q] = lchan[q]
                                     /\ lmsg'[q] = lmsg[q]
    BY <1>9, FlowTypes DEF HandlePacket, EnterWrite, At, RoleInv, ReadLabels, chanVars,
       localVars, wireVars, countVars
  <2>2. logons < MaxLogOns => logons + 1 \in Tickers
    BY SmallTypes, BoundsAssumption DEF BoundsAssumption, Tickers
  <2>3. /\ pc'[p] \in {"rlock", "fatal", "notify", "r_nil"}
        /\ \A q \in Procs : q # p => \/ pc'[q] = pc[q]
                                     \/ q \in Beats /\ pc'[q] = "b_stop"
    BY <1>9, <2>1, <2>2, SmallTypes, LoopFacts DEF HandlePacket, EnterWrite, Call, Goto, Beat,
       Beats
  <2>4. p \notin WriteLoops /\ WriteLoops \cap Beats = {}
    BY <2>1 DEF ReadLoops, WriteLoops, Beats
  <2>5. Beside(p)
    BY <2>1, <2>3, <2>4, FlowTypes DEF Beside, Setting
  <2> QED
    BY <2>5, BesideFlow
<1>10. ASSUME NEW p \in Procs,
              LoopChan(p) \/ Receive(p) \/ Serialize(p) \/ SerializeError(p) \/ WriteConn(p)
                \/ ResetBuf(p)
       PROVE  FlowInv'
  <2>1. pc[p] \in DrainLabels
    BY <1>10 DEF LoopChan, Receive, Serialize, SerializeError, WriteConn, ResetBuf, At,
       DrainLabels
  <2> QED
    BY <1>10, <2>1, LoopFlow DEF RoleInv
<1> QED
  BY <1>1, <1>2, <1>3, <1>4, <1>5, <1>6, <1>7, <1>8, <1>9, <1>10 DEF Next, Run, Rest,
     AppCall, Outside, Step, ConnectStep, DisconnectStep, WriteStep, ReadStep, DrainStep,
     BeatStep, Procs


\* Flow says position by position what Conserved says of whole sequences.
LEMMA FlowConserves ==
  ASSUME TypeInv, NEW g \in Conns, Flow(g)
  PROVE  /\ \A i \in DOMAIN wire[g] : wire[g][i] = <<accepted[g][i]>>
         /\ pc[Writer(g)] \in Draining =>
              accepted[g] = [i \in DOMAIN wire[g] |-> wire[g][i][1]] \o InFlight(g) \o queue[g]
<1>1. /\ wire[g] \in Seq(Seq(Msgs)) /\ accepted[g] \in Seq(Msgs) /\ queue[g] \in Seq(Msgs)
      /\ lmsg[Writer(g)] \in Msgs \cup {Nil}
  BY FlowTypes
<1>2. PICK n \in Nat : n = Len(wire[g]) /\ DOMAIN wire[g] = 1..n
  BY <1>1
<1>3. PICK k \in Nat : k = Len(queue[g])
  BY <1>1
<1>4. n <= Len(accepted[g]) /\ \A i \in 1..n : wire[g][i] = <<accepted[g][i]>>
  BY <1>2 DEF Flow
<1>5. ASSUME pc[Writer(g)] \in Draining
      PROVE  accepted[g] = [i \in DOMAIN wire[g] |-> wire[g][i][1]] \o InFlight(g) \o queue[g]
  <2>1. PICK t \in Nat : /\ t = Taken(g)
                         /\ t = n + (IF pc[Writer(g)] \in InHand THEN 1 ELSE 0)
    <3>1. Taken(g) = n + (IF pc[Writer(g)] \in InHand THEN 1 ELSE 0)
      BY <1>2 DEF Taken
    <3>2. n + (IF pc[Writer(g)] \in InHand THEN 1 ELSE 0) \in Nat
      OBVIOUS
    <3> QED
      BY <3>1, <3>2
  <2>2. /\ Len(accepted[g]) = t + k
        /\ \A i \in 1..k : queue[g][i] = accepted[g][t + i]
        /\ pc[Writer(g)] \in InHand => lmsg[Writer(g)] = accepted[g][t]
    BY <1>3, <1>5, <2>1 DEF Flow
  <2>3. PICK w : w = [i \in 1..n |-> wire[g][i][1]]
    OBVIOUS
  <2>4. w \in Seq(Msgs) /\ Len(w) = n /\ \A i \in 1..n : w[i] = accepted[g][i]
    <3>1. \A i \in 1..n : wire[g][i][1] = accepted[g][i] /\ accepted[g][i] \in Msgs
      BY <1>1, <1>4
    <3> QED
      BY <2>3, <3>1
  <2>5. PICK f : f = InFlight(g)
    OBVIOUS
  <2>6. /\ f \in Seq(Msgs) /\ Len(f) = t - n
        /\ Len(f) = 1 => f[1] = accepted[g][t]
    <3>1. CASE pc[Writer(g)] \in InHand
      <4>1. f = <<lmsg[Writer(g)]>> /\ t = n + 1
        BY <2>1, <2>5, <3>1 DEF InFlight, InHand, Writer
      <4>2. accepted[g][t] \in Msgs /\ lmsg[Writer(g)] = accepted[g][t]
        <5>1. t \in 1..Len(accepted[g])
          BY <2>2, <4>1
        <5> QED
          BY <1>1, <2>2, <3>1, <5>1
      <4> QED
        BY <4>1, <4>2
    <3>2. CASE pc[Writer(g)] \notin InHand
      BY <2>1, <2>5, <3>2 DEF InFlight, InHand, Writer
    <3> QED
      BY <3>1, <3>2
  <2>7. PICK u : u = w \o f
    OBVIOUS
  <2>8. u \in Seq(Msgs) /\ Len(u) = t /\ \A i \in 1..t : u[i] = accepted[g][i]
    <3>1. /\ u \in Seq(Msgs) /\ Len(u) = Len(w) + Len(f)
          /\ \A i \in 1..(Len(w) + Len(f)) : u[i] = IF i <= Len(w) THEN w[i] ELSE f[i - Len(w)]
      BY <2>4, <2>6, <2>7, ConcatProperties
    <3>2. t = n \/ t = n + 1
      BY <2>1
    <3>3. Len(u) = t /\ \A i \in 1..t : u[i] = IF i <= n THEN w[i] ELSE f[i - n]
      BY <2>4, <2>6, <3>1, <3>2
    <3>4. ASSUME NEW i \in 1..t
          PROVE  u[i] = accepted[g][i]
      <4>1. CASE i <= n
        BY <2>4, <3>3, <4>1
      <4>2. CASE ~(i <= n)
        <5>1. i = t /\ t - n = 1 /\ i - n = 1
          BY <3>2, <4>2
        <5> QED
          BY <2>6, <3>3, <4>2, <5>1
      <4> QED
        BY <4>1, <4>2
    <3> QED
      BY <3>1, <3>3, <3>4
  <2>9. accepted[g] = u \o queue[g]
    <3>1. PICK v : v = u \o queue[g]
      OBVIOUS
    <3>2. /\ v \in Seq(Msgs) /\ Len(v) = Len(u) + Len(queue[g])
          /\ \A i \in 1..(Len(u) + Len(queue[g])) :
               v[i] = IF i <= Len(u) THEN u[i] ELSE queue[g][i - Len(u)]
      BY <1>1, <2>8, <3>1, ConcatProperties
    <3>3. Len(v) = t + k /\ \A i \in 1..(t + k) : v[i] = IF i <= t THEN u[i] ELSE queue[g][i - t]
      BY <1>3, <2>8, <3>2
    <3>4. ASSUME NEW i \in 1..(t + k)
          PROVE  accepted[g][i] = v[i]
      <4>1. CASE i <= t
        BY <2>8, <3>3, <4>1
      <4>2. CASE ~(i <= t)
        <5>1. i - t \in 1..k /\ t + (i - t) = i
          BY <4>2
        <5>2. v[i] = queue[g][i - t]
          BY <3>3, <4>2
        <5> QED
          BY <2>2, <5>1, <5>2
      <4> QED
        BY <4>1, <4>2
    <3>5. Len(accepted[g]) = Len(v) /\ \A i \in 1..Len(accepted[g]) : accepted[g][i] = v[i]
      BY <2>2, <3>3, <3>4
    <3>6. accepted[g] = v
      BY <1>1, <3>2, <3>5, SeqEqual
    <3> QED
      BY <3>1, <3>6
  <2> QED
    BY <1>2, <2>3, <2>5, <2>7, <2>9
<1> QED
  BY <1>2, <1>4, <1>5

\* An application that lets nothing overlap a Connect loses, repeats and reorders nothing on
\* the first connection of a client: every frame on the wire holds one message, in the order
\* Write accepted them, and until the writeLoop gives up what Write accepted is on the wire, in
\* the writeLoop's hands or queued (client.go:244, 275-289).
THEOREM FirstConnectionKeepsMessages ==
  ASSUME ExclusiveConnect
  PROVE  Spec => [](dialed <= 1 => Conserved)
<1>1. Init => FlowInv
  BY DEF Init, FlowInv, OneFlow, Flow, LoopOf, Blank, Draining, InHand, DrainLabels, Setting,
     Procs, Loops, WriteLoops, Writer
<1>2. TypeInv /\ SpawnInv /\ ConnInv /\ RoleInv /\ FirstInv /\ FlowInv /\ [Next]_vars
        => FlowInv'
  BY FlowStep
<1>3. TypeInv /\ FlowInv => (dialed <= 1 => Conserved)
  <2>1. ASSUME TypeInv, OneFlow, NEW g \in Conns
        PROVE  /\ \A i \in DOMAIN wire[g] : wire[g][i] = <<accepted[g][i]>>
               /\ pc[<<"writeLoop", g>>] \in DrainLabels \ {"l_fail"} =>
                    accepted[g] = [i \in DOMAIN wire[g] |-> wire[g][i][1]]
                                    \o InFlight(g) \o queue[g]
    <3>1. Flow(g)
      BY <2>1 DEF OneFlow
    <3> QED
      BY <2>1, <3>1, FlowConserves, Zenon DEF Writer, Draining
  <2>2. TypeInv /\ OneFlow => Conserved
    BY <2>1, Zenon DEF Conserved
  <2> QED
    BY <2>2 DEF FlowInv
<1> QED
  BY <1>1, <1>2, <1>3, FirstInvariant, PTL DEF Spec
=============================================================================
