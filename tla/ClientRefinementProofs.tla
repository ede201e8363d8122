----------------------- MODULE ClientRefinementProofs -----------------------
(***************************************************************************)
(* Client implements ConnLife for every number of goroutines, connections, *)
(* messages and logons and for every capacity of the channels.  Five       *)
(* actions of Client are steps of ConnLife (DialOk, SetConn, CloseConn,    *)
(* SetNil, EmitDisconnected), every other one is a stuttering step.        *)
(***************************************************************************)
EXTENDS ClientRefinement, ClientProofs

Storing  == {"setConn", "setConn2"}
Closing  == {"setNil", "closeChan", "emitDisc"}

\* A connection is being closed only while a goroutine is inside Disconnect.
ClosingInv == closing # Nil => \E p \in Procs : pc[p] \in Closing

\* The invariant under which a step of Client is a step of ConnLife.
LifeInv == TypeInv /\ SpawnInv /\ LockInv /\ ConnInv /\ ClosingInv

\* A step that touches no connection: no dial, no store, no Disconnect past its lock.
Apart ==
  /\ UNCHANGED <<conn, sock, closing, discon, dialed>>
  /\ \A q \in Procs : pc'[q] \in Storing <=> pc[q] \in Storing
  /\ \A q \in Procs : pc[q] \in Storing => lconn'[q] = lconn[q]
  /\ \A q \in Procs : pc[q] \in Closing => pc'[q] \in Closing

\* The actions that move a connection on.
LifeStep(p) == DialOk(p) \/ SetConn(p) \/ CloseConn(p) \/ SetNil(p) \/ EmitDisconnected(p)

\* All other actions leave the connections alone.
LEMMA OtherStep ==
  ASSUME TypeInv, SpawnInv, [Next]_vars
  PROVE  Apart \/ \E p \in Procs : LifeStep(p)
<1>1. pc \in [Procs -> Labels] /\ ret \in [Procs -> ReturnLabels]
      /\ lconn \in [Procs -> Conns \cup {Nil, Torn}]
  BY SmallTypes
<1> USE <1>1 DEF At, Apart, Storing, Closing, histVars, localVars, countVars
<1>2. CASE UNCHANGED vars
  BY <1>2 DEF vars
<1>3. ASSUME NEW a \in Apps, Poll(a)
      PROVE  Apart
  BY <1>3 DEF Poll
<1>4. ASSUME NEW p \in Procs, CallConnect(p)
      PROVE  Apart
  BY <1>4 DEF CallConnect, MayCall, Call, Goto
<1>5. ASSUME NEW p \in Procs, CallDisconnect(p)
      PROVE  Apart
  BY <1>5 DEF CallDisconnect, MayCall, Call, Goto
<1>6. ASSUME NEW p \in Procs, CallWrite(p)
      PROVE  Apart
  BY <1>6 DEF CallWrite, MayCall, EnterWrite, Call, Goto
<1>7. ASSUME NEW p \in Procs, DialFail(p)
      PROVE  Apart
  BY <1>7 DEF DialFail, Call, Goto
<1>8. ASSUME NEW p \in Procs, Announce(p)
      PROVE  Apart
  BY <1>8 DEF Announce, Goto
<1>9. ASSUME NEW p \in Procs, Fatalf(p)
      PROVE  Apart
  BY <1>9 DEF Fatalf, Goto
<1>10. ASSUME NEW p \in Procs, Lock(p)
      PROVE  Apart
  BY <1>10 DEF Lock, Goto
<1>11. ASSUME NEW p \in Procs, Locked(p)
      PROVE  Apart
  BY <1>11 DEF Locked, Unlock, Return, Goto, ReturnLabels
<1>12. ASSUME NEW p \in Procs, CloseChan(p)
      PROVE  Apart
  BY <1>12 DEF CloseChan, CloseWriteChan, Goto
<1>13. ASSUME NEW p \in Procs, WriteRLock(p)
      PROVE  Apart
  BY <1>13 DEF WriteRLock, RLock, Goto
<1>14. ASSUME NEW p \in Procs, WriteCheck(p)
      PROVE  Apart
  BY <1>14 DEF WriteCheck, RUnlock, Return, Goto, ReturnLabels
<1>15. ASSUME NEW p \in Procs, Send(p)
      PROVE  Apart
  BY <1>15 DEF Send, RUnlock, Return, Goto, ReturnLabels
<1>16. ASSUME NEW p \in Procs, LoopRLock(p)
      PROVE  Apart
  BY <1>16 DEF LoopRLock, RLock, Goto
<1>17. ASSUME NEW p \in Procs, LoopConn(p)
      PROVE  Apart
  BY <1>17 DEF LoopConn, RUnlock, Goto
<1>18. ASSUME NEW p \in Procs, ReadClosed(p)
      PROVE  Apart
  BY <1>18 DEF ReadClosed, Call, Goto
<1>19. ASSUME NEW p \in Procs, ReadError(p)
      PROVE  Apart
  BY <1>19 DEF ReadError, Call, Goto
<1>20. ASSUME NEW p \in Procs, ReadPacket(p)
      PROVE  Apart
  BY <1>20 DEF ReadPacket, Goto
<1>21. ASSUME NEW p \in Procs, PacketDone(p)
      PROVE  Apart
  BY <1>21 DEF PacketDone, Goto
<1>22. ASSUME NEW p \in Procs, Notify(p)
      PROVE  Apart
  BY <1>22 DEF Notify, Return, Goto, ReturnLabels
<1>23. ASSUME NEW p \in Procs, LoopChan(p)
      PROVE  Apart
  BY <1>23 DEF LoopChan, Goto
<1>24. ASSUME NEW p \in Procs, Receive(p)
      PROVE  Apart
  BY <1>24 DEF Receive, Goto
<1>25. ASSUME NEW p \in Procs, Serialize(p)
      PROVE  Apart
  BY <1>25 DEF Serialize, Goto
<1>26. ASSUME NEW p \in Procs, SerializeError(p)
      PROVE  Apart
  BY <1>26 DEF SerializeError, ResetWriteBuf, Call, Goto
<1>27. ASSUME NEW p \in Procs, WriteConn(p)
      PROVE  Apart
  BY <1>27 DEF WriteConn, Goto
<1>28. ASSUME NEW p \in Procs, ResetBuf(p)
      PROVE  Apart
  BY <1>28 DEF ResetBuf, ResetWriteBuf, Call, Goto
<1>29. ASSUME NEW p \in Procs, BeatStop(p)
      PROVE  Apart
  BY <1>29 DEF BeatStop, Goto
<1>30. ASSUME NEW p \in Procs, BeatNew(p)
      PROVE  Apart
  BY <1>30 DEF BeatNew, Goto
<1>31. ASSUME NEW p \in Procs, BeatWait(p)
      PROVE  Apart
  BY <1>31 DEF BeatWait, Goto
<1>32. ASSUME NEW p \in Procs, BeatTick(p)
      PROVE  Apart
  BY <1>32 DEF BeatTick, EnterWrite, Call, Goto
<1>33. ASSUME NEW p \in Procs, SetChan(p)
      PROVE  Apart
  <2>1. /\ pc[p] = "setChan" /\ UNCHANGED <<conn, sock, closing, discon, dialed, lconn>>
        /\ pc' = [pc EXCEPT ![p] = ret[p], ![Reader(lconn[p])] = "r_lock",
                            ![Writer(lconn[p])] = "l_lock"]
    BY <1>33 DEF SetChan, Reader, Writer
  <2>2. pc[Reader(lconn[p])] = "off" /\ pc[Writer(lconn[p])] = "off"
    BY <2>1 DEF SpawnInv, Setting
  <2>3. ret[p] \notin Storing \cup Closing
    BY DEF ReturnLabels
  <2> QED
    BY <2>1, <2>2, <2>3
<1>34. ASSUME NEW p \in Procs, HandlePacket(p)
      PROVE  Apart
  <2>1. /\ pc[p] = "r_packet" /\ UNCHANGED <<conn, sock, closing, discon, dialed, lconn>>
        /\ \/ \E l \in {"notify", "rlock", "fatal", "r_nil"} : pc' = [pc EXCEPT ![p] = l]
           \/ /\ logons < MaxLogOns
              /\ pc' = [pc EXCEPT ![p] = "notify", ![Beat(logons + 1)] = "b_stop"]
    BY <1>34 DEF HandlePacket, Call, Goto, EnterWrite, Beat
  <2>2. logons < MaxLogOns => pc[Beat(logons + 1)] = "off"
    BY SmallTypes, BoundsAssumption DEF BoundsAssumption, SpawnInv, Tickers
  <2> QED
    BY <2>1, <2>2
<1> QED
  BY <1>2, <1>3, <1>4, <1>5, <1>6, <1>7, <1>8, <1>9, <1>10, <1>11, <1>12, <1>13, <1>14,
     <1>15, <1>16, <1>17, <1>18, <1>19, <1>20, <1>21, <1>22, <1>23, <1>24, <1>25, <1>26,
     <1>27, <1>28, <1>29, <1>30, <1>31, <1>32, <1>33, <1>34 DEF Next, Run, Rest, AppCall,
     Outside, Step, ConnectStep, DisconnectStep, WriteStep, ReadStep, DrainStep, BeatStep,
     Procs, LifeStep

-----------------------------------------------------------------------------
(* The steps of ConnLife *)

\* The types the steps need, and the goroutines inside Disconnect.
LEMMA LifeFacts ==
  ASSUME LifeInv
  PROVE  /\ conn \in Conns \cup {Nil, Torn} /\ closing \in Conns \cup {Nil}
         /\ discon \in [Conns -> Nat] /\ sock \in [Conns -> {"none", "open", "closed"}]
         /\ pc \in [Procs -> Labels] /\ ret \in [Procs -> ReturnLabels]
         /\ lconn \in [Procs -> Conns \cup {Nil, Torn}] /\ dialed \in 0..MaxConns
         /\ Nil \notin Conns /\ Torn \notin Conns /\ Nil # Torn
         /\ \A q \in Procs : pc[q] \in Storing => lconn[q] \in Conns /\ lconn[q] <= dialed
         /\ \A q, r \in Procs : pc[q] \in HeldLabels /\ pc[r] \in HeldLabels => q = r
<1>1. /\ conn \in Conns \cup {Nil, Torn} /\ closing \in Conns \cup {Nil}
      /\ discon \in [Conns -> Nat] /\ sock \in [Conns -> {"none", "open", "closed"}]
  BY DEF LifeInv, TypeInv, TypeOK
<1>2. Nil \notin Conns /\ Torn \notin Conns /\ Nil # Torn
  BY DEF Nil, Torn, Conns
<1>3. \A q \in Procs : pc[q] \in Storing => lconn[q] \in Conns /\ lconn[q] <= dialed
  BY SmallTypes DEF LifeInv, Storing, Setting
<1>4. \A q, r \in Procs : pc[q] \in HeldLabels /\ pc[r] \in HeldLabels => q = r
  BY DEF LifeInv, LockInv
<1> QED
  BY <1>1, <1>2, <1>3, <1>4, SmallTypes DEF LifeInv

\* A step that touches no connection is a stuttering step.
LEMMA ApartStutters ==
  ASSUME LifeInv, Apart
  PROVE  ClosingInv' /\ UNCHANGED Life!vars
<1>1. ClosingInv'
  BY DEF LifeInv, ClosingInv, Apart
<1>2. \A g \in Conns : Held(g)' <=> Held(g)
  BY DEF Held, Apart, Storing
<1>3. \A g \in Conns : PhaseOf(g)' = PhaseOf(g)
  BY <1>2 DEF PhaseOf, Apart
<1> QED
  BY <1>1, <1>3 DEF Life!vars, Apart

\* A dial that succeeds.
LEMMA DialIsDial ==
  ASSUME LifeInv, NEW p \in Procs, DialOk(p)
  PROVE  ClosingInv' /\ Life!Next
<1> USE LifeFacts
<1>0. PICK g : g = dialed + 1
  OBVIOUS
<1>1. /\ pc[p] \in {"dialTCP", "dialWS"} /\ pc' = [pc EXCEPT ![p] = "setConn"]
      /\ dialed' = g /\ g \in Conns /\ lconn' = [lconn EXCEPT ![p] = g]
      /\ sock' = [sock EXCEPT ![g] = "open"] /\ UNCHANGED <<conn, closing, discon>>
  BY <1>0, BoundsAssumption DEF BoundsAssumption, DialOk, Call, Goto, At, Conns, histVars
<1>2. ClosingInv'
  <2>1. \A q \in Procs : pc[q] \in Closing => pc'[q] \in Closing
    BY <1>1 DEF Closing
  <2> QED
    BY <1>1, <2>1 DEF LifeInv, ClosingInv
<1>3. discon[g] = 0 /\ conn # g /\ closing # g /\ ~Held(g)
  <2>1. ~(g <= dialed) /\ Nil # g /\ g > dialed
    BY <1>0, <1>1
  <2>2. discon[g] = 0 /\ conn # g
    BY <1>1, <2>1 DEF LifeInv, ConnInv
  <2>3. closing # g
    BY <1>1, <2>1 DEF LifeInv, ConnInv
  <2>4. ~Held(g)
    BY <2>1 DEF Held, Storing
  <2> QED
    BY <2>2, <2>3, <2>4
<1>4. Held(g)' /\ \A h \in Conns : h # g => (Held(h)' <=> Held(h))
  BY <1>1 DEF Held
<1>5. PhaseOf(g) = "none" /\ PhaseOf(g)' = "dialed"
  BY <1>0, <1>1, <1>3, <1>4 DEF PhaseOf
<1>6. \A h \in Conns : h # g => PhaseOf(h)' = PhaseOf(h)
  <2>1. \A h \in Conns : h # g => (h > dialed' <=> h > dialed)
    BY <1>0, <1>1 DEF Conns
  <2> QED
    BY <1>1, <1>4, <2>1 DEF PhaseOf
<1>7. Life!Dial(g)
  BY <1>1, <1>5, <1>6 DEF Life!Dial
<1> QED
  BY <1>1, <1>2, <1>7 DEF Life!Next

\* c.conn = conn.  The first of two stores of an interface is a stuttering step.
LEMMA SetConnIsStore ==
  ASSUME LifeInv, NEW p \in Procs, SetConn(p)
  PROVE  ClosingInv' /\ [Life!Next]_(Life!vars)
<1> USE LifeFacts
<1>1. /\ pc[p] \in Storing
      /\ \/ conn = Nil /\ conn' = Torn /\ pc' = [pc EXCEPT ![p] = "setConn2"]
         \/ conn' = lconn[p] /\ pc' = [pc EXCEPT ![p] = "setChan"]
      /\ UNCHANGED <<sock, closing, discon, lconn, dialed>>
  BY DEF SetConn, Goto, At, Storing, histVars, localVars, countVars
<1>2. ClosingInv'
  <2>1. \A q \in Procs : pc[q] \in Closing => pc'[q] \in Closing
    BY <1>1 DEF Closing, Storing
  <2> QED
    BY <1>1, <2>1 DEF LifeInv, ClosingInv
<1>3. CASE conn = Nil /\ conn' = Torn /\ pc' = [pc EXCEPT ![p] = "setConn2"]
  <2>1. \A g \in Conns : Held(g)' <=> Held(g)
    BY <1>1, <1>3 DEF Held, Storing
  <2>2. \A g \in Conns : PhaseOf(g)' = PhaseOf(g)
    BY <1>1, <1>3, <2>1 DEF PhaseOf
  <2>3. UNCHANGED Life!vars
    BY <1>1, <2>2 DEF Life!vars
  <2> QED
    BY <1>2, <2>3
<1>4. CASE conn' = lconn[p] /\ pc' = [pc EXCEPT ![p] = "setChan"]
  <2>0. PICK g \in Conns : g = lconn[p]
    BY <1>1
  <2>1. discon[g] = 0 /\ conn # g /\ closing # g /\ Held(g)
    BY <1>1, <2>0 DEF LifeInv, ConnInv, Storing, Held
  <2>2. \A h \in Conns : h # g => (Held(h)' <=> Held(h))
    BY <1>1, <1>4, <2>0 DEF Held
  <2>3. PhaseOf(g) = "dialed" /\ PhaseOf(g)' = "up"
    BY <1>1, <1>4, <2>0, <2>1 DEF PhaseOf
  <2>4. \A h \in Conns : conn = h => ~Held(h) /\ h <= dialed
    BY DEF LifeInv, ConnInv, Held
  <2>5. ASSUME NEW h \in Conns, h # g
        PROVE  PhaseOf(h)' = IF PhaseOf(h) = "up" THEN "lost" ELSE PhaseOf(h)
    <3>1. /\ conn' # h /\ (Held(h)' <=> Held(h))
          /\ discon'[h] = discon[h] /\ closing' = closing /\ dialed' = dialed
      BY <1>1, <1>4, <2>0, <2>2, <2>5
    <3>2. CASE discon[h] > 0 \/ closing = h
      BY <3>1, <3>2 DEF PhaseOf
    <3>3. CASE ~(discon[h] > 0 \/ closing = h) /\ conn = h
      <4>1. ~(h > dialed)
        BY <2>4, <3>3 DEF Conns
      <4> QED
        BY <2>4, <3>1, <3>3, <4>1 DEF PhaseOf
    <3>4. CASE ~(discon[h] > 0 \/ closing = h) /\ conn # h
      BY <3>1, <3>4 DEF PhaseOf
    <3> QED
      BY <3>2, <3>3, <3>4
  <2>6. Life!Store(g)
    BY <1>1, <2>3, <2>5 DEF Life!Store
  <2> QED
    BY <1>2, <2>6 DEF Life!Next
<1> QED
  BY <1>1, <1>3, <1>4

\* c.conn.Close() with a connection.  A half-stored one panics and closes nothing.
LEMMA CloseIsClose ==
  ASSUME LifeInv, NEW p \in Procs, CloseConn(p)
  PROVE  ClosingInv' /\ [Life!Next]_(Life!vars)
<1> USE LifeFacts
<1>1. pc[p] = "close"
  BY DEF CloseConn, At
<1>2. \A q \in Procs : pc[q] \notin Closing
  BY <1>1 DEF HeldLabels, Closing
<1>3. closing = Nil
  BY <1>2 DEF LifeInv, ClosingInv
<1>4. CASE conn \notin Conns
  <2>1. Apart
    BY <1>4 DEF CloseConn, Apart, histVars, localVars, countVars
  <2> QED
    BY <2>1, ApartStutters
<1>5. CASE conn \in Conns
  <2>0. PICK g \in Conns : g = conn
    BY <1>5
  <2>1. /\ sock' = [sock EXCEPT ![g] = "closed"] /\ closing' = g
        /\ pc' = [pc EXCEPT ![p] = "setNil"] /\ UNCHANGED <<conn, discon, lconn, dialed>>
    BY <1>5, <2>0 DEF CloseConn, CloseTransport, Goto, localVars, countVars
  <2>2. ClosingInv'
    BY <2>1 DEF ClosingInv, Closing
  <2>3. \A h \in Conns : Held(h)' <=> Held(h)
    BY <1>1, <2>1 DEF Held
  <2>4. discon[g] = 0
    BY <2>0 DEF LifeInv, ConnInv
  <2>5. PhaseOf(g) = "up" /\ PhaseOf(g)' = "closing"
    BY <1>3, <2>0, <2>1, <2>4 DEF PhaseOf
  <2>6. \A h \in Conns : h # g => PhaseOf(h)' = PhaseOf(h)
    BY <1>3, <2>1, <2>3 DEF PhaseOf
  <2>7. Life!In("closing") = {}
    BY <1>3 DEF Life!In, PhaseOf
  <2>8. Life!Close(g)
    BY <2>1, <2>5, <2>6, <2>7 DEF Life!Close
  <2> QED
    BY <2>2, <2>8 DEF Life!Next
<1> QED
  BY <1>4, <1>5

\* c.conn = nil in Disconnect: the connection that a Connect has stored since the Close is
\* forgotten.
LEMMA SetNilForgets ==
  ASSUME LifeInv, NEW p \in Procs, SetNil(p)
  PROVE  ClosingInv' /\ [Life!Next]_(Life!vars)
<1> USE LifeFacts
<1>1. /\ pc[p] = "setNil" /\ pc' = [pc EXCEPT ![p] = "closeChan"] /\ conn' = Nil
      /\ UNCHANGED <<sock, closing, discon, lconn, dialed>>
  BY DEF SetNil, ClearConn, Goto, At, histVars, localVars, countVars
<1>2. ClosingInv'
  BY <1>1 DEF ClosingInv, Closing
<1>3. \A h \in Conns : Held(h)' <=> Held(h)
  BY <1>1 DEF Held
<1>4. closing \in Conns /\ discon[closing] = 0
  BY <1>1 DEF LifeInv, ConnInv
<1>5. \A h \in Conns : h # conn \/ h = closing => PhaseOf(h)' = PhaseOf(h)
  BY <1>1, <1>3 DEF PhaseOf
<1>6. CASE conn \in Conns /\ conn # closing
  <2>0. PICK g \in Conns : g = conn
    BY <1>6
  <2>1. discon[g] = 0 /\ ~Held(g) /\ ~(g > dialed)
    <3>1. discon[g] = 0 /\ ~Held(g) /\ g <= dialed
      BY <2>0 DEF LifeInv, ConnInv, Held
    <3> QED
      BY <3>1 DEF Conns
  <2>2. PhaseOf(g) = "up" /\ PhaseOf(g)' = "lost"
    BY <1>1, <1>3, <1>6, <2>0, <2>1 DEF PhaseOf
  <2>3. Life!In("closing") # {}
    <3>1. PhaseOf(closing) = "closing"
      BY <1>4 DEF PhaseOf
    <3>2. closing \in Life!In("closing")
      BY <1>4, <3>1 DEF Life!In
    <3> QED
      BY <3>2
  <2>4. Life!Forget(g)
    BY <1>1, <1>5, <2>0, <2>2, <2>3 DEF Life!Forget
  <2> QED
    BY <1>2, <2>4 DEF Life!Next
<1>7. CASE ~(conn \in Conns /\ conn # closing)
  <2>1. \A h \in Conns : PhaseOf(h)' = PhaseOf(h)
    BY <1>5, <1>7
  <2>2. UNCHANGED Life!vars
    BY <1>1, <2>1 DEF Life!vars
  <2> QED
    BY <1>2, <2>2
<1> QED
  BY <1>6, <1>7

\* c.Emit(&DisconnectedEvent{}).
LEMMA EmitAnnounces ==
  ASSUME LifeInv, NEW p \in Procs, EmitDisconnected(p)
  PROVE  ClosingInv' /\ Life!Next
<1> USE LifeFacts
<1>0. PICK g : g = closing
  OBVIOUS
<1>1. /\ pc[p] = "emitDisc" /\ pc' = [pc EXCEPT ![p] = ret[p]] /\ closing' = Nil
      /\ discon' = [discon EXCEPT ![g] = discon[g] + 1]
      /\ \A q \in Procs \ {p} : lconn'[q] = lconn[q]
      /\ UNCHANGED <<sock, conn, dialed>>
  BY <1>0 DEF EmitDisconnected, Return, Goto, At, countVars
<1>2. g \in Conns /\ discon[g] = 0
  BY <1>0, <1>1 DEF LifeInv, ConnInv
<1>3. ClosingInv'
  BY <1>1 DEF ClosingInv
<1>4. \A h \in Conns : Held(h)' <=> Held(h)
  <2>1. ret[p] \notin Storing
    BY DEF ReturnLabels, Storing
  <2>2. \A q \in Procs : pc'[q] \in Storing <=> pc[q] \in Storing
    BY <1>1, <2>1 DEF Storing
  <2>3. \A q \in Procs : pc[q] \in Storing => lconn'[q] = lconn[q]
    BY <1>1 DEF Storing
  <2> QED
    BY <2>2, <2>3 DEF Held, Storing
<1>5. discon' = [discon EXCEPT ![g] = 1]
  BY <1>1, <1>2
<1>6. PhaseOf(g) = "closing" /\ PhaseOf(g)' = "down"
  BY <1>0, <1>2, <1>5 DEF PhaseOf
<1>7. \A h \in Conns : h # g => PhaseOf(h)' = PhaseOf(h)
  BY <1>0, <1>1, <1>4, <1>5 DEF PhaseOf
<1>8. Life!Announce(g)
  <2>1. \A h \in Conns : PhaseOf(h)' = IF h = g THEN "down" ELSE PhaseOf(h)
    BY <1>6, <1>7
  <2>2. [h \in Conns |-> PhaseOf(h)]'
          = [[h \in Conns |-> PhaseOf(h)] EXCEPT ![g] = "down"]
    BY <1>2, <2>1
  <2>3. {h \in Conns : sock[h] = "open"}' = {h \in Conns : sock[h] = "open"}
    BY <1>1
  <2> QED
    BY <1>2, <1>5, <1>6, <2>2, <2>3 DEF Life!Announce
<1> QED
  BY <1>2, <1>3, <1>8 DEF Life!Next

-----------------------------------------------------------------------------
(* The theorem *)

\* A client that was just made has no connection.
LEMMA LifeInit == Init => LifeInv /\ Life!Init
<1> SUFFICES ASSUME Init PROVE LifeInv /\ Life!Init
  OBVIOUS
<1>1. TypeInv /\ SpawnInv /\ LockInv
  BY InitType, InitLock
<1>2. ConnInv
  BY BoundsAssumption DEF BoundsAssumption, Init, ConnInv, Conns, Nil
<1>3. ClosingInv
  BY DEF Init, ClosingInv
<1>4. \A g \in Conns : PhaseOf(g) = "none"
  BY AppsAssumption DEF AppsAssumption, Init, PhaseOf, Held, Conns, Nil
<1>5. Life!Init
  BY <1>4 DEF Life!Init, Init
<1> QED
  BY <1>1, <1>2, <1>3, <1>5 DEF LifeInv

\* Every step of the client is a step of ConnLife or a stuttering step.
LEMMA LifeNext ==
  ASSUME LifeInv, [Next]_vars
  PROVE  LifeInv' /\ [Life!Next]_(Life!vars)
<1>1. TypeInv' /\ SpawnInv' /\ LockInv' /\ ConnInv'
  BY TypeStep, SpawnStep, LockStep, ConnStep DEF LifeInv
<1>2. CASE Apart
  BY <1>1, <1>2, ApartStutters DEF LifeInv
<1>3. CASE \E p \in Procs : LifeStep(p)
  BY <1>1, <1>3, DialIsDial, SetConnIsStore, CloseIsClose, SetNilForgets, EmitAnnounces
     DEF LifeInv, LifeStep
<1> QED
  BY <1>2, <1>3, OtherStep DEF LifeInv

\* Client implements ConnLife: a connection is dialed, stored, closed and announced, once each
\* and in this order, and it never comes back.
THEOREM ClientRefinesLife == Spec => ImplementsConnLife
<1>1. Init => LifeInv /\ Life!Init
  BY LifeInit
<1>2. LifeInv /\ [Next]_vars => LifeInv' /\ [Life!Next]_(Life!vars)
  BY LifeNext
<1> QED
  BY <1>1, <1>2, PTL DEF Spec, ImplementsConnLife, Life!Spec
=============================================================================
