------------------------- MODULE AuthenticationProofs -------------------------
(***************************************************************************)
(* What holds of the credential login for every number of goroutines,      *)
(* logins, polls, responses and connections.                               *)
(***************************************************************************)
EXTENDS Authentication, TLAPS

-----------------------------------------------------------------------------
(* Types *)

\* A call in progress has a job, and a packet that was found a channel names one.
JobInv ==
  /\ \A c \in Callers : pc[c] \in InCall \cup {"decide"} => job[c] \in 1..currentJobId
  /\ \A c \in Callers : pc[c] # "idle" => login[c] \in 1..MaxLogOns
  /\ \A g \in Conns : reader[g] # None => reader[g].job \in 1..currentJobId

TypeInv == TypeOK /\ JobInv

\* A channel of capacity 1, empty and full.
LEMMA ChannelType ==
  ASSUME NEW S, NEW e \in S
  PROVE  /\ <<>> \in Seq(S) /\ Len(<<>>) <= 1
         /\ <<e>> \in Seq(S) /\ Len(<<e>>) <= 1
  OBVIOUS

\* Receiving from a channel that is not empty.
LEMMA TakeType ==
  ASSUME NEW S, NEW s \in Seq(S), s # <<>>, Len(s) <= 1
  PROVE  Head(s) \in S /\ Tail(s) \in Seq(S) /\ Len(Tail(s)) <= 1 /\ Tail(s) = <<>>
  OBVIOUS

\* A message is put into writeChan while it has room.
LEMMA EnqueueType ==
  ASSUME NEW m \in Requests \cup {ClientHello}, Enqueue(m), QueueAssumption,
         queue \in Seq(Requests \cup {ClientHello})
  PROVE  queue' \in Seq(Requests \cup {ClientHello}) /\ Len(queue') <= WriteCap
<1>1. queue' = Append(queue, m) /\ Len(queue) < WriteCap /\ WriteCap \in Nat
  BY DEF Enqueue, QueueAssumption
<1>2. queue' \in Seq(Requests \cup {ClientHello}) /\ Len(queue') = Len(queue) + 1
  BY <1>1
<1> QED
  BY <1>1, <1>2

\* The first message is taken out of writeChan.
LEMMA DequeueType ==
  ASSUME NEW S, NEW s \in Seq(S), s # <<>>, NEW n \in Nat, Len(s) <= n
  PROVE  Head(s) \in S /\ Tail(s) \in Seq(S) /\ Len(Tail(s)) <= n
  OBVIOUS

\* A fresh writeChan is empty.
LEMMA NoMessages ==
  ASSUME QueueAssumption
  PROVE  <<>> \in Seq(Requests \cup {ClientHello}) /\ Len(<<>>) <= WriteCap
  BY DEF QueueAssumption

\* Before the first login nothing is registered.
LEMMA InitType == Init => TypeInv
<1> SUFFICES ASSUME Init PROVE TypeInv
  OBVIOUS
<1> USE PollsAssumption, QueueAssumption, LimitsAssumption
        DEF PollsAssumption, QueueAssumption, LimitsAssumption, Init
<1>1. /\ pc \in [Callers -> Labels] /\ stage \in [Callers -> Stages]
      /\ attempt \in [Callers -> 0..MaxPolls - 1]
  BY DEF Labels, Stages
<1>2. /\ job \in [Callers -> Nat] /\ session \in [Callers -> Nat]
      /\ result \in [Callers -> Nat] /\ login \in [Callers -> 0..MaxLogOns]
      /\ got \in [Callers -> Responses \cup {None}]
      /\ reader \in [Conns -> Responses \cup {None}]
  BY DEF NoJob
<1>3. /\ currentJobId \in Nat /\ pending \subseteq 1..currentJobId
      /\ box \in [1..currentJobId -> Seq(Responses)]
      /\ \A j \in 1..currentJobId : Len(box[j]) <= 1
      /\ owner \in [1..currentJobId -> 1..MaxLogOns]
  OBVIOUS
<1>4. /\ connected \in BOOLEAN /\ leaving \in BOOLEAN
      /\ queue \in Seq(Requests \cup {ClientHello}) /\ Len(queue) <= WriteCap
      /\ sent \subseteq Requests /\ guarded \subseteq Nat
  BY NoMessages
<1>5. logons \in 0..MaxLogOns /\ answers \in 0..MaxAnswers /\ conns \in 0..MaxConns
  OBVIOUS
<1>6. TypeOK
  BY <1>1, <1>2, <1>3, <1>4, <1>5, Zenon DEF TypeOK
<1>7. JobInv
  BY DEF JobInv, InCall
<1> QED
  BY <1>6, <1>7 DEF TypeInv

\* An answer of the server is a response to the request's job.
LEMMA AnswerType ==
  ASSUME NEW r \in Requests, NEW p \in Answers(r)
  PROVE  /\ p \in Responses /\ p.job = r.job /\ p.stage = r.stage
         /\ p.kind \in Kinds(r.stage)
         /\ p.stage = "BeginAuthSessionViaCredentials" => p.session = r.job
         /\ p.stage = "PollAuthSessionStatus" => p.session = r.session
<1>1. PICK k \in Kinds(r.stage) :
        p = [job |-> r.job, stage |-> r.stage, kind |-> k,
             session |-> IF r.stage = "BeginAuthSessionViaCredentials" THEN r.job
                         ELSE r.session]
  BY DEF Answers
<1>2. k \in AllKinds /\ r.stage \in Stages /\ r.job \in Nat /\ r.session \in Nat
  BY DEF Kinds, AllKinds, Requests, Stages
<1> QED
  BY <1>1, <1>2 DEF Responses

\* The placeholder for "no packet" belongs to no session.
LEMMA NoneHasNoSession == None.session = NoJob
  BY DEF None

\* Nor is it of any kind.
LEMMA NoneHasNoKind == None.kind = ""
  BY DEF None

\* No response is the placeholder for "no packet".
LEMMA NoneIsNoResponse == None \notin Responses
  BY DEF None, Responses, Stages

\* The types and the facts about jobs are inductive.
LEMMA TypeStep ==
  ASSUME TypeInv, [Next]_vars
  PROVE  TypeInv'
<1> USE PollsAssumption, QueueAssumption, LimitsAssumption
        DEF PollsAssumption, QueueAssumption, LimitsAssumption, callVars, mapVars, linkVars
<1>1. CASE UNCHANGED vars
  BY <1>1 DEF vars, TypeInv, TypeOK, JobInv
<1>2. ASSUME NEW c \in Callers, LogOnWithCredentials(c)
      PROVE  TypeInv'
  <2>1. logons' \in 1..MaxLogOns /\ 0 \in 0..MaxPolls - 1
    BY <1>2 DEF LogOnWithCredentials, TypeInv, TypeOK
  <2>2. /\ login' \in [Callers -> 0..MaxLogOns] /\ login'[c] \in 1..MaxLogOns
        /\ attempt' \in [Callers -> 0..MaxPolls - 1]
    BY <1>2, <2>1 DEF LogOnWithCredentials, TypeInv, TypeOK
  <2>3. /\ pc' \in [Callers -> Labels] /\ stage' \in [Callers -> Stages]
        /\ session' \in [Callers -> Nat] /\ result' \in [Callers -> Nat]
    BY <1>2 DEF LogOnWithCredentials, Goto, TypeInv, TypeOK, Labels, Stages, NoJob
  <2>4. TypeOK'
    BY <1>2, <2>1, <2>2, <2>3 DEF LogOnWithCredentials, TypeInv, TypeOK
  <2>5. JobInv'
    BY <1>2, <2>2 DEF LogOnWithCredentials, Goto, TypeInv, TypeOK, JobInv, InCall
  <2> QED
    BY <2>4, <2>5 DEF TypeInv
<1>3. ASSUME NEW c \in Callers, Hello(c)
      PROVE  TypeInv'
  <2>1. queue' \in Seq(Requests \cup {ClientHello}) /\ Len(queue') <= WriteCap
    BY <1>3, EnqueueType DEF Hello, TypeInv, TypeOK
  <2>2. TypeOK'
    BY <1>3, <2>1 DEF Hello, Enqueue, Goto, TypeInv, TypeOK, Labels
  <2>3. JobInv'
    BY <1>3 DEF Hello, Enqueue, Goto, TypeInv, TypeOK, JobInv, InCall
  <2> QED
    BY <2>2, <2>3 DEF TypeInv
<1>4. ASSUME NEW c \in Callers, Register(c)
      PROVE  TypeInv'
  <2>1. /\ currentJobId' = currentJobId + 1 /\ currentJobId \in Nat
        /\ job' = [job EXCEPT ![c] = currentJobId + 1]
        /\ login[c] \in 1..MaxLogOns
    BY <1>4 DEF Register, GetNextJobId, TypeInv, TypeOK, JobInv
  <2>2. /\ box' \in [1..currentJobId' -> Seq(Responses)]
        /\ \A j \in 1..currentJobId' : Len(box'[j]) <= 1
    <3>1. box' = [i \in 1..currentJobId' |-> IF i = currentJobId' THEN <<>> ELSE box[i]]
      BY <1>4 DEF Register
    <3>2. \A i \in 1..currentJobId' : i # currentJobId' => i \in 1..currentJobId
      BY <2>1
    <3>3. \A i \in 1..currentJobId : box[i] \in Seq(Responses) /\ Len(box[i]) <= 1
      BY DEF TypeInv, TypeOK
    <3> QED
      BY <3>1, <3>2, <3>3
  <2>3. owner' \in [1..currentJobId' -> 1..MaxLogOns]
    <3>1. owner' = [i \in 1..currentJobId' |->
                     IF i = currentJobId' THEN login[c] ELSE owner[i]]
      BY <1>4 DEF Register
    <3>2. \A i \in 1..currentJobId' : i # currentJobId' => i \in 1..currentJobId
      BY <2>1
    <3> QED
      BY <2>1, <3>1, <3>2 DEF TypeInv, TypeOK
  <2>4. pending' \subseteq 1..currentJobId'
    BY <1>4, <2>1 DEF Register, TypeInv, TypeOK
  <2>5. /\ pc' \in [Callers -> Labels] /\ job' \in [Callers -> Nat]
        /\ currentJobId' \in Nat
    BY <1>4, <2>1 DEF Register, Goto, TypeInv, TypeOK, Labels
  <2>6. TypeOK'
    BY <1>4, <2>2, <2>3, <2>4, <2>5 DEF Register, TypeInv, TypeOK
  <2>7. JobInv'
    <3>1. /\ pc' = [pc EXCEPT ![c] = "send"] /\ pc[c] = "register"
          /\ UNCHANGED <<login, reader>>
      BY <1>4 DEF Register, Goto
    <3>2. 1..currentJobId \subseteq 1..currentJobId' /\ job'[c] \in 1..currentJobId'
          /\ \A d \in Callers \ {c} : pc'[d] = pc[d] /\ job'[d] = job[d]
      BY <2>1, <3>1 DEF TypeInv, TypeOK
    <3>3. pc[c] # "idle"
      BY <3>1
    <3>4. \A d \in Callers : pc'[d] \in InCall \cup {"decide"} => job'[d] \in 1..currentJobId'
      BY <3>2 DEF TypeInv, JobInv
    <3>5. \A d \in Callers : pc'[d] # "idle" => login[d] \in 1..MaxLogOns
      BY <3>2, <3>3 DEF TypeInv, JobInv
    <3>6. \A g \in Conns : reader[g] # None => reader[g].job \in 1..currentJobId'
      BY <3>2 DEF TypeInv, JobInv
    <3> QED
      BY <3>1, <3>4, <3>5, <3>6, Zenon DEF JobInv
  <2> QED
    BY <2>6, <2>7 DEF TypeInv
<1>5. ASSUME NEW c \in Callers, Send(c)
      PROVE  TypeInv'
  <2>1. [job |-> job[c], stage |-> stage[c], session |-> session[c]] \in Requests
    BY DEF TypeInv, TypeOK, Requests
  <2>2. queue' \in Seq(Requests \cup {ClientHello}) /\ Len(queue') <= WriteCap
    BY <1>5, <2>1, EnqueueType DEF Send, TypeInv, TypeOK
  <2>3. TypeOK'
    BY <1>5, <2>2 DEF Send, Enqueue, Goto, TypeInv, TypeOK, Labels
  <2>4. JobInv'
    BY <1>5 DEF Send, Enqueue, Goto, TypeInv, TypeOK, JobInv, InCall
  <2> QED
    BY <2>3, <2>4 DEF TypeInv
<1>6. ASSUME NEW c \in Callers, Receive(c)
      PROVE  TypeInv'
  <2>1. job[c] \in 1..currentJobId
    BY <1>6 DEF Receive, TypeInv, JobInv, InCall
  <2>2. /\ Head(box[job[c]]) \in Responses /\ Tail(box[job[c]]) \in Seq(Responses)
        /\ Len(Tail(box[job[c]])) <= 1
    BY <1>6, <2>1, TakeType DEF Receive, TypeInv, TypeOK
  <2>3. /\ box' \in [1..currentJobId -> Seq(Responses)]
        /\ \A j \in 1..currentJobId : Len(box'[j]) <= 1
    BY <1>6, <2>1, <2>2 DEF Receive, TypeInv, TypeOK
  <2>4. got' \in [Callers -> Responses \cup {None}] /\ got'[c].session \in Nat
    BY <1>6, <2>2 DEF Receive, TypeInv, TypeOK, Responses
  <2>5. guarded' \subseteq Nat
    BY <1>6, <2>4 DEF Receive, TypeInv, TypeOK
  <2>6. TypeOK'
    BY <1>6, <2>3, <2>4, <2>5 DEF Receive, Goto, TypeInv, TypeOK, Labels
  <2>7. JobInv'
    BY <1>6 DEF Receive, Goto, TypeInv, TypeOK, JobInv, InCall
  <2> QED
    BY <2>6, <2>7 DEF TypeInv
<1>7. ASSUME NEW c \in Callers, Timeout(c)
      PROVE  TypeInv'
  BY <1>7 DEF Timeout, Goto, TypeInv, TypeOK, JobInv, InCall, Labels
<1>8. ASSUME NEW c \in Callers, Leave(c)
      PROVE  TypeInv'
  BY <1>8 DEF Leave, Goto, TypeInv, TypeOK, JobInv, InCall, Labels
<1>9. ASSUME NEW c \in Callers, Decide(c)
      PROVE  TypeInv'
  <2>1. got[c] \in Responses \/ got[c] = None
    BY DEF TypeInv, TypeOK
  <2>2. got[c].session \in Nat
    <3>1. CASE got[c] \in Responses
      BY <3>1 DEF Responses
    <3>2. CASE got[c] = None
      BY <3>2, NoneHasNoSession DEF NoJob
    <3> QED
      BY <2>1, <3>1, <3>2
  <2>3. /\ stage' \in [Callers -> Stages] /\ session' \in [Callers -> Nat]
        /\ result' \in [Callers -> Nat] /\ pc' \in [Callers -> Labels]
    BY <1>9, <2>2 DEF Decide, Goto, TypeInv, TypeOK, Stages, Labels
  <2>4. TypeOK'
    BY <1>9, <2>3 DEF Decide, TypeInv, TypeOK, NoJob
  <2>5. JobInv'
    BY <1>9 DEF Decide, Goto, TypeInv, TypeOK, JobInv, InCall
  <2> QED
    BY <2>4, <2>5 DEF TypeInv
<1>10. ASSUME NEW c \in Callers, Wake(c)
      PROVE  TypeInv'
  <2>1. attempt' \in [Callers -> 0..MaxPolls - 1]
    <3>1. attempt \in [Callers -> 0..MaxPolls - 1] /\ attempt[c] \in 0..MaxPolls - 1
      BY DEF TypeInv, TypeOK
    <3>2. CASE attempt[c] + 1 < MaxPolls
      <4>1. attempt[c] + 1 \in 0..MaxPolls - 1
        BY <3>1, <3>2
      <4> QED
        BY <1>10, <3>1, <3>2, <4>1 DEF Wake
    <3>3. CASE attempt[c] + 1 = MaxPolls
      BY <1>10, <3>1, <3>3 DEF Wake
    <3> QED
      BY <1>10, <3>2, <3>3 DEF Wake
  <2>2. TypeOK'
    BY <1>10, <2>1 DEF Wake, Goto, TypeInv, TypeOK, Labels
  <2>3. JobInv'
    BY <1>10 DEF Wake, Goto, TypeInv, TypeOK, JobInv, InCall
  <2> QED
    BY <2>2, <2>3 DEF TypeInv
<1>11. ASSUME NEW g \in Conns, HandlePacket(g)
      PROVE  TypeInv'
  <2>0. PICK r \in sent : \E p \in Answers(r) :
          reader' = [reader EXCEPT ![g] = IF p.job \in pending THEN p ELSE None]
    BY <1>11 DEF HandlePacket
  <2>1. PICK p \in Answers(r) :
          reader' = [reader EXCEPT ![g] = IF p.job \in pending THEN p ELSE None]
    BY <2>0
  <2>2. p \in Responses
    BY <2>1, AnswerType DEF TypeInv, TypeOK
  <2>3. /\ reader' \in [Conns -> Responses \cup {None}]
        /\ answers' \in 0..MaxAnswers
    BY <1>11, <2>1, <2>2 DEF HandlePacket, TypeInv, TypeOK
  <2>4. TypeOK'
    BY <1>11, <2>3 DEF HandlePacket, TypeInv, TypeOK
  <2>5. JobInv'
    BY <1>11, <2>1 DEF HandlePacket, TypeInv, TypeOK, JobInv
  <2> QED
    BY <2>4, <2>5 DEF TypeInv
<1>12. ASSUME NEW g \in Conns, Deliver(g)
      PROVE  TypeInv'
  <2>1. reader[g] \in Responses /\ reader[g].job \in 1..currentJobId
    BY <1>12 DEF Deliver, TypeInv, TypeOK, JobInv
  <2>2. /\ box' \in [1..currentJobId -> Seq(Responses)]
        /\ \A j \in 1..currentJobId : Len(box'[j]) <= 1
    BY <1>12, <2>1, ChannelType DEF Deliver, TypeInv, TypeOK
  <2>3. TypeOK'
    BY <1>12, <2>2 DEF Deliver, TypeInv, TypeOK
  <2>4. JobInv'
    BY <1>12 DEF Deliver, TypeInv, TypeOK, JobInv
  <2> QED
    BY <2>3, <2>4 DEF TypeInv
<1>13. CASE Lose
  BY <1>13, NoMessages DEF Lose, TypeInv, TypeOK, JobInv
<1>14. CASE Connect
  <2>1. /\ conns' \in 0..MaxConns /\ connected' \in BOOLEAN
        /\ UNCHANGED <<pc, callVars, mapVars, leaving, queue, sent, reader, logons, answers>>
    BY <1>14, LimitsAssumption DEF Connect, TypeInv, TypeOK
  <2>2. TypeOK'
    BY <2>1 DEF callVars, mapVars, TypeInv, TypeOK
  <2>3. JobInv'
    BY <2>1 DEF callVars, mapVars, TypeInv, JobInv
  <2> QED
    BY <2>2, <2>3 DEF TypeInv
<1>15. CASE Disconnect
  BY <1>15 DEF Disconnect, TypeInv, TypeOK, JobInv
<1>16. CASE Drain
  <2>1. /\ queue' \in Seq(Requests \cup {ClientHello}) /\ Len(queue') <= WriteCap
        /\ Head(queue) \in Requests \cup {ClientHello}
    BY <1>16, DequeueType DEF Drain, TypeInv, TypeOK
  <2>2. sent' \subseteq Requests
    BY <1>16, <2>1 DEF Drain, TypeInv, TypeOK
  <2> QED
    BY <1>16, <2>1, <2>2 DEF Drain, TypeInv, TypeOK, JobInv
<1>17. ASSUME NEW c \in Callers, RLock(c)
       PROVE  TypeInv'
  <2>1. /\ pc' \in [Callers -> Labels] /\ (pc[c] \notin InCall => pc'[c] \notin InCall)
        /\ \A d \in Callers \ {c} : pc'[d] = pc[d]
        /\ pc[c] # "idle" /\ pc'[c] # "decide"
    BY <1>17 DEF RLock, Goto, TypeInv, TypeOK, Labels, InCall
  <2>2. TypeOK'
    BY <1>17, <2>1 DEF RLock, TypeInv, TypeOK
  <2>3. JobInv'
    BY <1>17, <2>1 DEF RLock, TypeInv, JobInv
  <2> QED
    BY <2>2, <2>3 DEF TypeInv
<1> QED
  BY <1>1, <1>2, <1>3, <1>4, <1>5, <1>6, <1>7, <1>8, <1>9, <1>10, <1>11, <1>12, <1>13,
     <1>14, <1>15, <1>16, <1>17 DEF Next, Step, CallStep

\* Every variable keeps its type: a call never waits on a channel that was not made for
\* it, and no channel ever holds more than the one packet it has room for.
THEOREM TypeCorrect == Spec => []TypeOK
<1>1. Init => TypeInv
  BY InitType
<1>2. TypeInv /\ [Next]_vars => TypeInv'
  BY TypeStep
<1>3. TypeInv => TypeOK
  BY DEF TypeInv
<1> QED
  BY <1>1, <1>2, <1>3, PTL DEF Spec

-----------------------------------------------------------------------------
(* Routing *)

Begin   == "BeginAuthSessionViaCredentials"
PollOf  == "PollAuthSessionStatus"
\* Where job[c] is the job of the latest call.
Engaged == InCall \cup {"decide"}

\* Packet p answers the call that c is in, or has just left.
Fits(p, c) ==
  /\ p.job = job[c] /\ p.stage = stage[c] /\ p.kind \in Kinds(p.stage)
  /\ p.stage = Begin => p.session = job[c]
  /\ p.stage = PollOf => p.session = session[c]

\* Every job belongs to one call of one login.
OwnerInv ==
  /\ \A c \in Callers : pc[c] \in Engaged => owner[job[c]] = login[c]
  /\ \A c, d \in Callers :
       pc[c] \in Engaged /\ pc[d] \in Engaged /\ job[c] = job[d] => c = d

\* What the server has got, or will get of what is queued.
Asked == sent \cup ({queue[i] : i \in DOMAIN queue} \ {ClientHello})

\* What was asked for a call in progress is that call's request.
SentInv ==
  \A r \in Asked :
    /\ r.job \in 1..currentJobId
    /\ \A c \in Callers : pc[c] \in InCall /\ job[c] = r.job =>
         r.stage = stage[c] /\ r.session = session[c]

\* The packets on their way to a call answer it: with the read loop, in the channel, received.
PacketInv ==
  /\ \A g \in Conns, c \in Callers :
       reader[g] # None /\ pc[c] \in InCall /\ reader[g].job = job[c] => Fits(reader[g], c)
  /\ \A c \in Callers : pc[c] \in InCall =>
       \A i \in DOMAIN box[job[c]] : Fits(box[job[c]][i], c)
  /\ \A c \in Callers : pc[c] \in {"leave", "decide"} /\ got[c] # None => Fits(got[c], c)

\* A login polls, and takes its token from, a session it began itself.
SessionInv ==
  /\ \A c \in Callers : pc[c] # "idle" /\ stage[c] = PollOf =>
       session[c] \in 1..currentJobId /\ owner[session[c]] = login[c]
  /\ \A c \in Callers : result[c] # NoJob =>
       result[c] \in 1..currentJobId /\ owner[result[c]] = login[c]

RouteInv == OwnerInv /\ PendingIsCalls /\ SentInv /\ PacketInv /\ SessionInv

\* No poll, sent or to come, is of a session that needs Steam Guard.
PolledInv ==
  /\ guarded \subseteq 1..currentJobId
  /\ \A r \in Asked : r.stage = PollOf =>
       r.session \in 1..currentJobId /\ r.session \notin guarded
  /\ \A c \in Callers : pc[c] # "idle" /\ stage[c] = PollOf => session[c] \notin guarded

\* While a Begin call is under way nobody polls the session it begins, and this session
\* needs Steam Guard only if the call was told so.
BegunInv ==
  \A c \in Callers : pc[c] \in Engaged /\ stage[c] = Begin =>
    /\ job[c] \in guarded =>
         pc[c] \in {"leave", "decide"} /\ got[c] # None /\ got[c].kind = "guard"
    /\ \A r \in Asked : r.stage = PollOf => r.session # job[c]
    /\ \A d \in Callers : pc[d] # "idle" /\ stage[d] = PollOf => session[d] # job[c]

GuardInv == PolledInv /\ BegunInv

\* The types the following proofs need.
LEMMA SmallTypes ==
  ASSUME TypeInv
  PROVE  /\ pc \in [Callers -> Labels] /\ stage \in [Callers -> Stages]
         /\ job \in [Callers -> Nat] /\ session \in [Callers -> Nat]
         /\ got \in [Callers -> Responses \cup {None}] /\ result \in [Callers -> Nat]
         /\ login \in [Callers -> 0..MaxLogOns] /\ currentJobId \in Nat
         /\ box \in [1..currentJobId -> Seq(Responses)]
         /\ owner \in [1..currentJobId -> 1..MaxLogOns]
         /\ reader \in [Conns -> Responses \cup {None}]
         /\ sent \subseteq Asked /\ Asked \subseteq Requests
         /\ \A c \in Callers : pc[c] \in Engaged => job[c] \in 1..currentJobId
         /\ \A g \in Conns : reader[g] # None => reader[g].job \in 1..currentJobId
<1>1. Asked \subseteq Requests
  <2>1. \A i \in DOMAIN queue : queue[i] \in Requests \cup {ClientHello}
    BY DEF TypeInv, TypeOK
  <2> QED
    BY <2>1 DEF Asked, TypeInv, TypeOK
<1>2. sent \subseteq Asked
  BY DEF Asked
<1> QED
  BY <1>1, <1>2 DEF TypeInv, TypeOK, JobInv, Engaged

\* While neither the queue nor what the server has got changes, the same was asked.
LEMMA AskedKept ==
  ASSUME UNCHANGED <<queue, sent>>
  PROVE  Asked' = Asked
  BY DEF Asked

\* A message that is queued adds its request, a ClientHello none.
LEMMA AskedMore ==
  ASSUME TypeInv, NEW m, Enqueue(m)
  PROVE  Asked' \subseteq Asked \cup ({m} \ {ClientHello})
<1>1. queue' = Append(queue, m) /\ sent' = sent /\ queue \in Seq(Requests \cup {ClientHello})
  BY DEF Enqueue, TypeInv, TypeOK
<1>2. \A i \in DOMAIN queue' :
        (i \in DOMAIN queue /\ queue'[i] = queue[i]) \/ queue'[i] = m
  BY <1>1
<1> QED
  BY <1>1, <1>2 DEF Asked

\* A message that is written was asked before, and one that is lost is asked no more.
LEMMA AskedLess ==
  ASSUME TypeInv, Drain \/ Lose
  PROVE  Asked' \subseteq Asked
<1>1. CASE Drain
  <2>1. /\ queue \in Seq(Requests \cup {ClientHello}) /\ queue # <<>> /\ queue' = Tail(queue)
        /\ sent' \subseteq sent \cup ({Head(queue)} \ {ClientHello})
    BY <1>1 DEF Drain, TypeInv, TypeOK
  <2>2. 1 \in DOMAIN queue /\ Head(queue) = queue[1]
    BY <2>1
  <2>3. \A i \in DOMAIN queue' : i + 1 \in DOMAIN queue /\ queue'[i] = queue[i + 1]
    BY <2>1
  <2> QED
    BY <2>1, <2>2, <2>3 DEF Asked
<1>2. CASE Lose
  BY <1>2 DEF Lose, Asked
<1> QED
  BY <1>1, <1>2

\* RouteInv is inductive: one step per action, and under it one per part of the invariant.
LEMMA RouteStep ==
  ASSUME TypeInv, RouteInv, [Next]_vars
  PROVE  RouteInv'
<1> USE SmallTypes, AskedKept DEF callVars, mapVars, linkVars, InCall, Engaged
<1>1. CASE UNCHANGED vars
  BY <1>1 DEF vars, RouteInv, OwnerInv, PendingIsCalls, SentInv, PacketInv, SessionInv, Fits
<1>2. ASSUME NEW c \in Callers, LogOnWithCredentials(c)
      PROVE  RouteInv'
  <2>1. OwnerInv'
    BY <1>2 DEF LogOnWithCredentials, Goto, RouteInv, OwnerInv
  <2>2. PendingIsCalls'
    BY <1>2 DEF LogOnWithCredentials, Goto, RouteInv, PendingIsCalls
  <2>3. SentInv'
    BY <1>2 DEF LogOnWithCredentials, Goto, RouteInv, SentInv
  <2>4. PacketInv'
    BY <1>2 DEF LogOnWithCredentials, Goto, RouteInv, PacketInv, Fits, Begin, PollOf
  <2>5. SessionInv'
    BY <1>2 DEF LogOnWithCredentials, Goto, RouteInv, SessionInv, Begin, PollOf
  <2> QED
    BY <2>1, <2>2, <2>3, <2>4, <2>5 DEF RouteInv
<1>3. ASSUME NEW c \in Callers, Hello(c)
      PROVE  RouteInv'
  <2>1. OwnerInv'
    BY <1>3 DEF Hello, Enqueue, Goto, RouteInv, OwnerInv
  <2>2. PendingIsCalls'
    BY <1>3 DEF Hello, Enqueue, Goto, RouteInv, PendingIsCalls
  <2>3. SentInv'
    <3>1. Asked' \subseteq Asked
      BY <1>3, AskedMore DEF Hello
    <3> QED
      BY <1>3, <3>1 DEF Hello, Enqueue, Goto, RouteInv, SentInv
  <2>4. PacketInv'
    BY <1>3 DEF Hello, Enqueue, Goto, RouteInv, PacketInv, Fits, Begin, PollOf
  <2>5. SessionInv'
    BY <1>3 DEF Hello, Enqueue, Goto, RouteInv, SessionInv, Begin, PollOf
  <2> QED
    BY <2>1, <2>2, <2>3, <2>4, <2>5 DEF RouteInv
<1>4. ASSUME NEW c \in Callers, Register(c)
      PROVE  RouteInv'
  <2>1. OwnerInv'
    <3>1. /\ job' = [job EXCEPT ![c] = currentJobId + 1] /\ currentJobId' = currentJobId + 1
          /\ owner' = [i \in 1..(currentJobId + 1) |->
                         IF i = currentJobId + 1 THEN login[c] ELSE owner[i]]
          /\ pc' = [pc EXCEPT ![c] = "send"] /\ UNCHANGED login
      BY <1>4 DEF Register, GetNextJobId, Goto
    <3>2. /\ owner'[currentJobId + 1] = login[c]
          /\ \A j \in 1..currentJobId : owner'[j] = owner[j] /\ j # currentJobId + 1
      BY <3>1
    <3>3. \A d \in Callers \ {c} : pc'[d] = pc[d] /\ job'[d] = job[d]
      BY <3>1
    <3>4. job'[c] = currentJobId + 1
      BY <3>1
    <3>5. \A d \in Callers \ {c} : pc[d] \in Engaged => job[d] \in 1..currentJobId
      BY DEF TypeInv, JobInv, Engaged
    <3>6. currentJobId + 1 \notin 1..currentJobId /\ UNCHANGED login
      BY <3>1 DEF TypeInv, TypeOK
    <3>7. \A d \in Callers : pc'[d] \in Engaged => owner'[job'[d]] = login'[d]
      <4> TAKE d \in Callers
      <4> HAVE pc'[d] \in Engaged
      <4>1. CASE d = c
        BY <3>2, <3>4, <3>6, <4>1
      <4>2. CASE d # c
        BY <3>2, <3>3, <3>5, <3>6, <4>2 DEF RouteInv, OwnerInv
      <4> QED
        BY <4>1, <4>2
    <3>8. \A d, e \in Callers :
            pc'[d] \in Engaged /\ pc'[e] \in Engaged /\ job'[d] = job'[e] => d = e
      <4> TAKE d, e \in Callers
      <4> HAVE pc'[d] \in Engaged /\ pc'[e] \in Engaged /\ job'[d] = job'[e]
      <4>1. CASE d # c /\ e # c
        BY <3>3, <4>1 DEF RouteInv, OwnerInv
      <4>2. CASE d = c \/ e = c
        BY <3>3, <3>4, <3>5, <3>6, <4>2
      <4> QED
        BY <4>1, <4>2
    <3> QED
      BY <3>7, <3>8 DEF OwnerInv
  <2>2. PendingIsCalls'
    BY <1>4 DEF Register, GetNextJobId, Goto, RouteInv, PendingIsCalls
  <2>3. SentInv'
    BY <1>4 DEF Register, GetNextJobId, Goto, RouteInv, SentInv
  <2>4. PacketInv'
    <3>1. /\ job' = [job EXCEPT ![c] = currentJobId + 1]
          /\ box' = [i \in 1..(currentJobId + 1) |->
                       IF i = currentJobId + 1 THEN <<>> ELSE box[i]]
          /\ pc' = [pc EXCEPT ![c] = "send"]
          /\ UNCHANGED <<stage, session, got, reader>>
      BY <1>4 DEF Register, GetNextJobId, Goto
    <3>2. /\ pc'[c] = "send" /\ job'[c] = currentJobId + 1 /\ box'[job'[c]] = <<>>
          /\ \A j \in 1..currentJobId : j # currentJobId + 1 /\ box'[j] = box[j]
      BY <3>1
    <3>3. \A d \in Callers \ {c} : pc'[d] = pc[d] /\ job'[d] = job[d]
      BY <3>1
    <3>4. \A p : \A d \in Callers \ {c} : Fits(p, d) => Fits(p, d)'
      BY <3>1, <3>3 DEF Fits
    <3>5. ASSUME NEW g \in Conns, NEW d \in Callers, reader[g] # None, pc'[d] \in InCall,
                 reader[g].job = job'[d]
          PROVE  Fits(reader[g], d)'
      BY <3>1, <3>2, <3>3, <3>4, <3>5 DEF RouteInv, PacketInv
    <3>6. ASSUME NEW d \in Callers, pc'[d] \in InCall, NEW i \in DOMAIN box'[job'[d]]
          PROVE  Fits(box[job[d]][i], d)'
      <4>1. d # c
        BY <3>2, <3>6
      <4>2. pc[d] \in InCall /\ job'[d] = job[d] /\ box'[job[d]] = box[job[d]]
        BY <3>2, <3>3, <3>6, <4>1
      <4>3. Fits(box[job[d]][i], d)
        BY <3>6, <4>2 DEF RouteInv, PacketInv
      <4>4. PICK p : p = box[job[d]][i]
        OBVIOUS
      <4>5. Fits(p, d)'
        BY <3>4, <4>1, <4>3, <4>4
      <4>6. box'[job'[d]][i] = p
        BY <4>2, <4>4
      <4> QED
        BY <4>5, <4>6
    <3>7. ASSUME NEW d \in Callers, pc'[d] \in {"leave", "decide"}, got[d] # None
          PROVE  Fits(got[d], d)'
      <4>1. PICK p : p = got[d]
        OBVIOUS
      <4>2. d # c /\ pc[d] \in {"leave", "decide"} /\ got'[d] = p
        BY <3>1, <3>2, <3>3, <3>7, <4>1
      <4>3. Fits(p, d)
        BY <3>7, <4>1, <4>2 DEF RouteInv, PacketInv
      <4>4. Fits(p, d)'
        BY <3>4, <4>2, <4>3
      <4> QED
        BY <4>2, <4>4
    <3> QED
      BY <3>1, <3>5, <3>6, <3>7 DEF PacketInv
  <2>5. SessionInv'
    BY <1>4 DEF Register, GetNextJobId, Goto, RouteInv, SessionInv, Begin, PollOf
  <2> QED
    BY <2>1, <2>2, <2>3, <2>4, <2>5 DEF RouteInv
<1>5. ASSUME NEW c \in Callers, Send(c)
      PROVE  RouteInv'
  <2>1. OwnerInv'
    BY <1>5 DEF Send, Enqueue, Goto, RouteInv, OwnerInv
  <2>2. PendingIsCalls'
    BY <1>5 DEF Send, Enqueue, Goto, RouteInv, PendingIsCalls
  <2>3. SentInv'
    <3>1. \A r \in Asked' : r \in Asked \/
            r = [job |-> job[c], stage |-> stage[c], session |-> session[c]]
      BY <1>5, AskedMore DEF Send
    <3>2. /\ pc[c] = "sendLocked" /\ UNCHANGED <<job, stage, session, currentJobId>>
          /\ \A d \in Callers : pc'[d] \in InCall => pc[d] \in InCall
      BY <1>5 DEF Send, Enqueue, Goto
    <3>3. \A d \in Callers : pc[d] \in InCall /\ job[d] = job[c] => d = c
      BY <3>2 DEF RouteInv, OwnerInv
    <3> QED
      BY <3>1, <3>2, <3>3 DEF RouteInv, SentInv
  <2>4. PacketInv'
    BY <1>5 DEF Send, Enqueue, Goto, RouteInv, PacketInv, Fits, Begin, PollOf
  <2>5. SessionInv'
    BY <1>5 DEF Send, Enqueue, Goto, RouteInv, SessionInv, Begin, PollOf
  <2> QED
    BY <2>1, <2>2, <2>3, <2>4, <2>5 DEF RouteInv
<1>6. ASSUME NEW c \in Callers, Receive(c)
      PROVE  RouteInv'
  <2>1. OwnerInv'
    BY <1>6 DEF Receive, Goto, RouteInv, OwnerInv
  <2>2. PendingIsCalls'
    BY <1>6 DEF Receive, Goto, RouteInv, PendingIsCalls
  <2>3. SentInv'
    BY <1>6 DEF Receive, Goto, RouteInv, SentInv
  <2>4. PacketInv'
    <3>1. /\ pc[c] = "wait" /\ pc' = [pc EXCEPT ![c] = "leave"] /\ box[job[c]] # <<>>
          /\ box' = [box EXCEPT ![job[c]] = Tail(box[job[c]])]
          /\ got' = [got EXCEPT ![c] = Head(box[job[c]])]
          /\ UNCHANGED <<reader, job, stage, session>>
      BY <1>6 DEF Receive, Goto
    <3>2. /\ box[job[c]] \in Seq(Responses) /\ Head(box[job[c]]) = box[job[c]][1]
          /\ 1 \in DOMAIN box[job[c]] /\ Tail(box[job[c]]) = <<>>
      <4>1. box[job[c]] \in Seq(Responses) /\ Len(box[job[c]]) <= 1
        BY <3>1 DEF TypeInv, TypeOK
      <4> QED
        BY <3>1, <4>1, TakeType
    <3>3. \A p : \A d \in Callers : Fits(p, d) => Fits(p, d)'
      BY <3>1 DEF Fits
    <3>4. Fits(got'[c], c)
      BY <3>1, <3>2 DEF RouteInv, PacketInv
    <3>5. \A d \in Callers : pc[d] \in InCall => job[d] \in 1..currentJobId
      OBVIOUS
    <3>6. \A d \in Callers : pc'[d] \in InCall => pc[d] \in InCall
      BY <3>1
    <3>7. \A d \in Callers : pc[d] \in InCall =>
            \A i \in DOMAIN box'[job[d]] : Fits(box'[job[d]][i], d)
      BY <3>1, <3>2, <3>5 DEF RouteInv, PacketInv
    <3>8. \A d \in Callers \ {c} : pc'[d] = pc[d] /\ got'[d] = got[d]
      BY <3>1
    <3> QED
      BY <3>1, <3>3, <3>4, <3>6, <3>7, <3>8 DEF RouteInv, PacketInv
  <2>5. SessionInv'
    BY <1>6 DEF Receive, Goto, RouteInv, SessionInv, Begin, PollOf
  <2> QED
    BY <2>1, <2>2, <2>3, <2>4, <2>5 DEF RouteInv
<1>7. ASSUME NEW c \in Callers, Timeout(c)
      PROVE  RouteInv'
  <2>1. OwnerInv'
    BY <1>7 DEF Timeout, Goto, RouteInv, OwnerInv
  <2>2. PendingIsCalls'
    BY <1>7 DEF Timeout, Goto, RouteInv, PendingIsCalls
  <2>3. SentInv'
    BY <1>7 DEF Timeout, Goto, RouteInv, SentInv
  <2>4. PacketInv'
    BY <1>7 DEF Timeout, Goto, RouteInv, PacketInv, Fits, Begin, PollOf
  <2>5. SessionInv'
    BY <1>7 DEF Timeout, Goto, RouteInv, SessionInv, Begin, PollOf
  <2> QED
    BY <2>1, <2>2, <2>3, <2>4, <2>5 DEF RouteInv
<1>8. ASSUME NEW c \in Callers, Leave(c)
      PROVE  RouteInv'
  <2>1. OwnerInv'
    BY <1>8 DEF Leave, Goto, RouteInv, OwnerInv
  <2>2. PendingIsCalls'
    <3>1. /\ pc[c] = "leave" /\ pc' = [pc EXCEPT ![c] = "decide"] /\ UNCHANGED job
          /\ pending' = pending \ {job[c]}
      BY <1>8 DEF Leave, Goto
    <3>2. \A d \in Callers : pc'[d] \in InCall <=> pc[d] \in InCall /\ d # c
      BY <3>1
    <3>3. \A d \in Callers : pc[d] \in InCall /\ job[d] = job[c] => d = c
      BY <3>1 DEF RouteInv, OwnerInv
    <3> QED
      BY <3>1, <3>2, <3>3 DEF RouteInv, PendingIsCalls
  <2>3. SentInv'
    BY <1>8 DEF Leave, Goto, RouteInv, SentInv
  <2>4. PacketInv'
    BY <1>8 DEF Leave, Goto, RouteInv, PacketInv, Fits, Begin, PollOf
  <2>5. SessionInv'
    BY <1>8 DEF Leave, Goto, RouteInv, SessionInv, Begin, PollOf
  <2> QED
    BY <2>1, <2>2, <2>3, <2>4, <2>5 DEF RouteInv
<1>9. ASSUME NEW c \in Callers, Decide(c)
      PROVE  RouteInv'
  <2>1. OwnerInv'
    BY <1>9 DEF Decide, Fails, Goto, RouteInv, OwnerInv
  <2>2. PendingIsCalls'
    BY <1>9 DEF Decide, Fails, Goto, RouteInv, PendingIsCalls
  <2>3. SentInv'
    BY <1>9 DEF Decide, Fails, Goto, RouteInv, SentInv
  <2>4. PacketInv'
    <3>1. /\ pc'[c] \notin InCall \cup {"leave", "decide"}
          /\ \A d \in Callers \ {c} :
               /\ pc'[d] = pc[d] /\ job'[d] = job[d] /\ stage'[d] = stage[d]
               /\ session'[d] = session[d] /\ got'[d] = got[d]
          /\ UNCHANGED <<reader, box>>
      BY <1>9 DEF Decide, Goto
    <3>2. \A p : \A d \in Callers \ {c} : Fits(p, d) => Fits(p, d)'
      BY <3>1 DEF Fits
    <3> QED
      BY <3>1, <3>2 DEF RouteInv, PacketInv
  <2>5. SessionInv'
    <3>1. /\ pc[c] = "decide" /\ UNCHANGED <<owner, login, currentJobId>>
          /\ \A d \in Callers \ {c} :
               /\ pc'[d] = pc[d] /\ stage'[d] = stage[d] /\ session'[d] = session[d]
               /\ result'[d] = result[d]
      BY <1>9 DEF Decide, Goto
    <3>2. job[c] \in 1..currentJobId /\ owner[job[c]] = login[c]
      BY <3>1 DEF RouteInv, OwnerInv
    <3>3. got[c] # None => Fits(got[c], c)
      BY <3>1 DEF RouteInv, PacketInv
    <3>4. pc'[c] # "idle" /\ stage'[c] = PollOf =>
            session'[c] \in 1..currentJobId /\ owner[session'[c]] = login[c]
      <4>1. CASE stage[c] = Begin /\ ~Fails(got[c])
        BY <1>9, <3>2, <3>3, <4>1 DEF Decide, Fails, Fits, Begin, PollOf
      <4>2. CASE stage[c] = PollOf
        BY <1>9, <3>1, <4>2 DEF Decide, RouteInv, SessionInv, PollOf
      <4>3. CASE stage[c] # PollOf /\ (stage[c] # Begin \/ Fails(got[c]))
        BY <1>9, <4>3 DEF Decide, Goto, Begin, PollOf
      <4> QED
        BY <4>1, <4>2, <4>3
    <3>5. result'[c] # NoJob =>
            result'[c] \in 1..currentJobId /\ owner[result'[c]] = login[c]
      <4>1. CASE result'[c] = result[c]
        BY <4>1 DEF RouteInv, SessionInv
      <4>2. CASE stage[c] = PollOf /\ got[c].kind = "token" /\ result'[c] = got[c].session
        <5>1. got[c] # None
          BY <4>2, NoneHasNoKind
        <5>2. got[c].session = session[c]
          BY <3>3, <4>2, <5>1 DEF Fits
        <5> QED
          BY <3>1, <4>2, <5>2 DEF RouteInv, SessionInv
      <4> QED
        BY <1>9, <4>1, <4>2 DEF Decide, PollOf
    <3>6. currentJobId' = currentJobId /\ owner' = owner /\ login' = login
      BY <3>1
    <3>7. ASSUME NEW d \in Callers, pc'[d] # "idle", stage'[d] = PollOf
          PROVE  session'[d] \in 1..currentJobId /\ owner[session'[d]] = login[d]
      BY <3>1, <3>4, <3>7 DEF RouteInv, SessionInv
    <3>8. ASSUME NEW d \in Callers, result'[d] # NoJob
          PROVE  result'[d] \in 1..currentJobId /\ owner[result'[d]] = login[d]
      BY <3>1, <3>5, <3>8 DEF RouteInv, SessionInv
    <3> QED
      BY <3>6, <3>7, <3>8 DEF SessionInv, NoJob, PollOf
  <2> QED
    BY <2>1, <2>2, <2>3, <2>4, <2>5 DEF RouteInv
<1>10. ASSUME NEW c \in Callers, Wake(c)
      PROVE  RouteInv'
  <2>1. OwnerInv'
    <3>1. \A d \in Callers : pc'[d] \in Engaged => pc[d] \in Engaged
      BY <1>10 DEF Wake, Goto
    <3>2. UNCHANGED <<owner, job, login>>
      BY <1>10 DEF Wake
    <3> QED
      BY <3>1, <3>2 DEF RouteInv, OwnerInv
  <2>2. PendingIsCalls'
    BY <1>10 DEF Wake, Goto, RouteInv, PendingIsCalls
  <2>3. SentInv'
    BY <1>10 DEF Wake, Goto, RouteInv, SentInv
  <2>4. PacketInv'
    <3>1. /\ UNCHANGED <<stage, session, job, got, reader, box>>
          /\ \A d \in Callers : pc'[d] \in Engaged => pc'[d] = pc[d]
      BY <1>10 DEF Wake, Goto
    <3>2. \A p : \A d \in Callers : Fits(p, d) => Fits(p, d)'
      BY <3>1 DEF Fits
    <3> QED
      BY <3>1, <3>2 DEF RouteInv, PacketInv
  <2>5. SessionInv'
    BY <1>10 DEF Wake, Goto, RouteInv, SessionInv, Begin, PollOf
  <2> QED
    BY <2>1, <2>2, <2>3, <2>4, <2>5 DEF RouteInv
<1>11. ASSUME NEW g \in Conns, HandlePacket(g)
      PROVE  RouteInv'
  <2>1. OwnerInv'
    BY <1>11 DEF HandlePacket, RouteInv, OwnerInv
  <2>2. PendingIsCalls'
    BY <1>11 DEF HandlePacket, RouteInv, PendingIsCalls
  <2>3. SentInv'
    BY <1>11 DEF HandlePacket, RouteInv, SentInv
  <2>4. PacketInv'
    <3>1. PICK r \in sent : \E p \in Answers(r) :
            reader' = [reader EXCEPT ![g] = IF p.job \in pending THEN p ELSE None]
      BY <1>11 DEF HandlePacket
    <3>2. PICK p \in Answers(r) :
            reader' = [reader EXCEPT ![g] = IF p.job \in pending THEN p ELSE None]
      BY <3>1
    <3>3. UNCHANGED <<pc, job, stage, session, box, got>>
      BY <1>11 DEF HandlePacket
    <3>4. \A q : \A d \in Callers : Fits(q, d) => Fits(q, d)'
      BY <3>3 DEF Fits
    <3>5. r \in Requests
      OBVIOUS
    <3>6. /\ p.job = r.job /\ p.stage = r.stage /\ p.kind \in Kinds(r.stage)
          /\ p.stage = Begin => p.session = r.job
          /\ p.stage = PollOf => p.session = r.session
      BY <3>2, <3>5, AnswerType DEF Begin, PollOf
    <3>7. \A d \in Callers : pc[d] \in InCall /\ p.job = job[d] => Fits(p, d)
      BY <3>6 DEF RouteInv, SentInv, Fits
    <3>8. \A h \in Conns : reader'[h] # None => reader'[h] = reader[h] \/ reader'[h] = p
      BY <3>2
    <3> QED
      BY <3>3, <3>4, <3>7, <3>8 DEF RouteInv, PacketInv
  <2>5. SessionInv'
    BY <1>11 DEF HandlePacket, RouteInv, SessionInv, Begin, PollOf
  <2> QED
    BY <2>1, <2>2, <2>3, <2>4, <2>5 DEF RouteInv
<1>12. ASSUME NEW g \in Conns, Deliver(g)
      PROVE  RouteInv'
  <2>1. OwnerInv'
    BY <1>12 DEF Deliver, RouteInv, OwnerInv
  <2>2. PendingIsCalls'
    BY <1>12 DEF Deliver, RouteInv, PendingIsCalls
  <2>3. SentInv'
    BY <1>12 DEF Deliver, RouteInv, SentInv
  <2>4. PacketInv'
    <3>1. /\ reader[g] # None /\ UNCHANGED <<pc, job, stage, session, got>>
          /\ box' = [box EXCEPT ![reader[g].job] =
                       IF box[reader[g].job] = <<>> THEN <<reader[g]>>
                       ELSE box[reader[g].job]]
          /\ reader' = [reader EXCEPT ![g] = None]
      BY <1>12 DEF Deliver
    <3>2. \A q : \A d \in Callers : Fits(q, d) => Fits(q, d)'
      BY <3>1 DEF Fits
    <3>3. \A d \in Callers : pc[d] \in InCall =>
            \A i \in DOMAIN box'[job[d]] :
              \/ i \in DOMAIN box[job[d]] /\ box'[job[d]][i] = box[job[d]][i]
              \/ job[d] = reader[g].job /\ box'[job[d]][i] = reader[g]
      BY <3>1
    <3>4. \A h \in Conns : reader'[h] # None => reader'[h] = reader[h]
      BY <3>1
    <3> QED
      BY <3>1, <3>2, <3>3, <3>4 DEF RouteInv, PacketInv
  <2>5. SessionInv'
    BY <1>12 DEF Deliver, RouteInv, SessionInv, Begin, PollOf
  <2> QED
    BY <2>1, <2>2, <2>3, <2>4, <2>5 DEF RouteInv
<1>13. CASE Lose \/ Drain
  <2>1. UNCHANGED <<pc, callVars, mapVars, reader>>
    BY <1>13 DEF Lose, Drain
  <2>2. SentInv'
    BY <1>13, <2>1, AskedLess DEF RouteInv, SentInv
  <2> QED
    BY <2>1, <2>2 DEF RouteInv, OwnerInv, PendingIsCalls, PacketInv, SessionInv, Fits
<1>14. CASE Connect \/ Disconnect
  <2>1. UNCHANGED <<pc, callVars, mapVars, reader, queue, sent>>
    BY <1>14 DEF Connect, Disconnect
  <2> QED
    BY <2>1 DEF RouteInv, OwnerInv, PendingIsCalls, SentInv, PacketInv, SessionInv, Fits
<1>15. ASSUME NEW c \in Callers, RLock(c)
       PROVE  RouteInv'
  <2>1. /\ UNCHANGED <<callVars, mapVars, reader, queue, sent>>
        /\ \A d \in Callers : pc'[d] \in InCall <=> pc[d] \in InCall
        /\ \A d \in Callers : pc'[d] \in Engaged <=> pc[d] \in Engaged
        /\ \A d \in Callers : pc'[d] \in {"leave", "decide"} => pc[d] \in {"leave", "decide"}
        /\ \A d \in Callers : pc'[d] # "idle" => pc[d] # "idle"
    BY <1>15 DEF RLock, Goto
  <2>2. OwnerInv'
    BY <2>1, Zenon DEF RouteInv, OwnerInv
  <2>3. PendingIsCalls'
    BY <2>1 DEF RouteInv, PendingIsCalls
  <2>4. SentInv'
    BY <2>1 DEF RouteInv, SentInv
  <2>5. PacketInv'
    BY <2>1 DEF RouteInv, PacketInv, Fits
  <2>6. SessionInv'
    BY <2>1 DEF RouteInv, SessionInv
  <2> QED
    BY <2>2, <2>3, <2>4, <2>5, <2>6 DEF RouteInv
<1> QED
  BY <1>1, <1>2, <1>3, <1>4, <1>5, <1>6, <1>7, <1>8, <1>9, <1>10, <1>11, <1>12, <1>13,
     <1>14, <1>15 DEF Next, Step, CallStep

\* Before the first login there is nothing to route.
LEMMA InitRoute == Init => RouteInv
  BY DEF Init, RouteInv, OwnerInv, PendingIsCalls, SentInv, Asked, PacketInv, SessionInv,
     InCall, Engaged, NoJob

\* The inductive invariant of the routing.
LEMMA RouteInvariant == Spec => [](TypeInv /\ RouteInv)
<1>1. Init => TypeInv /\ RouteInv
  BY InitType, InitRoute
<1>2. TypeInv /\ RouteInv /\ [Next]_vars => (TypeInv /\ RouteInv)'
  BY TypeStep, RouteStep
<1> QED
  BY <1>1, <1>2, PTL DEF Spec

\* The map of pending calls holds the calls in progress and nothing else, for every number
\* of goroutines: neither a timeout nor a lost connection leaves an entry behind.
THEOREM PendingExact == Spec => []PendingIsCalls
<1>1. TypeInv /\ RouteInv => PendingIsCalls
  BY DEF RouteInv
<1> QED
  BY <1>1, RouteInvariant, PTL

\* A response reaches the call it answers and no other, whatever the server sends.
THEOREM AnswersReachTheirCall == Spec => []OwnAnswer
<1>1. TypeInv /\ RouteInv => OwnAnswer
  BY DEF RouteInv, OwnerInv, PacketInv, OwnAnswer, Fits, Engaged, PollOf
<1> QED
  BY <1>1, RouteInvariant, PTL

\* A login only ever returns the token of the session it began.
THEOREM TokenIsOwn == Spec => []TokenOfOwnSession
<1>1. TypeInv /\ RouteInv => TokenOfOwnSession
  BY DEF RouteInv, SessionInv, TokenOfOwnSession
<1> QED
  BY <1>1, RouteInvariant, PTL

-----------------------------------------------------------------------------
(* Steam Guard *)

\* Only a Begin is answered with a demand for Steam Guard.
LEMMA GuardIsOfBegin ==
  ASSUME NEW s \in Stages, "guard" \in Kinds(s)
  PROVE  s = Begin
  BY DEF Kinds, Stages, Begin

\* GuardInv is inductive, given the routing.
LEMMA GuardStep ==
  ASSUME TypeInv, RouteInv, GuardInv, [Next]_vars
  PROVE  GuardInv'
<1> USE SmallTypes, AskedKept DEF callVars, mapVars, linkVars, InCall, Engaged, GuardInv
<1>1. CASE UNCHANGED vars
  BY <1>1 DEF vars, PolledInv, BegunInv
<1>2. ASSUME NEW c \in Callers, LogOnWithCredentials(c)
      PROVE  GuardInv'
  BY <1>2 DEF LogOnWithCredentials, Goto, PolledInv, BegunInv, Begin, PollOf
<1>3. ASSUME NEW c \in Callers, Hello(c)
      PROVE  GuardInv'
  <2>1. Asked' \subseteq Asked
    BY <1>3, AskedMore DEF Hello
  <2> QED
    BY <1>3, <2>1 DEF Hello, Enqueue, Goto, PolledInv, BegunInv
<1>4. ASSUME NEW c \in Callers, Register(c)
      PROVE  GuardInv'
  <2>1. /\ currentJobId' = currentJobId + 1 /\ job' = [job EXCEPT ![c] = currentJobId + 1]
        /\ pc' = [pc EXCEPT ![c] = "send"] /\ pc[c] = "register"
        /\ UNCHANGED <<stage, session, got, guarded, sent, queue>>
    BY <1>4 DEF Register, GetNextJobId, Goto
  <2>2. PolledInv'
    BY <2>1 DEF PolledInv
  <2>3. \A d \in Callers : pc[d] # "idle" /\ stage[d] = PollOf =>
          session[d] \in 1..currentJobId
    BY DEF RouteInv, SessionInv
  <2>4. BegunInv'
    BY <2>1, <2>3 DEF PolledInv, BegunInv
  <2> QED
    BY <2>2, <2>4
<1>5. ASSUME NEW c \in Callers, Send(c)
      PROVE  GuardInv'
  <2>1. /\ pc' = [pc EXCEPT ![c] = "wait"] /\ pc[c] = "sendLocked"
        /\ UNCHANGED <<stage, session, got, guarded, job, currentJobId>>
    BY <1>5 DEF Send, Goto
  <2>2. \A r \in Asked' : r \in Asked \/ (r.stage = stage[c] /\ r.session = session[c])
    BY <1>5, AskedMore DEF Send
  <2>3. stage[c] = PollOf => session[c] \in 1..currentJobId
    BY <2>1 DEF RouteInv, SessionInv
  <2>4. PolledInv'
    BY <2>1, <2>2, <2>3 DEF PolledInv
  <2>5. BegunInv'
    BY <2>1, <2>2 DEF BegunInv
  <2> QED
    BY <2>4, <2>5
<1>6. ASSUME NEW c \in Callers, Receive(c)
      PROVE  GuardInv'
  <2>1. /\ pc' = [pc EXCEPT ![c] = "leave"] /\ pc[c] = "wait"
        /\ UNCHANGED <<stage, session, job, currentJobId, sent, queue>>
        /\ \A d \in Callers \ {c} : got'[d] = got[d]
        /\ guarded' = IF got'[c].kind = "guard" THEN guarded \cup {got'[c].session}
                      ELSE guarded
    BY <1>6 DEF Receive, Goto
  <2>2. got'[c] \in Responses /\ Fits(got'[c], c)
    <3>1. got'[c] = Head(box[job[c]]) /\ box[job[c]] # <<>>
      BY <1>6 DEF Receive
    <3>2. box[job[c]] \in Seq(Responses)
      BY <2>1
    <3>3. Head(box[job[c]]) = box[job[c]][1] /\ 1 \in DOMAIN box[job[c]]
          /\ Head(box[job[c]]) \in Responses
      BY <3>1, <3>2
    <3> QED
      BY <2>1, <3>1, <3>3 DEF RouteInv, PacketInv
  <2>3. got'[c] # None
    BY <2>2, NoneIsNoResponse
  <2>4. got'[c].kind = "guard" => stage[c] = Begin /\ got'[c].session = job[c]
    BY <2>2, GuardIsOfBegin DEF Fits
  <2>5. CASE got'[c].kind = "guard"
    <3>1. guarded' = guarded \cup {job[c]} /\ stage[c] = Begin /\ job[c] \in 1..currentJobId
      BY <2>1, <2>4, <2>5
    <3>2. /\ \A r \in Asked : r.stage = PollOf => r.session # job[c]
          /\ \A d \in Callers : pc[d] # "idle" /\ stage[d] = PollOf => session[d] # job[c]
      BY <2>1, <3>1 DEF BegunInv
    <3>3. PolledInv'
      BY <2>1, <3>1, <3>2 DEF PolledInv
    <3>4. \A d \in Callers : pc[d] \in Engaged /\ job[d] = job[c] => d = c
      BY <2>1 DEF RouteInv, OwnerInv
    <3>5. BegunInv'
      BY <2>1, <2>3, <2>5, <3>1, <3>2, <3>4 DEF BegunInv
    <3> QED
      BY <3>3, <3>5
  <2>6. CASE got'[c].kind # "guard"
    <3>1. guarded' = guarded
      BY <2>1, <2>6
    <3>2. PolledInv'
      BY <2>1, <3>1 DEF PolledInv
    <3>3. BegunInv'
      BY <2>1, <3>1 DEF BegunInv
    <3> QED
      BY <3>2, <3>3
  <2> QED
    BY <2>5, <2>6
<1>7. ASSUME NEW c \in Callers, Timeout(c)
      PROVE  GuardInv'
  BY <1>7 DEF Timeout, Goto, PolledInv, BegunInv
<1>8. ASSUME NEW c \in Callers, Leave(c)
      PROVE  GuardInv'
  BY <1>8 DEF Leave, Goto, PolledInv, BegunInv
<1>9. ASSUME NEW c \in Callers, Decide(c)
      PROVE  GuardInv'
  <2>1. /\ pc[c] = "decide" /\ pc'[c] \in {"idle", "register", "sleep"}
        /\ \A d \in Callers \ {c} :
             /\ pc'[d] = pc[d] /\ job'[d] = job[d] /\ stage'[d] = stage[d]
             /\ session'[d] = session[d] /\ got'[d] = got[d]
        /\ UNCHANGED <<guarded, currentJobId, sent, queue>>
    BY <1>9 DEF Decide, Goto
  <2>2. \/ pc'[c] # "idle" /\ stage'[c] = PollOf =>
             stage[c] = PollOf /\ session'[c] = session[c]
        \/ stage[c] = Begin /\ ~Fails(got[c]) /\ session'[c] = got[c].session
    BY <1>9 DEF Decide, Begin, PollOf
  <2>3. ASSUME stage[c] = Begin, ~Fails(got[c])
        PROVE  got[c].session = job[c] /\ job[c] \notin guarded
               /\ \A d \in Callers : pc[d] \in Engaged /\ job[d] = job[c] => d = c
    <3>1. got[c] # None /\ got[c].kind # "guard"
      BY <2>3 DEF Fails
    <3>2. Fits(got[c], c)
      BY <2>1, <3>1 DEF RouteInv, PacketInv
    <3>3. got[c].session = job[c]
      BY <2>3, <3>2 DEF Fits
    <3>4. job[c] \notin guarded
      BY <2>1, <2>3, <3>1 DEF BegunInv
    <3>5. \A d \in Callers : pc[d] \in Engaged /\ job[d] = job[c] => d = c
      BY <2>1 DEF RouteInv, OwnerInv
    <3> QED
      BY <3>3, <3>4, <3>5
  <2>4. PolledInv'
    BY <2>1, <2>2, <2>3 DEF PolledInv
  <2>5. BegunInv'
    <3> SUFFICES ASSUME NEW b \in Callers, pc'[b] \in Engaged, stage'[b] = Begin
                 PROVE  /\ job'[b] \in guarded' => /\ pc'[b] \in {"leave", "decide"}
                                                  /\ got'[b] # None /\ got'[b].kind = "guard"
                        /\ \A r \in Asked' : r.stage = PollOf => r.session # job'[b]
                        /\ \A d \in Callers : pc'[d] # "idle" /\ stage'[d] = PollOf =>
                             session'[d] # job'[b]
      BY Zenon DEF BegunInv, Begin, PollOf
    <3>1. b # c /\ pc'[b] = pc[b] /\ job'[b] = job[b] /\ stage'[b] = stage[b] /\ got'[b] = got[b]
      BY <2>1
    <3>2. /\ job[b] \in guarded =>
               pc[b] \in {"leave", "decide"} /\ got[b] # None /\ got[b].kind = "guard"
          /\ \A r \in Asked : r.stage = PollOf => r.session # job[b]
          /\ \A d \in Callers : pc[d] # "idle" /\ stage[d] = PollOf => session[d] # job[b]
      BY <3>1 DEF BegunInv
    <3>3. ASSUME NEW d \in Callers, pc'[d] # "idle", stage'[d] = PollOf
          PROVE  session'[d] # job[b]
      <4>1. CASE d # c
        BY <2>1, <3>2, <3>3, <4>1
      <4>2. CASE d = c
        BY <2>1, <2>2, <2>3, <3>1, <3>2, <3>3, <4>2
      <4> QED
        BY <4>1, <4>2
    <3> QED
      BY <2>1, <3>1, <3>2, <3>3
  <2> QED
    BY <2>4, <2>5
<1>10. ASSUME NEW c \in Callers, Wake(c)
      PROVE  GuardInv'
  <2>1. /\ \A d \in Callers : pc'[d] \in Engaged => pc'[d] = pc[d]
        /\ \A d \in Callers : pc'[d] # "idle" => pc[d] # "idle"
        /\ UNCHANGED <<stage, session, got, guarded, job, currentJobId, sent, queue>>
    BY <1>10 DEF Wake, Goto
  <2> QED
    BY <2>1 DEF PolledInv, BegunInv
<1>11. ASSUME NEW g \in Conns, HandlePacket(g)
      PROVE  GuardInv'
  BY <1>11 DEF HandlePacket, PolledInv, BegunInv
<1>12. ASSUME NEW g \in Conns, Deliver(g)
      PROVE  GuardInv'
  BY <1>12 DEF Deliver, PolledInv, BegunInv
<1>13. CASE Lose \/ Drain
  <2>1. UNCHANGED <<pc, callVars, mapVars>>
    BY <1>13 DEF Lose, Drain
  <2> QED
    BY <1>13, <2>1, AskedLess DEF PolledInv, BegunInv
<1>14. CASE Connect \/ Disconnect
  BY <1>14 DEF Connect, Disconnect, PolledInv, BegunInv
<1>15. ASSUME NEW c \in Callers, RLock(c)
       PROVE  GuardInv'
  <2>1. /\ UNCHANGED <<callVars, mapVars, queue, sent>>
        /\ \A d \in Callers : pc'[d] \in Engaged => pc[d] \in Engaged
        /\ \A d \in Callers : pc[d] \in {"leave", "decide"} => pc'[d] = pc[d]
        /\ \A d \in Callers : pc'[d] # "idle" => pc[d] # "idle"
    BY <1>15 DEF RLock, Goto
  <2> QED
    BY <2>1 DEF PolledInv, BegunInv
<1> QED
  BY <1>1, <1>2, <1>3, <1>4, <1>5, <1>6, <1>7, <1>8, <1>9, <1>10, <1>11, <1>12, <1>13,
     <1>14, <1>15 DEF Next, Step, CallStep

\* A session that needs Steam Guard is never polled: the login that was told so ends, and
\* no other login knows the session.
THEOREM GuardedIsNotPolled == Spec => []GuardEndsLogin
<1>1. Init => GuardInv
  BY DEF Init, GuardInv, PolledInv, BegunInv, Asked, Engaged, InCall
<1>2. TypeInv /\ RouteInv /\ GuardInv /\ [Next]_vars => GuardInv'
  BY GuardStep
<1>3. GuardInv => GuardEndsLogin
  BY DEF GuardInv, PolledInv, GuardEndsLogin, PollOf, Asked
<1> QED
  BY <1>1, <1>2, <1>3, RouteInvariant, PTL DEF Spec
=============================================================================
