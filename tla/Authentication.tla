---------------------------- MODULE Authentication ----------------------------
(***************************************************************************)
(* The credential login of authentication.go: goroutines that run          *)
(* LogOnWithCredentials, each a series of service-method calls, and the    *)
(* read loop that routes the responses to the calls that wait for them.    *)
(* A call registers a channel of capacity 1 under a fresh job id, sends    *)
(* its request and waits for the response or for its timeout.              *)
(*                                                                         *)
(* The connection may be lost and replaced at any time, the server answers *)
(* a request late, more than once or never, and a timeout may race the     *)
(* answer.  A call sends through sendNoStamp, which has the shape of       *)
(* Client.Write: it waits for room in writeChan with the read lock held,   *)
(* before its timer starts, and a Disconnect waits for the lock meanwhile. *)
(* The writeLoop only drains the queue here, at any time or never again;   *)
(* its own lock, buffer and failures are the subject of Client.            *)
(***************************************************************************)
EXTENDS Integers, Sequences, FiniteSets

CONSTANTS
  Callers,      \* goroutines that call LogOnWithCredentials
  MaxPolls,     \* PollAuthSessionStatus attempts of one login (30 in the code)
  WriteCap,     \* capacity of writeChan (5 in the code)
  MaxLogOns,    \* bound: calls of LogOnWithCredentials
  MaxAnswers,   \* bound: responses the server sends
  MaxConns      \* bound: connections

ASSUME PollsAssumption  == MaxPolls \in Nat \ {0}
ASSUME QueueAssumption  == WriteCap \in Nat \ {0}
ASSUME LimitsAssumption == MaxLogOns \in Nat /\ MaxAnswers \in Nat /\ MaxConns \in Nat

Conns  == 1..MaxConns
Stages == {"GetPasswordRSAPublicKey", "BeginAuthSessionViaCredentials",
           "PollAuthSessionStatus"}

\* What LogOnWithCredentials tells apart in a response: an EResult other than OK; a key
\* that encryptPassword takes, or not; a session that needs no Steam Guard, or that does;
\* a poll with a refresh token, or without.
Kinds(s) ==
  {"fail"} \cup CASE s = "GetPasswordRSAPublicKey"        -> {"key", "badKey"}
                  [] s = "BeginAuthSessionViaCredentials" -> {"session", "guard"}
                  [] s = "PollAuthSessionStatus"          -> {"token", "noToken"}
AllKinds == {"fail", "key", "badKey", "session", "guard", "token", "noToken"}

\* The server names a session after the job that began it; a poll carries that name.
Requests  == [job : Nat, stage : Stages, session : Nat]
Responses == [job : Nat, stage : Stages, session : Nat, kind : AllKinds]
NoJob     == 0
None      == [job |-> NoJob, stage |-> "", session |-> NoJob, kind |-> ""]
ClientHello == [job |-> NoJob, stage |-> "ClientHello", session |-> NoJob]

VARIABLES
  pc,         \* pc[c]: the statement goroutine c is at
  stage,      \* stage[c]: the service method it is calling
  attempt,    \* attempt[c]: the loop variable of the poll loop
  job,        \* job[c]: jobID of the call in progress
  session,    \* session[c]: begin.ClientId, the session to poll
  got,        \* got[c]: the packet its call received, or None after the timeout
  result,     \* result[c]: the session whose token the last login returned, or NoJob
  currentJobId,
  pending,    \* the jobs registered in a.pending
  box,        \* box[j]: the channel made for job j
  reader,     \* reader[g]: the packet for which HandlePacket, run by the read loop of
              \* connection g, has found a channel, or None
  connected,  \* client.conn # nil
  leaving,    \* a Disconnect waits for client.mutex, or holds it
  queue,      \* client.writeChan
  sent,       \* the requests the server has got on this connection
  logons, answers, conns,   \* counters for the bounds
  login,      \* history: login[c] numbers the login c is in
  owner,      \* history: owner[j] is the login that made job j
  guarded     \* history: the sessions a caller was told need Steam Guard

callVars == <<stage, attempt, job, session, got, result, login, guarded>>
mapVars  == <<currentJobId, pending, box, owner>>
linkVars == <<connected, leaving, queue, sent, conns>>
vars == <<pc, callVars, mapVars, linkVars, reader, logons, answers>>

Labels == {"idle", "hello", "helloLocked", "register", "send", "sendLocked", "wait",
           "leave", "decide", "sleep"}
\* Inside a.call, between the registration and the deferred delete.
InCall == {"send", "sendLocked", "wait", "leave"}
\* Inside sendNoStamp, with client.mutex held for reading.
Locked == {"helloLocked", "sendLocked"}

TypeOK ==
  /\ pc \in [Callers -> Labels]
  /\ stage \in [Callers -> Stages]
  /\ attempt \in [Callers -> 0..MaxPolls - 1]
  /\ job \in [Callers -> Nat]
  /\ session \in [Callers -> Nat]
  /\ got \in [Callers -> Responses \cup {None}]
  /\ result \in [Callers -> Nat]
  /\ login \in [Callers -> 0..MaxLogOns]
  /\ currentJobId \in Nat
  /\ pending \subseteq 1..currentJobId
  /\ box \in [1..currentJobId -> Seq(Responses)]
  /\ \A j \in 1..currentJobId : Len(box[j]) <= 1
  /\ owner \in [1..currentJobId -> 1..MaxLogOns]
  /\ guarded \subseteq Nat
  /\ reader \in [Conns -> Responses \cup {None}]
  /\ connected \in BOOLEAN /\ leaving \in BOOLEAN
  /\ queue \in Seq(Requests \cup {ClientHello}) /\ Len(queue) <= WriteCap
  /\ sent \subseteq Requests
  /\ logons \in 0..MaxLogOns /\ answers \in 0..MaxAnswers /\ conns \in 0..MaxConns

Init ==
  /\ pc = [c \in Callers |-> "idle"]
  /\ stage = [c \in Callers |-> "GetPasswordRSAPublicKey"]
  /\ attempt = [c \in Callers |-> 0]
  /\ job = [c \in Callers |-> NoJob]
  /\ session = [c \in Callers |-> NoJob]
  /\ got = [c \in Callers |-> None]
  /\ result = [c \in Callers |-> NoJob]
  /\ login = [c \in Callers |-> 0]
  /\ currentJobId = 0 /\ pending = {} /\ box = <<>> /\ owner = <<>>
  /\ guarded = {}
  /\ reader = [g \in Conns |-> None]
  /\ connected = FALSE /\ leaving = FALSE /\ queue = <<>> /\ sent = {}
  /\ logons = 0 /\ answers = 0 /\ conns = 0

-----------------------------------------------------------------------------
(* The caller *)

Goto(c, l) == pc' = [pc EXCEPT ![c] = l]

\* LogOnWithCredentials is called, as documented on a connected client; its local
\* variables are fresh.
LogOnWithCredentials(c) ==
  /\ pc[c] = "idle" /\ connected /\ logons < MaxLogOns
  /\ logons' = logons + 1
  /\ login' = [login EXCEPT ![c] = logons + 1]
  /\ stage' = [stage EXCEPT ![c] = "GetPasswordRSAPublicKey"]
  /\ attempt' = [attempt EXCEPT ![c] = 0]
  /\ session' = [session EXCEPT ![c] = NoJob]
  /\ result' = [result EXCEPT ![c] = NoJob]
  /\ Goto(c, "hello")
  /\ UNCHANGED <<job, got, guarded, mapVars, linkVars, reader, answers>>

\* sendNoStamp takes client.mutex for reading, which a Disconnect that waits for the lock
\* holds off, and ignores the message when the client is not connected.
RLock(c) ==
  /\ ~leaving
  /\ \/ pc[c] = "hello" /\ Goto(c, IF connected THEN "helloLocked" ELSE "register")
     \/ pc[c] = "send" /\ Goto(c, IF connected THEN "sendLocked" ELSE "wait")
  /\ UNCHANGED <<callVars, mapVars, linkVars, reader, logons, answers>>

\* writeChan <- msg: blocks while the channel is full.
Enqueue(msg) ==
  /\ Len(queue) < WriteCap
  /\ queue' = Append(queue, msg)
  /\ UNCHANGED <<connected, leaving, sent, conns>>

\* sendNoStamp(ClientHello) goes through.
Hello(c) ==
  /\ pc[c] = "helloLocked"
  /\ Enqueue(ClientHello)
  /\ Goto(c, "register")
  /\ UNCHANGED <<callVars, mapVars, reader, logons, answers>>

\* Variant for mutation: two goroutines read the counter before either stores it.
SameJobId == IF pending = {} THEN currentJobId + 1 ELSE currentJobId
\* GetNextJobId: an atomic increment.
GetNextJobId == currentJobId + 1

\* call: a fresh channel is registered under the next job id.
Register(c) ==
  /\ pc[c] = "register"
  /\ LET j == GetNextJobId IN
     /\ currentJobId' = j
     /\ job' = [job EXCEPT ![c] = j]
     /\ box' = [i \in 1..j |-> IF i = j THEN <<>> ELSE box[i]]
     /\ owner' = [i \in 1..j |-> IF i = j THEN login[c] ELSE owner[i]]
     /\ pending' = pending \cup {j}
  /\ Goto(c, "send")
  /\ UNCHANGED <<stage, attempt, session, got, result, login, guarded, linkVars, reader,
                 logons, answers>>

\* sendNoStamp(request) goes through; only now does the timer start.
Send(c) ==
  /\ pc[c] = "sendLocked"
  /\ Enqueue([job |-> job[c], stage |-> stage[c], session |-> session[c]])
  /\ Goto(c, "wait")
  /\ UNCHANGED <<callVars, mapVars, reader, logons, answers>>

\* case packet := <-ch
Receive(c) ==
  /\ pc[c] = "wait" /\ box[job[c]] # <<>>
  /\ got' = [got EXCEPT ![c] = Head(box[job[c]])]
  /\ box' = [box EXCEPT ![job[c]] = Tail(@)]
  /\ guarded' = IF got'[c].kind = "guard" THEN guarded \cup {got'[c].session} ELSE guarded
  /\ Goto(c, "leave")
  /\ UNCHANGED <<stage, attempt, job, session, result, login, currentJobId, pending, owner,
                 linkVars, reader, logons, answers>>

\* Variant for mutation: wait for the answer only.
TimeoutNever(c) == FALSE /\ UNCHANGED vars
\* case <-time.After(30 * time.Second), also when the answer is there already.
Timeout(c) ==
  /\ pc[c] = "wait"
  /\ got' = [got EXCEPT ![c] = None]
  /\ Goto(c, "leave")
  /\ UNCHANGED <<stage, attempt, job, session, result, login, guarded, mapVars, linkVars,
                 reader, logons, answers>>

\* Variant for mutation: only a call that got an answer is taken out of the map.
LeaveAnswered(c) ==
  /\ pc[c] = "leave"
  /\ pending' = IF got[c] = None THEN pending ELSE pending \ {job[c]}
  /\ Goto(c, "decide")
  /\ UNCHANGED <<callVars, currentJobId, box, owner, linkVars, reader, logons, answers>>
\* The deferred delete(a.pending, jobID).
Leave(c) ==
  /\ pc[c] = "leave"
  /\ pending' = pending \ {job[c]}
  /\ Goto(c, "decide")
  /\ UNCHANGED <<callVars, currentJobId, box, owner, linkVars, reader, logons, answers>>

\* Variant for mutation: the confirmations are not looked at.
FailsUnguarded(p) == p = None \/ p.kind \in {"fail", "badKey"}
\* An error, an EResult other than OK, a key that does not decode and a session that needs
\* Steam Guard end the login.
Fails(p) == p = None \/ p.kind \in {"fail", "badKey", "guard"}

\* LogOnWithCredentials goes on with what its call returned.
Decide(c) ==
  /\ pc[c] = "decide"
  /\ \/ Fails(got[c]) /\ Goto(c, "idle") /\ UNCHANGED <<stage, session, result>>
     \/ /\ ~Fails(got[c]) /\ stage[c] = "GetPasswordRSAPublicKey"
        /\ stage' = [stage EXCEPT ![c] = "BeginAuthSessionViaCredentials"]
        /\ Goto(c, "register") /\ UNCHANGED <<session, result>>
     \/ /\ ~Fails(got[c]) /\ stage[c] = "BeginAuthSessionViaCredentials"
        /\ stage' = [stage EXCEPT ![c] = "PollAuthSessionStatus"]
        /\ session' = [session EXCEPT ![c] = got[c].session]
        /\ Goto(c, "register") /\ UNCHANGED result
     \/ /\ got[c].kind = "token" /\ stage[c] = "PollAuthSessionStatus"
        /\ result' = [result EXCEPT ![c] = got[c].session]
        /\ Goto(c, "idle") /\ UNCHANGED <<stage, session>>
     \/ /\ got[c].kind = "noToken" /\ stage[c] = "PollAuthSessionStatus"
        /\ Goto(c, "sleep") /\ UNCHANGED <<stage, session, result>>
  /\ got' = [got EXCEPT ![c] = None]
  /\ job' = [job EXCEPT ![c] = NoJob]
  /\ UNCHANGED <<attempt, login, guarded, mapVars, linkVars, reader, logons, answers>>

\* time.Sleep(interval); attempt++; attempt < 30
Wake(c) ==
  /\ pc[c] = "sleep"
  /\ \/ /\ attempt[c] + 1 < MaxPolls
        /\ attempt' = [attempt EXCEPT ![c] = @ + 1]
        /\ Goto(c, "register")
     \/ /\ attempt[c] + 1 = MaxPolls
        /\ Goto(c, "idle") /\ UNCHANGED attempt
  /\ UNCHANGED <<stage, job, session, got, result, login, guarded, mapVars, linkVars, reader,
                 logons, answers>>

-----------------------------------------------------------------------------
(* The read loop and the server *)

\* The server answers a request it has got, again or for the first time.  A Begin is
\* answered with the session it began, a poll with the session it asked for.
Answers(r) ==
  {[job |-> r.job, stage |-> r.stage, kind |-> k,
    session |-> IF r.stage = "BeginAuthSessionViaCredentials" THEN r.job ELSE r.session]
     : k \in Kinds(r.stage)}

\* Variant for mutation: the latest call that waits gets the packet.
HandlePacketLatest(g) ==
  /\ connected /\ conns = g /\ reader[g] = None /\ answers < MaxAnswers
  /\ answers' = answers + 1
  /\ \E r \in sent : \E p \in Answers(r) :
       reader' = [reader EXCEPT ![g] = IF pending # {} THEN [p EXCEPT !.job = currentJobId]
                                       ELSE None]
  /\ UNCHANGED <<pc, callVars, mapVars, linkVars, logons>>
\* HandlePacket looks the response's TargetJobId up, with a.mu held; a response nobody
\* waits for is dropped.
HandlePacket(g) ==
  /\ connected /\ conns = g /\ reader[g] = None /\ answers < MaxAnswers
  /\ answers' = answers + 1
  /\ \E r \in sent : \E p \in Answers(r) :
       reader' = [reader EXCEPT ![g] = IF p.job \in pending THEN p ELSE None]
  /\ UNCHANGED <<pc, callVars, mapVars, linkVars, logons>>

\* Variant for mutation: a plain send, which waits for room.
DeliverBlocking(g) ==
  /\ reader[g] # None /\ box[reader[g].job] = <<>>
  /\ box' = [box EXCEPT ![reader[g].job] = <<reader[g]>>]
  /\ reader' = [reader EXCEPT ![g] = None]
  /\ UNCHANGED <<pc, callVars, currentJobId, pending, owner, linkVars, logons, answers>>
\* Variant for mutation: a channel without a bound.
DeliverAll(g) ==
  /\ reader[g] # None
  /\ box' = [box EXCEPT ![reader[g].job] = Append(@, reader[g])]
  /\ reader' = [reader EXCEPT ![g] = None]
  /\ UNCHANGED <<pc, callVars, currentJobId, pending, owner, linkVars, logons, answers>>
\* select { case ch <- packet: default: } after a.mu was unlocked: the call may have
\* ended meanwhile, and a second response finds the channel full.
Deliver(g) ==
  /\ reader[g] # None
  /\ box' = [box EXCEPT ![reader[g].job] = IF @ = <<>> THEN <<reader[g]>> ELSE @]
  /\ reader' = [reader EXCEPT ![g] = None]
  /\ UNCHANGED <<pc, callVars, currentJobId, pending, owner, linkVars, logons, answers>>

\* The writeLoop writes the next message, and the server gets it.
Drain ==
  /\ connected /\ queue # <<>>
  /\ queue' = Tail(queue)
  /\ sent' = sent \cup ({Head(queue)} \ {ClientHello})
  /\ UNCHANGED <<pc, callVars, mapVars, connected, leaving, conns, reader, logons, answers>>

\* Disconnect is called, by the application or by a loop that failed; it gets the lock once
\* no goroutine is behind RLock, and what was under way is lost.
Disconnect ==
  /\ connected /\ ~leaving
  /\ leaving' = TRUE
  /\ UNCHANGED <<pc, callVars, mapVars, connected, queue, sent, conns, reader,
                 logons, answers>>
Lose ==
  /\ leaving /\ \A c \in Callers : pc[c] \notin Locked
  /\ connected' = FALSE /\ leaving' = FALSE
  /\ queue' = <<>> /\ sent' = {}
  /\ UNCHANGED <<pc, callVars, mapVars, conns, reader, logons, answers>>

\* The client connects again.
Connect ==
  /\ ~connected /\ conns < MaxConns
  /\ conns' = conns + 1 /\ connected' = TRUE
  /\ UNCHANGED <<pc, callVars, mapVars, leaving, queue, sent, reader, logons,
                 answers>>

-----------------------------------------------------------------------------
(* The specification *)

CallStep(c) == Register(c) \/ Send(c) \/ Receive(c) \/ Timeout(c) \/ Leave(c)
Step(c) == RLock(c) \/ Hello(c) \/ CallStep(c) \/ Decide(c) \/ Wake(c)

Next == \/ \E c \in Callers : LogOnWithCredentials(c) \/ Step(c)
        \/ \E g \in Conns : HandlePacket(g) \/ Deliver(g)
        \/ Drain \/ Disconnect \/ Lose \/ Connect

Spec == Init /\ [][Next]_vars

\* The Go scheduler runs the callers and the read loop, and every timer fires; the server,
\* the network, the writeLoop and a Disconnect under way owe nothing.
FairSpec == /\ Spec
            /\ \A c \in Callers : WF_vars(Step(c))
            /\ \A g \in Conns : WF_vars(Deliver(g))

-----------------------------------------------------------------------------
(* Properties *)

\* The map holds exactly the calls in progress, whether they end by an answer or by the
\* timeout, so that it cannot grow without bound (authentication.go:70-77).
PendingIsCalls == pending = {job[c] : c \in {d \in Callers : pc[d] \in InCall}}

\* A response reaches the call it answers and no other: what lies in the channel of a
\* waiting call answers this call's request, however late, often or disordered the server
\* answers and however many logins run at a time (authentication.go:50-63).
OwnAnswer ==
  \A c \in Callers : pc[c] \in InCall =>
    /\ owner[job[c]] = login[c]
    /\ \A i \in DOMAIN box[job[c]] :
         LET p == box[job[c]][i] IN
         /\ p.job = job[c] /\ p.stage = stage[c]
         /\ p.stage = "PollAuthSessionStatus" => p.session = session[c]

\* The token a login returns is the one of the session this very login began, not of an
\* earlier or a concurrent one (authentication.go:193-218).
TokenOfOwnSession ==
  \A c \in Callers : pc[c] = "idle" /\ result[c] # NoJob => owner[result[c]] = login[c]

\* A session that needs Steam Guard is never polled, by no login and whatever else the
\* server answers to the same request (authentication.go:120: "It deliberately does NOT
\* proceed when the account requires an interactive Steam Guard confirmation").
GuardEndsLogin ==
  \A r \in sent : r.stage = "PollAuthSessionStatus" => r.session \notin guarded

\* A login is held up in sendNoStamp: by a Disconnect that waits for the lock, or by a queue
\* without room.
HeldUp(c) == \/ pc[c] \in {"hello", "send"} /\ leaving
             \/ pc[c] \in Locked /\ Len(queue) = WriteCap

\* LogOnWithCredentials returns, whatever the server does, or is held up for ever in
\* sendNoStamp, before its 30 s timer starts (authentication.go:83, 97-104): nowhere else
\* does it hang.
LogOnReturns == \A c \in Callers : <>[](pc[c] # "idle") => <>[]HeldUp(c)

\* The read loop gets past every response, also one nobody waits for any more
\* (authentication.go:58-61).
ReaderReturns == \A g \in Conns : reader[g] # None ~> reader[g] = None
=============================================================================
