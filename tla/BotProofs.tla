------------------------------ MODULE BotProofs ------------------------------
(***************************************************************************)
(* Proofs about the bot over restarts: every logon carries the sentry hash *)
(* Steam was last told, unless the program ended before it was saved, for  *)
(* any number of hashes, server lists and ends of the program.             *)
(***************************************************************************)
EXTENDS Bot, SequenceTheorems, TLAPS

EventTypes == {"Connected", "Disconnected", "Sentry", "CMList"}
SavePhases == {"nothing", "sentry", "list"}

\* The types of what the argument counts and compares.
TypeInv ==
  /\ link \in {"off", "connected", "loggedOn"}
  /\ events \in Seq(EventTypes \X Nat)
  /\ saving \in SavePhases \X Nat
  /\ latest \in Nat /\ sentryFile \in Nat

\* The events that are left and the connection: ConnectedEvent is the first event of a
\* connection and DisconnectedEvent its last, and the bot connects again behind it.
LinkInv ==
  /\ idle => link = "off" /\ events = <<>>
  /\ ~up => idle
  /\ link = "connected" => events = <<<<"Connected", 0>>>>
  /\ link = "loggedOn" =>
       \A k \in DOMAIN events : events[k][1] \notin {"Connected", "Disconnected"}
  /\ link = "off" /\ ~idle =>
       /\ events # <<>>
       /\ \A k \in DOMAIN events : events[k][1] = "Disconnected" <=> k = Len(events)

\* The sentry events come in the order of their hashes, behind the one that is saved.
OrderInv ==
  /\ \A k \in DOMAIN events : events[k][1] = "Sentry" => events[k][2] <= latest
  /\ \A j, k \in DOMAIN events :
       j < k /\ events[j][1] = "Sentry" /\ events[k][1] = "Sentry" => events[j][2] < events[k][2]
  /\ saving[1] = "sentry" =>
       /\ saving[2] <= latest
       /\ \A k \in DOMAIN events : events[k][1] = "Sentry" => saving[2] < events[k][2]

\* The hash Steam was last told is in the file, on its way there, or in an event that is
\* left; or the program ended before it was saved.
NonePending == \A k \in DOMAIN events : events[k][1] # "Sentry"
KeptInv ==
  \/ cut
  \/ NonePending /\ saving[1] # "sentry" /\ sentryFile = latest
  \/ NonePending /\ saving[1] = "sentry" /\ saving[2] = latest
  \/ \E k \in DOMAIN events : events[k][1] = "Sentry" /\ events[k][2] = latest

\* The inductive invariant.
BotInv == TypeInv /\ LinkInv /\ OrderInv /\ KeptInv

-----------------------------------------------------------------------------

\* What Append does to an event queue.
LEMMA AppendFacts ==
  ASSUME NEW S, NEW s \in Seq(S), NEW e \in S
  PROVE  /\ Append(s, e) \in Seq(S)
         /\ Len(Append(s, e)) = Len(s) + 1 /\ Len(s) \in Nat
         /\ DOMAIN s = 1..Len(s) /\ DOMAIN Append(s, e) = 1..Len(s) + 1
         /\ \A k \in DOMAIN s : Append(s, e)[k] = s[k]
         /\ Append(s, e)[Len(s) + 1] = e
         /\ Append(s, e) # <<>>
  OBVIOUS

\* What Tail does to an event queue.
LEMMA TailFacts ==
  ASSUME NEW S, NEW s \in Seq(S), s # <<>>
  PROVE  /\ Tail(s) \in Seq(S) /\ Len(s) \in Nat \ {0}
         /\ Head(s) = s[1] /\ DOMAIN s = 1..Len(s) /\ Len(Tail(s)) = Len(s) - 1
         /\ \A k \in DOMAIN Tail(s) : k \in 1..Len(s) - 1 /\ Tail(s)[k] = s[k + 1]
         /\ \A k \in DOMAIN s : k # 1 => k - 1 \in DOMAIN Tail(s) /\ Tail(s)[k - 1] = s[k]
<1>1. Len(s) \in Nat \ {0} /\ DOMAIN s = 1..Len(s)
  BY EmptySeq, LenProperties
<1>2. Head(s) = s[1] /\ Tail(s) \in Seq(S) /\ Len(Tail(s)) = Len(s) - 1
  BY HeadTailProperties
<1>3. DOMAIN Tail(s) = 1..Len(s) - 1
  BY <1>2, LenProperties
<1>4. \A k \in 1..Len(s) - 1 : Tail(s)[k] = s[k + 1]
  BY HeadTailProperties, <1>2
<1> QED
  BY <1>1, <1>2, <1>3, <1>4

\* The initial state: no file, no hash, nothing pending.
LEMMA BotInit == Init => BotInv
<1> SUFFICES ASSUME Init PROVE BotInv
  OBVIOUS
<1>1. events = <<>> /\ DOMAIN events = {} /\ saving = <<"nothing", 0>>
  BY DEF Init, Nothing
<1>2. TypeInv
  BY <1>1 DEF Init, TypeInv, SavePhases, NoHash
<1>3. LinkInv
  BY <1>1 DEF Init, LinkInv
<1>4. OrderInv
  BY <1>1 DEF OrderInv
<1>5. KeptInv
  BY <1>1 DEF Init, KeptInv, NonePending
<1> QED
  BY <1>2, <1>3, <1>4, <1>5 DEF BotInv

\* A step that leaves the events, the file and the save alone, and connects at most.
LEMMA ConnectStep ==
  ASSUME BotInv, Connect
  PROVE  BotInv'
<1>1. /\ events = <<>> /\ link = "off" /\ idle
      /\ UNCHANGED <<up, saving, sentryFile, latest, cut, replayed>>
  BY DEF Connect, Connecting, BotInv, LinkInv
<1>2. CASE UNCHANGED <<link, idle, events>>
  BY <1>1, <1>2 DEF BotInv, TypeInv, LinkInv, OrderInv, KeptInv, NonePending
<1>3. CASE link' = "connected" /\ idle' = FALSE /\ events' = Append(events, <<"Connected", 0>>)
  <2>1. events' = <<<<"Connected", 0>>>>
    BY <1>1, <1>3
  <2>2. DOMAIN events' = {1} /\ events'[1] = <<"Connected", 0>>
    BY <2>1
  <2>3. TypeInv'
    BY <1>1, <1>3, <2>1 DEF BotInv, TypeInv, EventTypes
  <2>4. LinkInv'
    BY <1>1, <1>3, <2>1, <2>2 DEF Connect, Connecting, LinkInv
  <2>5. OrderInv'
    BY <1>1, <2>2 DEF BotInv, OrderInv
  <2>6. KeptInv'
    <3>1. NonePending'
      BY <2>2 DEF NonePending
    <3>2. DOMAIN events = {}
      BY <1>1
    <3> QED
      BY <1>1, <3>1, <3>2 DEF BotInv, KeptInv
  <2> QED
    BY <2>3, <2>4, <2>5, <2>6 DEF BotInv
<1> QED
  BY <1>2, <1>3 DEF Connect, ClientConnect, Dial

\* The program ends: what was not saved is marked by cut.
LEMMA EndStep ==
  ASSUME BotInv, End, UNCHANGED <<listFile, sentryFile, latest, replayed, lists>>
  PROVE  BotInv'
<1>1. /\ events' = <<>> /\ DOMAIN events' = {} /\ saving' = <<"nothing", 0>> /\ idle' = TRUE
      /\ link' = "off" /\ up' = FALSE
      /\ cut' = (cut \/ saving[1] = "sentry" \/ \E k \in DOMAIN events : events[k][1] = "Sentry")
  BY DEF End, Nothing
<1>2. TypeInv'
  BY <1>1 DEF BotInv, TypeInv, SavePhases
<1>3. LinkInv'
  BY <1>1 DEF LinkInv
<1>4. OrderInv'
  BY <1>1 DEF OrderInv
<1>5. KeptInv'
  BY <1>1 DEF BotInv, KeptInv, NonePending
<1> QED
  BY <1>2, <1>3, <1>4, <1>5 DEF BotInv

\* The events the read loop and the end of a connection add come last.
LEMMA EmitKeeps ==
  ASSUME BotInv, NEW t \in EventTypes, NEW h \in Nat, events' = Append(events, <<t, h>>),
         t # "Sentry", UNCHANGED <<saving, sentryFile, latest, cut>>
  PROVE  OrderInv' /\ KeptInv'
<1>1. events \in Seq(EventTypes \X Nat) /\ <<t, h>> \in EventTypes \X Nat
  BY DEF BotInv, TypeInv
<1>2. /\ Len(events) \in Nat /\ DOMAIN events = 1..Len(events)
      /\ DOMAIN events' = 1..Len(events) + 1
      /\ \A k \in DOMAIN events : events'[k] = events[k]
      /\ events'[Len(events) + 1] = <<t, h>>
  BY <1>1, AppendFacts
<1>3. \A k \in DOMAIN events' : events'[k][1] = "Sentry" => k \in DOMAIN events
  BY <1>2
<1>4. OrderInv'
  BY <1>2, <1>3 DEF BotInv, OrderInv
<1>5. NonePending => NonePending'
  BY <1>2, <1>3 DEF NonePending
<1>6. KeptInv'
  BY <1>2, <1>5 DEF BotInv, KeptInv
<1> QED
  BY <1>4, <1>6

\* The connection ends: DisconnectedEvent is the last event of it.
LEMMA LoseStep ==
  ASSUME BotInv, Lose
  PROVE  BotInv'
<1>1. /\ link # "off" /\ link' = "off" /\ events' = Append(events, <<"Disconnected", 0>>)
      /\ UNCHANGED <<up, saving, sentryFile, latest, cut, idle, replayed>>
  BY DEF Lose
<1>2. OrderInv' /\ KeptInv'
  BY <1>1, EmitKeeps DEF EventTypes
<1>3. events \in Seq(EventTypes \X Nat) /\ <<"Disconnected", 0>> \in EventTypes \X Nat
  BY DEF BotInv, TypeInv, EventTypes
<1>4. /\ Len(events) \in Nat /\ DOMAIN events = 1..Len(events)
      /\ DOMAIN events' = 1..Len(events) + 1 /\ Len(events') = Len(events) + 1
      /\ \A k \in DOMAIN events : events'[k] = events[k]
      /\ events'[Len(events) + 1] = <<"Disconnected", 0>>
      /\ events' # <<>> /\ events' \in Seq(EventTypes \X Nat)
  BY <1>1, <1>3, AppendFacts
<1>5. TypeInv'
  BY <1>1, <1>4 DEF BotInv, TypeInv
<1>6. LinkInv'
  <2>1. \A k \in DOMAIN events : events[k][1] # "Disconnected"
    <3>1. CASE link = "connected"
      BY <3>1 DEF BotInv, LinkInv
    <3>2. CASE link = "loggedOn"
      BY <3>2 DEF BotInv, LinkInv
    <3> QED
      BY <1>1, <3>1, <3>2 DEF BotInv, TypeInv
  <2>2. \A k \in DOMAIN events' : events'[k][1] = "Disconnected" <=> k = Len(events')
    BY <1>4, <2>1
  <2>3. up /\ ~idle
    BY <1>1 DEF BotInv, LinkInv
  <2> QED
    BY <1>1, <1>4, <2>2, <2>3 DEF LinkInv
<1> QED
  BY <1>2, <1>5, <1>6 DEF BotInv

\* The read loop gets a server list.
LEMMA ListStep ==
  ASSUME BotInv, NEW n \in 0..1, ClientCMList(n)
  PROVE  BotInv'
<1>1. /\ link = "loggedOn" /\ link' = link /\ events' = Append(events, <<"CMList", n>>)
      /\ UNCHANGED <<up, saving, sentryFile, latest, cut, idle>> /\ n \in Nat
  BY DEF ClientCMList
<1>2. OrderInv' /\ KeptInv'
  BY <1>1, EmitKeeps DEF EventTypes
<1>3. events \in Seq(EventTypes \X Nat) /\ <<"CMList", n>> \in EventTypes \X Nat
  BY <1>1 DEF BotInv, TypeInv, EventTypes
<1>4. /\ Len(events) \in Nat /\ DOMAIN events = 1..Len(events)
      /\ DOMAIN events' = 1..Len(events) + 1
      /\ \A k \in DOMAIN events : events'[k] = events[k]
      /\ events'[Len(events) + 1] = <<"CMList", n>>
      /\ events' \in Seq(EventTypes \X Nat)
  BY <1>1, <1>3, AppendFacts
<1>5. TypeInv'
  BY <1>1, <1>4 DEF BotInv, TypeInv
<1>6. LinkInv'
  BY <1>1, <1>4 DEF BotInv, LinkInv
<1> QED
  BY <1>2, <1>5, <1>6 DEF BotInv

\* The read loop answers Steam with a hash: it is the latest, and its event the last.
LEMMA HashStep ==
  ASSUME BotInv, UpdateMachineAuth
  PROVE  BotInv'
<1>1. /\ link = "loggedOn" /\ link' = link /\ events' = Append(events, <<"Sentry", latest + 1>>)
      /\ UNCHANGED <<up, saving, sentryFile, cut, idle>> /\ latest \in Nat /\ latest' = latest + 1
  BY DEF UpdateMachineAuth, BotInv, TypeInv
<1>3. events \in Seq(EventTypes \X Nat) /\ <<"Sentry", latest + 1>> \in EventTypes \X Nat
  BY <1>1 DEF BotInv, TypeInv, EventTypes
<1>4. /\ Len(events) \in Nat /\ DOMAIN events = 1..Len(events)
      /\ DOMAIN events' = 1..Len(events) + 1
      /\ \A k \in DOMAIN events : events'[k] = events[k]
      /\ events'[Len(events) + 1] = <<"Sentry", latest + 1>>
      /\ events' \in Seq(EventTypes \X Nat)
  BY <1>1, <1>3, AppendFacts
<1>5. TypeInv'
  BY <1>1, <1>4 DEF BotInv, TypeInv
<1>6. LinkInv'
  BY <1>1, <1>4 DEF BotInv, LinkInv
<1>7. \A k \in DOMAIN events : events[k][2] \in Nat
  BY <1>3, <1>4
<1>8. saving[2] \in Nat
  BY DEF BotInv, TypeInv
<1>9. OrderInv'
  BY <1>1, <1>4, <1>7, <1>8 DEF BotInv, OrderInv
<1>10. KeptInv'
  BY <1>1, <1>4 DEF KeptInv
<1> QED
  BY <1>5, <1>6, <1>9, <1>10 DEF BotInv

-----------------------------------------------------------------------------
(* The event loop *)

\* The application takes the event at the head: the rest keeps its order, the connection
\* what is known of it.
LEMMA PollFacts ==
  ASSUME BotInv, NEW t, Event(t)
  PROVE  /\ events # <<>> /\ events[1][1] = t /\ Head(events) = events[1] /\ events[1][2] \in Nat
         /\ events' \in Seq(EventTypes \X Nat) /\ Len(events') = Len(events) - 1
         /\ Len(events) \in Nat \ {0} /\ DOMAIN events = 1..Len(events)
         /\ \A k \in DOMAIN events' : k \in 1..Len(events) - 1 /\ events'[k] = events[k + 1]
         /\ \A k \in DOMAIN events : k # 1 => k - 1 \in DOMAIN events' /\ events'[k - 1] = events[k]
         /\ up /\ saving = <<"nothing", 0>> /\ ~idle
<1>1. /\ events \in Seq(EventTypes \X Nat) /\ events # <<>> /\ Head(events)[1] = t
      /\ events' = Tail(events) /\ up /\ saving = <<"nothing", 0>> /\ ~idle
  BY DEF Event, BotInv, TypeInv, LinkInv, Nothing
<1>2. Head(events) = events[1] /\ 1 \in DOMAIN events
  BY <1>1, TailFacts
<1>3. events[1] \in EventTypes \X Nat
  BY <1>1, <1>2
<1>4. events[1][2] \in Nat
  BY <1>3
<1> QED
  BY <1>1, <1>2, <1>4, TailFacts

\* The events that are left keep their order.
LEMMA PollOrder ==
  ASSUME BotInv, NEW t, Event(t), latest' = latest
  PROVE  /\ \A k \in DOMAIN events' : events'[k][1] = "Sentry" => events'[k][2] <= latest'
         /\ \A j, k \in DOMAIN events' :
              j < k /\ events'[j][1] = "Sentry" /\ events'[k][1] = "Sentry"
                => events'[j][2] < events'[k][2]
<1>1. /\ Len(events) \in Nat \ {0} /\ DOMAIN events = 1..Len(events)
      /\ \A k \in DOMAIN events' : k \in 1..Len(events) - 1 /\ events'[k] = events[k + 1]
  BY PollFacts
<1>2. ASSUME NEW k \in DOMAIN events'
      PROVE  k + 1 \in DOMAIN events /\ events'[k] = events[k + 1] /\ k \in Int
  BY <1>1
<1>3. ASSUME NEW k \in DOMAIN events', events'[k][1] = "Sentry"
      PROVE  events'[k][2] <= latest'
  BY <1>2, <1>3 DEF BotInv, OrderInv
<1>4. ASSUME NEW j \in DOMAIN events', NEW k \in DOMAIN events', j < k,
             events'[j][1] = "Sentry", events'[k][1] = "Sentry"
      PROVE  events'[j][2] < events'[k][2]
  <2>1. j + 1 < k + 1
    BY <1>2, <1>4
  <2> QED
    BY <1>2, <1>4, <2>1 DEF BotInv, OrderInv
<1> QED
  BY <1>3, <1>4

\* An event other than a sentry event is taken: the hashes are where they were.
LEMMA PollKeeps ==
  ASSUME BotInv, NEW t, Event(t), t # "Sentry", UNCHANGED <<sentryFile, latest, cut>>,
         saving'[1] # "sentry"
  PROVE  OrderInv' /\ KeptInv'
<1>1. /\ events[1][1] = t /\ Len(events) \in Nat \ {0} /\ DOMAIN events = 1..Len(events)
      /\ \A k \in DOMAIN events' : k \in 1..Len(events) - 1 /\ events'[k] = events[k + 1]
      /\ \A k \in DOMAIN events : k # 1 => k - 1 \in DOMAIN events' /\ events'[k - 1] = events[k]
      /\ saving[1] = "nothing"
  BY PollFacts
<1>2. OrderInv'
  BY PollOrder DEF OrderInv
<1>3. KeptInv'
  <2>1. NonePending => NonePending'
    BY <1>1 DEF NonePending
  <2>2. (\E k \in DOMAIN events : events[k][1] = "Sentry" /\ events[k][2] = latest)
         => \E k \in DOMAIN events' : events'[k][1] = "Sentry" /\ events'[k][2] = latest
    BY <1>1
  <2> QED
    BY <1>1, <2>1, <2>2 DEF BotInv, KeptInv
<1> QED
  BY <1>2, <1>3

\* The event at the head, while a connection exists or not, leaves the queue as LinkInv
\* says; DisconnectedEvent is the last.
LEMMA PollLink ==
  ASSUME BotInv, NEW t, Event(t), t \in {"Sentry", "CMList"}, UNCHANGED <<up, link, idle>>
  PROVE  LinkInv'
<1>1. /\ events[1][1] = t /\ Len(events) \in Nat \ {0} /\ DOMAIN events = 1..Len(events)
      /\ \A k \in DOMAIN events' : k \in 1..Len(events) - 1 /\ events'[k] = events[k + 1]
      /\ up /\ ~idle /\ Len(events') = Len(events) - 1 /\ events' \in Seq(EventTypes \X Nat)
  BY PollFacts
<1>2. link # "connected"
  <2>1. link = "connected" => events[1] = <<"Connected", 0>>
    BY DEF BotInv, LinkInv
  <2> QED
    BY <1>1, <2>1
<1>3. CASE link = "loggedOn"
  BY <1>1, <1>3 DEF BotInv, LinkInv
<1>4. CASE link = "off"
  <2>1. \A k \in DOMAIN events : events[k][1] = "Disconnected" <=> k = Len(events)
    BY <1>1, <1>4 DEF BotInv, LinkInv
  <2>2. Len(events) # 1
    BY <1>1, <2>1
  <2>3. events' # <<>>
    BY <1>1, <2>2
  <2>4. \A k \in DOMAIN events' : events'[k][1] = "Disconnected" <=> k = Len(events')
    BY <1>1, <2>1
  <2> QED
    BY <1>1, <1>4, <2>3, <2>4 DEF LinkInv
<1> QED
  BY <1>2, <1>3, <1>4 DEF BotInv, TypeInv

\* ConnectedEvent is handled: it was the only event, and the logon has a connection, or
\* the connection has ended and DisconnectedEvent is left.
LEMMA ConnectedStep ==
  ASSUME BotInv, HandleConnected
  PROVE  BotInv'
<1>1. /\ Event("Connected")
      /\ UNCHANGED <<up, sentryFile, saving, idle, latest, cut>>
      /\ IF link = "connected" THEN link' = "loggedOn" ELSE link' = link
  BY DEF HandleConnected
<1>2. /\ events[1][1] = "Connected" /\ Len(events) \in Nat \ {0} /\ DOMAIN events = 1..Len(events)
      /\ \A k \in DOMAIN events' : k \in 1..Len(events) - 1 /\ events'[k] = events[k + 1]
      /\ up /\ ~idle /\ Len(events') = Len(events) - 1 /\ events' \in Seq(EventTypes \X Nat)
      /\ saving[1] = "nothing"
  BY <1>1, PollFacts
<1>3. OrderInv' /\ KeptInv'
  BY <1>1, <1>2, PollKeeps
<1>4. TypeInv'
  BY <1>1, <1>2 DEF BotInv, TypeInv
<1>5. LinkInv'
  <2>1. CASE link = "connected"
    <3>1. Len(events) = 1
      BY <2>1 DEF BotInv, LinkInv
    <3>2. DOMAIN events' = {}
      BY <1>2, <3>1
    <3> QED
      BY <1>1, <1>2, <2>1, <3>2 DEF LinkInv
  <2>2. link # "loggedOn"
    BY <1>2 DEF BotInv, LinkInv
  <2>3. CASE link = "off"
    <3>1. \A k \in DOMAIN events : events[k][1] = "Disconnected" <=> k = Len(events)
      BY <1>2, <2>3 DEF BotInv, LinkInv
    <3>2. Len(events) # 1
      BY <1>2, <3>1
    <3>3. events' # <<>>
      BY <1>2, <3>2
    <3>4. \A k \in DOMAIN events' : events'[k][1] = "Disconnected" <=> k = Len(events')
      BY <1>2, <3>1
    <3> QED
      BY <1>1, <1>2, <2>3, <3>3, <3>4 DEF LinkInv
  <2> QED
    BY <2>1, <2>2, <2>3 DEF BotInv, TypeInv
<1> QED
  BY <1>3, <1>4, <1>5 DEF BotInv

\* DisconnectedEvent is handled: no event is left, and the connection has ended.
LEMMA DisconnectedStep ==
  ASSUME BotInv, HandleDisconnected
  PROVE  BotInv'
<1>1. /\ Event("Disconnected") /\ idle' = TRUE
      /\ UNCHANGED <<up, sentryFile, saving, link, latest, cut>>
  BY DEF HandleDisconnected
<1>2. /\ events[1][1] = "Disconnected" /\ Len(events) \in Nat \ {0} /\ DOMAIN events = 1..Len(events)
      /\ up /\ ~idle /\ Len(events') = Len(events) - 1 /\ events' \in Seq(EventTypes \X Nat)
      /\ saving[1] = "nothing"
  BY <1>1, PollFacts
<1>3. OrderInv' /\ KeptInv'
  BY <1>1, <1>2, PollKeeps
<1>4. TypeInv'
  BY <1>1, <1>2 DEF BotInv, TypeInv
<1>5. LinkInv'
  <2>1. link # "connected"
    <3>1. link = "connected" => events[1] = <<"Connected", 0>>
      BY DEF BotInv, LinkInv
    <3> QED
      BY <1>2, <3>1
  <2>2. link # "loggedOn"
    BY <1>2 DEF BotInv, LinkInv
  <2>3. link = "off"
    BY <2>1, <2>2 DEF BotInv, TypeInv
  <2>4. Len(events) = 1
    BY <1>2, <2>3 DEF BotInv, LinkInv
  <2>5. events' = <<>>
    BY <1>2, <2>4
  <2> QED
    BY <1>1, <1>2, <2>3, <2>5 DEF LinkInv
<1> QED
  BY <1>3, <1>4, <1>5 DEF BotInv

\* A sentry event is handled: the save of its hash begins.
LEMMA SentryStep ==
  ASSUME BotInv, HandleSentry
  PROVE  BotInv'
<1> DEFINE h == events[1][2]
<1>1. /\ Event("Sentry") /\ UNCHANGED <<up, link, idle, latest, cut>>
      /\ saving' = <<"sentry", Head(events)[2]>> /\ sentryFile' = Truncated
  BY DEF HandleSentry
<1>2. /\ events[1][1] = "Sentry" /\ Len(events) \in Nat \ {0} /\ DOMAIN events = 1..Len(events)
      /\ \A k \in DOMAIN events' : k \in 1..Len(events) - 1 /\ events'[k] = events[k + 1]
      /\ \A k \in DOMAIN events : k # 1 => k - 1 \in DOMAIN events' /\ events'[k - 1] = events[k]
      /\ events' \in Seq(EventTypes \X Nat) /\ saving[1] = "nothing"
      /\ Head(events) = events[1] /\ h \in Nat
  BY <1>1, PollFacts
<1>3. saving' = <<"sentry", h>> /\ saving'[1] = "sentry" /\ saving'[2] = h
  BY <1>1, <1>2
<1>4. TypeInv'
  <2>1. saving' \in SavePhases \X Nat
    BY <1>2, <1>3 DEF SavePhases
  <2>2. sentryFile' \in Nat
    BY <1>1, BoundsAssumption DEF Truncated
  <2> QED
    BY <1>1, <1>2, <2>1, <2>2 DEF BotInv, TypeInv
<1>5. LinkInv'
  BY <1>1, PollLink
<1>6. 1 \in DOMAIN events /\ h <= latest
  BY <1>2 DEF BotInv, OrderInv
<1>7. ASSUME NEW k \in DOMAIN events', events'[k][1] = "Sentry"
      PROVE  h < events'[k][2] /\ events'[k][2] <= latest
  <2>1. k + 1 \in DOMAIN events /\ events'[k] = events[k + 1] /\ 1 < k + 1
    BY <1>2
  <2> QED
    BY <1>2, <1>6, <1>7, <2>1 DEF BotInv, OrderInv
<1>8. OrderInv'
  BY <1>1, <1>3, <1>6, <1>7, PollOrder DEF OrderInv
<1>9. KeptInv'
  <2>1. CASE cut
    BY <1>1, <2>1 DEF KeptInv
  <2>2. CASE ~cut
    <3>1. ~NonePending
      BY <1>2, <1>6 DEF NonePending
    <3>2. PICK k \in DOMAIN events : events[k][1] = "Sentry" /\ events[k][2] = latest
      BY <2>2, <3>1 DEF BotInv, KeptInv
    <3>3. CASE k = 1
      <4>1. h = latest /\ latest \in Nat
        BY <3>2, <3>3 DEF BotInv, TypeInv
      <4>2. NonePending'
        <5> SUFFICES ASSUME NEW m \in DOMAIN events', events'[m][1] = "Sentry" PROVE FALSE
          BY DEF NonePending
        <5>1. h < events'[m][2] /\ events'[m][2] <= h
          BY <1>7, <4>1
        <5>2. events'[m] \in EventTypes \X Nat
          BY <1>2
        <5>3. events'[m][2] \in Nat
          BY <5>2
        <5> QED
          BY <1>2, <5>1, <5>3
      <4> QED
        BY <1>1, <1>3, <4>1, <4>2 DEF KeptInv
    <3>4. CASE k # 1
      <4>1. k - 1 \in DOMAIN events' /\ events'[k - 1] = events[k]
        BY <1>2, <3>4
      <4> QED
        BY <1>1, <3>2, <4>1 DEF KeptInv
    <3> QED
      BY <3>3, <3>4
  <2> QED
    BY <2>1, <2>2
<1> QED
  BY <1>4, <1>5, <1>8, <1>9 DEF BotInv

\* A server list is handled: the save of the list begins.
LEMMA CMListStep ==
  ASSUME BotInv, HandleCMList
  PROVE  BotInv'
<1>1. /\ Event("CMList") /\ UNCHANGED <<up, link, idle, latest, cut, sentryFile>>
      /\ saving' = <<"list", Head(events)[2]>>
  BY DEF HandleCMList
<1>2. /\ events' \in Seq(EventTypes \X Nat) /\ Head(events)[2] \in Nat
  BY <1>1, PollFacts
<1>3. saving'[1] # "sentry" /\ saving' \in SavePhases \X Nat
  BY <1>1, <1>2 DEF SavePhases
<1>4. TypeInv'
  BY <1>1, <1>2, <1>3 DEF BotInv, TypeInv
<1>5. LinkInv'
  BY <1>1, PollLink
<1>6. OrderInv' /\ KeptInv'
  BY <1>1, <1>3, PollKeeps
<1> QED
  BY <1>4, <1>5, <1>6 DEF BotInv

\* A save ends: with the latest hash nothing is pending any more.
LEMMA WrittenStep ==
  ASSUME BotInv, Written
  PROVE  BotInv'
<1>1. /\ saving' = <<"nothing", 0>> /\ UNCHANGED <<up, link, idle, latest, events>>
      /\ \/ saving[1] = "sentry" /\ sentryFile' = saving[2] /\ cut' = (cut /\ saving[2] # latest)
         \/ saving[1] = "list" /\ UNCHANGED <<sentryFile, cut>>
      /\ saving[2] \in Nat /\ latest \in Nat
  BY DEF Written, Nothing, BotInv, TypeInv
<1>2. TypeInv'
  BY <1>1 DEF BotInv, TypeInv, SavePhases
<1>3. LinkInv'
  BY <1>1 DEF BotInv, LinkInv
<1>4. OrderInv'
  BY <1>1 DEF BotInv, OrderInv
<1>5. KeptInv'
  <2>1. NonePending' <=> NonePending
    BY <1>1 DEF NonePending
  <2>2. CASE saving[1] = "list"
    BY <1>1, <2>1, <2>2 DEF BotInv, KeptInv
  <2>3. CASE saving[1] = "sentry" /\ saving[2] = latest
    <3>1. NonePending
      <4> SUFFICES ASSUME NEW k \in DOMAIN events, events[k][1] = "Sentry" PROVE FALSE
        BY DEF NonePending
      <4>1. latest < events[k][2] /\ events[k][2] <= latest
        BY <2>3 DEF BotInv, OrderInv
      <4>2. events \in Seq(EventTypes \X Nat)
        BY DEF BotInv, TypeInv
      <4>3. events[k] \in EventTypes \X Nat
        BY <4>2
      <4>4. events[k][2] \in Nat
        BY <4>3
      <4> QED
        BY <1>1, <4>1, <4>4
    <3> QED
      BY <1>1, <2>1, <2>3, <3>1 DEF KeptInv
  <2>4. CASE saving[1] = "sentry" /\ saving[2] # latest
    BY <1>1, <2>4 DEF BotInv, KeptInv
  <2> QED
    BY <1>1, <2>2, <2>3, <2>4
<1> QED
  BY <1>2, <1>3, <1>4, <1>5 DEF BotInv

-----------------------------------------------------------------------------
(* The theorems *)

\* Every step keeps the inductive invariant.
LEMMA BotNext == BotInv /\ [Next]_vars => BotInv'
<1> SUFFICES ASSUME BotInv, [Next]_vars PROVE BotInv'
  OBVIOUS
<1>1. CASE UNCHANGED vars
  BY <1>1 DEF vars, BotInv, TypeInv, LinkInv, OrderInv, KeptInv, NonePending
<1>2. CASE Restart
  BY <1>2 DEF Restart, BotInv, TypeInv, LinkInv, OrderInv, KeptInv, NonePending
<1>3. CASE AskDirectory \/ Initialize
  BY <1>3 DEF AskDirectory, Initialize, BotInv, TypeInv, LinkInv, OrderInv, KeptInv, NonePending
<1>4. CASE ConnectPanics \/ Crash
  BY <1>4, EndStep DEF ConnectPanics, Crash
<1> QED
  BY <1>1, <1>2, <1>3, <1>4, ConnectStep, ConnectedStep, DisconnectedStep, SentryStep, CMListStep,
     WrittenStep, HashStep, LoseStep, ListStep DEF Next

\* BotInv is an invariant of the bot.
THEOREM BotInvariant == Spec => []BotInv
  BY BotInit, BotNext, PTL DEF Spec

\* Every logon carries the hash Steam was last told, unless the program ended before it was
\* saved, over any number of connections and restarts (auth.go:293-295, gsbot.go:66-88).
THEOREM LogOnCarriesHash == Spec => SentryReplayed
<1>1. ASSUME BotInv, HandleConnected, link' = "loggedOn"
      PROVE  replayed' \/ cut
  <2>1. /\ Event("Connected") /\ latest' = latest /\ events[1][1] = "Connected"
        /\ saving = <<"nothing", 0>> /\ 1 \in DOMAIN events
    BY <1>1, PollFacts DEF HandleConnected
  <2>2. link = "connected"
    BY <1>1, <2>1 DEF HandleConnected, BotInv, LinkInv
  <2>3. events = <<<<"Connected", 0>>>>
    BY <2>2, <1>1 DEF BotInv, LinkInv
  <2>4. \A k \in DOMAIN events : events[k][1] # "Sentry"
    BY <2>3
  <2>5. cut \/ sentryFile = latest
    BY <1>1, <2>1, <2>4 DEF BotInv, KeptInv
  <2> QED
    BY <1>1, <2>2, <2>5 DEF HandleConnected, SentryFileHash
<1>2. BotInv /\ [Next]_vars => [HandleConnected /\ link' = "loggedOn" => replayed' \/ cut]_vars
  BY <1>1
<1> QED
  BY <1>2, BotInvariant, PTL DEF Spec, SentryReplayed
=============================================================================
