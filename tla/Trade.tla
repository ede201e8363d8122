-------------------------------- MODULE Trade --------------------------------
(***************************************************************************)
(* A trade.Trade (trade/trade.go, trade/actions.go): one goroutine polls   *)
(* the status of the trade and acts in it, over HTTP.  Steam keeps a log   *)
(* of what both parties do; the client asks for the part from its LogPos   *)
(* on, queues the partner's events and hands them out.                     *)
(*                                                                         *)
(* A request that fails, and a status that is not successful, leave the    *)
(* Trade as it is (action drops the error of onStatus), so a Poll that     *)
(* meets them is a stuttering step; an action may have reached the server  *)
(* all the same.                                                           *)
(***************************************************************************)
EXTENDS Integers, Sequences, FiniteSets, SequencesExt, FiniteSetsExt

CONSTANTS
  Outcomes,    \* the ways the server may end the trade
  MaxLog,      \* bound: entries of the server's log
  MaxQueued    \* bound: events queued before the client acts again

Statuses == {"Open", "Complete", "Empty", "Cancelled", "Timeout", "Failed"}
ASSUME OutcomesAssumption == Outcomes \subseteq Statuses \ {"Open"}
ASSUME LogAssumption      == MaxLog \in Nat /\ MaxQueued \in Nat \ {0}

\* AddItem stands for the other actions that are handed out as an event of their own:
\* RemoveItem, SetCurrency, ChatMessage.  Accept is logged and not handed out.
Acts      == {"AddItem", "Ready", "Unready", "Accept"}
Visible   == Acts \ {"Accept"}
Entries   == [who : {"me", "them"}, act : Acts]
Positions == 0..MaxLog - 1
Ended(s)  == [pos |-> -1, act |-> s]
Queueable == [pos : Positions, act : Visible] \cup {Ended(s) : s \in Statuses}

VARIABLES
  LogPos, Version,      \* t.api.LogPos, t.api.Version
  MeReady, ThemReady,   \* t.MeReady, t.ThemReady
  queuedEvents,         \* t.queuedEvents; nil and empty are the same here
  log, version,         \* the server's log and version of the trade
  ready,                \* the server's view of who is ready
  status,               \* the server's status of the trade
  seen,                 \* history: the positions that were handed out
  ended,                \* history: a TradeEndedEvent was handed out
  mixed                 \* history: one status held several Ready or Unready of the partner

serverVars == <<log, version, ready, status>>
stateVars  == <<LogPos, Version, MeReady, ThemReady>>
vars == <<stateVars, serverVars, queuedEvents, seen, ended, mixed>>

TypeOK ==
  /\ LogPos \in 0..MaxLog /\ Version \in 1..MaxLog + 1
  /\ MeReady \in BOOLEAN /\ ThemReady \in BOOLEAN
  /\ queuedEvents \in Seq(Queueable)
  /\ log \in Seq(Entries) /\ Len(log) <= MaxLog
  /\ version \in 1..MaxLog + 1
  /\ ready \in [{"me", "them"} -> BOOLEAN]
  /\ status \in Statuses
  /\ seen \subseteq Positions
  /\ ended \in BOOLEAN /\ mixed \in BOOLEAN

Init ==
  /\ LogPos = 0 /\ Version = 1
  /\ MeReady = FALSE /\ ThemReady = FALSE
  /\ queuedEvents = <<>>
  /\ log = <<>> /\ version = 1
  /\ ready = [w \in {"me", "them"} |-> FALSE]
  /\ status = "Open"
  /\ seen = {}
  /\ ended = FALSE /\ mixed = FALSE

-----------------------------------------------------------------------------
(* The server *)

\* A party does something: the log grows, an item makes a new version.
Do(w, a) ==
  /\ status = "Open" /\ Len(log) < MaxLog
  /\ log' = Append(log, [who |-> w, act |-> a])
  /\ version' = IF a = "AddItem" THEN version + 1 ELSE version
  /\ ready' = [ready EXCEPT ![w] = CASE a = "Ready" -> TRUE [] a = "Unready" -> FALSE
                                     [] OTHER -> @]
  /\ UNCHANGED status

PartnerActs(a) == Do("them", a) /\ UNCHANGED <<stateVars, queuedEvents, seen, ended, mixed>>

EndTrade ==
  /\ status = "Open"
  /\ status' \in Outcomes
  /\ UNCHANGED <<stateVars, log, version, ready, queuedEvents, seen, ended, mixed>>

\* The log positions of a status: from the position the request named, or from the start
\* when the request names none.
EventsFrom(from) == {i \in Positions : i >= from /\ i < Len(log')}
Entry(i) == log'[i + 1]

-----------------------------------------------------------------------------
(* onStatus *)

\* The TradeEndedEvent a status is turned into, if any, and a variant that forgets one.
EndReasonsNoTimeout == {"Complete", "Cancelled", "Failed"}
EndReasons == {"Complete", "Cancelled", "Timeout", "Failed"}
EndEvents == IF status' \in EndReasons THEN <<Ended(status')>> ELSE <<>>

\* Variant for mutation: own events are handed out too.
FreshOfBoth(S) == {i \in S : i >= LogPos}
\* The events updateEvents does not skip.
Fresh(S) == {i \in S : i >= LogPos /\ Entry(i).who = "them"}

\* Variant for mutation: the position of the last entry, read or not, counts.
NextLogPosLen(S) == IF S = {} THEN LogPos ELSE Len(log') + 1
\* lastLogPos starts at 0 and takes the partner's entries only.
NextLogPos(S) == IF S = {} THEN LogPos ELSE Max(Fresh(S) \cup {0}) + 1

\* The entries that become an event, in an order in which Go happens to range over the map
\* of the entries that are not skipped.  An Accept is passed over wherever it comes.
Orders(S) == SetToSeqs({i \in Fresh(S) : Entry(i).act \in Visible})
Toggles(order) == {k \in DOMAIN order : Entry(order[k]).act \in {"Ready", "Unready"}}

\* Variant for mutation: Unready is not handled.
ReadyOnly(order, before) == before \/ \E k \in DOMAIN order : Entry(order[k]).act = "Ready"
\* ThemReady after the entries were handled in this order.
ReadyAfter(order, before) ==
  IF Toggles(order) = {} THEN before ELSE Entry(order[Max(Toggles(order))]).act = "Ready"

\* The events of an order of positions.
Handed(order) == [k \in DOMAIN order |-> [pos |-> order[k], act |-> Entry(order[k]).act]]

\* onStatus with the entries S; new is status.NewVersion, order one of Orders(S).
OnStatus(S, new, order) ==
  /\ LogPos' = NextLogPos(S)
  /\ Version' = IF new THEN version' ELSE Version
  /\ MeReady' = IF new THEN ready'["me"] ELSE MeReady
  /\ ThemReady' = ReadyAfter(order, IF new THEN ready'["them"] ELSE ThemReady)
  /\ mixed' = (mixed \/ \E j, k \in Toggles(order) : j # k)

-----------------------------------------------------------------------------
(* The client *)

\* Events returns the queue and clears it.
HandOut(batch) ==
  /\ seen' = seen \cup {i \in Positions : \E k \in DOMAIN batch : batch[k].pos = i}
  /\ ended' = (ended \/ \E k \in DOMAIN batch : batch[k].pos = -1)
  /\ queuedEvents' = <<>>

\* Poll and Events with events in the queue.
PollQueued ==
  /\ queuedEvents # <<>>
  /\ HandOut(queuedEvents)
  /\ UNCHANGED <<stateVars, serverVars, mixed>>

\* Poll with an empty queue: GetStatus names LogPos and Version.
PollStatus ==
  /\ queuedEvents = <<>>
  /\ UNCHANGED serverVars
  /\ LET S == EventsFrom(LogPos) IN
     \E order \in Orders(S) :
       /\ OnStatus(S, version # Version, order)
       /\ HandOut(EndEvents \o Handed(order))

\* action: the status is queued and not handed out.  AddItem, RemoveItem, SetCurrency and
\* Cancel name neither LogPos nor Version, SetReady and Confirm name Version, Chat both.
QueueStatus ==
  /\ Len(queuedEvents) < MaxQueued
  /\ \E S \in {EventsFrom(0), EventsFrom(LogPos)}, new \in {version' # Version, FALSE} :
       \E order \in Orders(S) :
         /\ OnStatus(S, new, order)
         /\ queuedEvents' = queuedEvents \o (EndEvents \o Handed(order))
  /\ UNCHANGED <<seen, ended>>

\* AddItem, RemoveItem, Chat, SetCurrency, SetReady, Confirm
Act(a) == Do("me", a) /\ QueueStatus

Cancel ==
  /\ status = "Open" /\ status' = "Cancelled"
  /\ UNCHANGED <<log, version, ready>>
  /\ QueueStatus

\* An action after the end of the trade changes nothing at the server.
ActLate ==
  /\ status # "Open" /\ UNCHANGED serverVars
  /\ QueueStatus

\* The request was carried out and its response is lost.
ActLost(a) == Do("me", a) /\ UNCHANGED <<stateVars, queuedEvents, seen, ended, mixed>>

-----------------------------------------------------------------------------
(* The specification *)

Poll == PollQueued \/ PollStatus

Next == \/ Poll
        \/ \E a \in Acts : PartnerActs(a) \/ Act(a) \/ ActLost(a)
        \/ Cancel \/ ActLate
        \/ EndTrade

Spec == Init /\ [][Next]_vars

\* The application keeps polling, as the package asks, and now and then a poll succeeds.
FairSpec == Spec /\ WF_vars(Poll)

-----------------------------------------------------------------------------
(* Properties *)

\* Where an entry of the log can be found on the client's side.
IsQueued(i) == \E k \in DOMAIN queuedEvents : queuedEvents[k].pos = i

\* LogPos never runs ahead of what was handled: each of the partner's entries before it was
\* queued or handed out, although LogPos is computed from the partner's entries only and
\* responses to actions overlap those to polls (trade/trade.go:75-118).
NothingSkipped ==
  \A i \in Positions :
    i < LogPos /\ i < Len(log) /\ log[i + 1].who = "them" /\ log[i + 1].act \in Visible
      => i \in seen \/ IsQueued(i)

\* What is queued is what the partner did, never an own action (trade/trade.go:85).
OnlyPartner ==
  \A k \in DOMAIN queuedEvents : queuedEvents[k].pos >= 0 =>
    log[queuedEvents[k].pos + 1] = [who |-> "them", act |-> queuedEvents[k].act]

\* ThemReady is what the server says of the partner once the partner's last toggle was
\* read, whether it came with an action's response, a poll or a new version, late or again.
\* The exception is mixed: entries of one status are handled in the order in which Go
\* ranges over a map, and two toggles of it may be applied the wrong way round
\* (trade/trade.go:81-103).
ReadyAgrees ==
  ~mixed /\ (\A i \in Positions : i < Len(log) /\ log[i + 1].who = "them"
                /\ log[i + 1].act \in {"Ready", "Unready"} => i < LogPos)
    => ThemReady = ready["them"]

\* Everything the partner did is handed out to an application that keeps polling.
AllHandedOut ==
  \A i \in Positions :
    (i < Len(log) /\ log[i + 1].who = "them" /\ log[i + 1].act \in Visible) ~> (i \in seen)

\* The end of a trade is handed out to an application that keeps polling, whatever the
\* partner and the application do meanwhile, except the end of a trade in which no items
\* were traded (trade/trade.go:56-69, trade/tradeapi/status.go:28).
KnownEndIsHandedOut == (status \notin {"Open", "Empty"}) ~> ended
=============================================================================
