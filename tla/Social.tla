------------------------------- MODULE Social --------------------------------
(***************************************************************************)
(* The caches of social.go and socialcache, and notifications.go.  The     *)
(* read loop handles one packet after the other; each handler is the       *)
(* sequence of its effects, and the application, which folds the events    *)
(* into a view of its own, runs between any two of them.  The server is    *)
(* external: it tells a client that is logged on of every change, in       *)
(* order, and a connection may be lost with all that is under way.         *)
(*                                                                         *)
(* As in Session, the application connects again once the read loop of the *)
(* previous connection has returned.  Of the data, relationships, names    *)
(* and members are kept: avatars, game and persona states are handled like *)
(* names, and the member counts of a group like its name.                  *)
(***************************************************************************)
EXTENDS SteamId, SequencesExt

CONSTANTS
  Own,          \* the SteamId of the client's account
  Users,        \* SteamIds of other users
  Clan,         \* the SteamId of a group, which has a chat room
  Notices,      \* the types of notifications
  StateChanges, \* what may happen to a member of the room, see EChatMemberStateChange
  EventCap,     \* capacity of events (3 in the code)
  MaxChanges,   \* bound: changes on the server and requests of the application
  MaxSessions   \* bound: logons

\* A group's id has the instance 0, which ChatToClan restores.
ASSUME IdsAssumption ==
  /\ \A u \in Users \cup {Own} : GetAccountType(u) = IndividualType
  /\ Own \notin Users
  /\ Clan \in Nat /\ GetAccountType(Clan) = ClanType /\ GetAccountInstance(Clan) = 0
ASSUME FiniteAssumption == IsFiniteSet(Users) /\ IsFiniteSet(Notices)
ASSUME ChangesAssumption ==
  StateChanges \subseteq {"Entered", "Left", "Disconnected", "Kicked", "Banned", "VoiceSpeaking"}
ASSUME EventCapAssumption == EventCap \in Nat \ {0}
ASSUME BoundsAssumption == MaxChanges \in Nat /\ MaxSessions \in Nat

Related == Users \cup {Clan}
Room    == ClanToChat(Clan)
Rels    == {"None", "Recipient", "Friend"}
Names   == {"a", "b"}
Blank   == "blank"  \* the empty name
Counts  == 0..1
Removals == {"Left", "Disconnected", "Kicked", "Banned"}

VARIABLES
  friends, groups,  \* s.Friends, s.Groups: SteamId -> [rel, name]
  chats,            \* s.Chats: SteamId -> [group, members]
  ownName,          \* s.name
  notifications,    \* n.notifications: type -> count
  todo,             \* the effects the read loop's handler has still to carry out
  events,           \* c.events
  view,             \* the application's friends and groups
  badge,            \* the application's counts, a type without one has none
  out,              \* messages on their way to the server
  wire,             \* packets on their way to the client
  online,           \* the server: the client is logged on
  relation, persona, members, inRoom,   \* the server's truth
  stale, staleRoom, \* history: what the caches still held of earlier visits
  listed,           \* history: the ids of the last full list, without those removed since
  lastCounts,       \* history: the counts of the last notifications packet read
  changes, sessions \* counters

cacheVars  == <<friends, groups, chats, ownName, notifications>>
appVars    == <<view, badge>>
serverVars == <<online, relation, persona, members, inRoom>>
histVars   == <<stale, staleRoom, listed, lastCounts>>
countVars  == <<changes, sessions>>
vars == <<cacheVars, todo, events, appVars, out, wire, serverVars, histVars, countVars>>

Empty == [x \in {} |-> x]

Init ==
  /\ friends = Empty /\ groups = Empty /\ chats = Empty /\ notifications = Empty
  /\ ownName = Blank
  /\ todo = <<>> /\ events = <<>> /\ view = {} /\ badge = Empty /\ out = <<>> /\ wire = <<>>
  /\ online = FALSE /\ inRoom = FALSE /\ members = {} /\ lastCounts = Empty
  /\ relation = [i \in Related |-> "None"]
  /\ persona = [i \in Related \cup {Own} |-> "a"]
  /\ stale = {} /\ staleRoom = {} /\ listed = {}
  /\ changes = 0 /\ sessions = 0

-----------------------------------------------------------------------------
(* The handlers, as sequences of effects *)

Eff(do, id, val) == [do |-> do, id |-> id, val |-> val]
Emit(e, id, val) == [do |-> "emit", event |-> e, id |-> id, val |-> val]

\* An effect, or an event, for every entry of a map, in some order.
Effs(do, map) ==
  LET s == SetToSeq(DOMAIN map) IN [k \in 1..Len(s) |-> Eff(do, s[k], map[s[k]])]
Emits(e, map) ==
  LET s == SetToSeq(DOMAIN map) IN [k \in 1..Len(s) |-> Emit(e, s[k], map[s[k]])]
\* Every effect followed by its event.
Pairs(effs, emits) ==
  [k \in 1..2 * Len(effs) |-> IF k % 2 = 1 THEN effs[(k + 1) \div 2] ELSE emits[k \div 2]]

Relations(p) == Effs("relate", p.rels)
RelationEvents(p) == Pairs(Relations(p), Emits("State", p.rels))

\* Variant for mutation: the information of friends already in the cache is not asked for.
AskNewOnly(p) ==
  IF p.incremental THEN RelationEvents(p)
  ELSE Relations(p) \o <<Eff("ask", DOMAIN p.rels \ (DOMAIN friends \cup DOMAIN groups), Blank),
                         Emit("FriendsList", Own, Blank)>>
\* Variant for mutation: the FriendsListEvent comes before the friends.
EmitFirst(p) ==
  IF p.incremental THEN RelationEvents(p)
  ELSE <<Emit("FriendsList", Own, Blank)>> \o Relations(p) \o <<Eff("ask", DOMAIN p.rels, Blank)>>
\* An incremental list has an event per entry, a full one a request and one event.
handleFriendsList(p) ==
  IF p.incremental THEN RelationEvents(p)
  ELSE Relations(p) \o <<Eff("ask", DOMAIN p.rels, Blank), Emit("FriendsList", Own, Blank)>>

\* handlePersonaState, for one friend of the packet: a blank name is not stored.
handlePersonaState(p) ==
  (IF p.name = Blank THEN <<>> ELSE <<Eff("name", p.id, p.name)>>)
  \o <<Emit("Other", p.id, Blank)>>

\* handleClanState, with a NameInfo.
handleClanState(p) == <<Eff("name", p.id, p.name), Emit("Other", p.id, Blank)>>

\* handleAccountInfo: the client's own persona is asked for.
handleAccountInfo == <<Eff("ask", {Own}, Blank)>>

handleChatEnter(p) ==
  <<Eff("chat", p.room, p.clan)>>
  \o (LET s == SetToSeq(p.members) IN [k \in 1..Len(s) |-> Eff("enter", p.room, s[k])])
  \o <<Emit("Other", p.room, Blank)>>

\* Variant for mutation: a member who is disconnected stays.
handleMemberStays(p) ==
  (IF p.state = "Entered" THEN <<Eff("enter", p.room, p.id)>>
   ELSE IF p.state \in Removals \ {"Disconnected"} THEN <<Eff("leave", p.room, p.id)>> ELSE <<>>)
  \o <<Emit("Other", p.room, Blank)>>
handleChatMemberInfo(p) ==
  (IF p.state = "Entered" THEN <<Eff("enter", p.room, p.id)>>
   ELSE IF p.state \in Removals THEN <<Eff("leave", p.room, p.id)>> ELSE <<>>)
  \o <<Emit("Other", p.room, Blank)>>

\* The types of the map that are not in the packet count nothing.
Unlisted(p) == [t \in DOMAIN notifications \ DOMAIN p.counts |-> 0]
\* Variant for mutation: types that are not in the packet are forgotten without an event.
NotifyListed(p) ==
  Pairs(Effs("count", p.counts), Emits("Notification", p.counts)) \o Effs("delete", Unlisted(p))
\* The listed types, then the types of the map that are not in the packet.
handleClientUserNotifications(p) ==
  Pairs(Effs("count", p.counts), Emits("Notification", p.counts))
  \o Pairs(Effs("delete", Unlisted(p)), Emits("Notification", Unlisted(p)))

HandlePacket(p) ==
  IF p.emsg = "FriendsList" THEN handleFriendsList(p)
  ELSE IF p.emsg = "PersonaState" THEN handlePersonaState(p)
  ELSE IF p.emsg = "ClanState" THEN handleClanState(p)
  ELSE IF p.emsg = "AccountInfo" THEN handleAccountInfo
  ELSE IF p.emsg = "ChatEnter" THEN handleChatEnter(p)
  ELSE IF p.emsg = "ChatMember" THEN handleChatMemberInfo(p)
  ELSE handleClientUserNotifications(p)

\* The read loop takes the next packet once the handler of the last one has returned.
Read ==
  /\ todo = <<>> /\ wire # <<>>
  /\ todo' = HandlePacket(Head(wire)) /\ wire' = Tail(wire)
  /\ LET p == Head(wire) IN
       /\ lastCounts' = IF p.emsg = "Notifications" THEN p.counts ELSE lastCounts
       /\ listed' = IF p.emsg = "FriendsList" /\ ~p.incremental THEN DOMAIN p.rels ELSE listed
  /\ UNCHANGED <<cacheVars, events, appVars, out, serverVars, stale, staleRoom, countVars>>

-----------------------------------------------------------------------------
(* The effects *)

Now(do) == todo # <<>> /\ Head(todo).do = do /\ todo' = Tail(todo)
E == Head(todo)

With(cache, id, val) == [x \in DOMAIN cache \cup {id} |-> IF x = id THEN val ELSE cache[x]]
Without(cache, id) == [x \in DOMAIN cache \ {id} |-> cache[x]]

\* Add never overwrites an entry; Remove.
Added(cache, id, val) == IF id \in DOMAIN cache THEN cache ELSE With(cache, id, val)
Relate(cache, id, rel) ==
  IF rel = "None" THEN Without(cache, id)
  ELSE Added(cache, id, [rel |-> rel, name |-> Blank])

StoreRelation ==
  /\ Now("relate")
  /\ IF GetAccountType(E.id) = ClanType
     THEN groups' = Relate(groups, E.id, E.val) /\ UNCHANGED friends
     ELSE friends' = Relate(friends, E.id, E.val) /\ UNCHANGED groups
  /\ listed' = IF E.val = "None" THEN listed \ {E.id} ELSE listed
  /\ UNCHANGED <<chats, ownName, notifications, events, appVars, out, wire, serverVars, stale,
                 staleRoom, lastCounts, countVars>>

\* The setters of the caches ignore an id they do not hold.
Named(cache, id, name) ==
  IF id \in DOMAIN cache THEN [cache EXCEPT ![id].name = name] ELSE cache

StoreName ==
  /\ Now("name")
  /\ IF E.id = Own THEN ownName' = E.val /\ UNCHANGED <<friends, groups>>
     ELSE IF GetAccountType(E.id) = IndividualType
          THEN friends' = Named(friends, E.id, E.val) /\ UNCHANGED <<groups, ownName>>
          ELSE groups' = Named(groups, E.id, E.val) /\ UNCHANGED <<friends, ownName>>
  /\ UNCHANGED <<chats, notifications, events, appVars, out, wire, serverVars, histVars,
                 countVars>>

\* Chats.Add, AddChatMember (which makes a chat that is missing), RemoveChatMember.
AddChat(id, clan) == Added(chats, id, [group |-> clan, members |-> {}])
AddChatMember(id, m) ==
  [Added(chats, id, [group |-> 0, members |-> {}]) EXCEPT ![id].members = @ \cup {m}]
RemoveChatMember(id, m) ==
  IF id \in DOMAIN chats THEN [chats EXCEPT ![id].members = @ \ {m}] ELSE chats

StoreChat ==
  /\ \/ Now("chat")  /\ chats' = AddChat(E.id, E.val)
     \/ Now("enter") /\ chats' = AddChatMember(E.id, E.val)
     \/ Now("leave") /\ chats' = RemoveChatMember(E.id, E.val)
  /\ UNCHANGED <<friends, groups, ownName, notifications, events, appVars, out, wire,
                 serverVars, histVars, countVars>>

StoreCount ==
  /\ \/ Now("count")  /\ notifications' = With(notifications, E.id, E.val)
     \/ Now("delete") /\ notifications' = Without(notifications, E.id)
  /\ UNCHANGED <<friends, groups, chats, ownName, events, appVars, out, wire, serverVars,
                 histVars, countVars>>

\* c.Write: ignored without a connection.
Write(m) == out' = IF online THEN Append(out, m) ELSE out

RequestFriendListInfo ==
  /\ Now("ask") /\ Write([emsg |-> "Ask", ids |-> E.id])
  /\ UNCHANGED <<cacheVars, events, appVars, wire, serverVars, histVars, countVars>>

EmitEvent ==
  /\ Now("emit") /\ Len(events) < EventCap
  /\ events' = Append(events, E)
  /\ UNCHANGED <<cacheVars, appVars, out, wire, serverVars, histVars, countVars>>

-----------------------------------------------------------------------------
(* The application *)

\* It takes an event.  A FriendsListEvent makes it copy the lists, another event is applied
\* to what it has.
Poll ==
  /\ events # <<>> /\ events' = Tail(events)
  /\ LET e == Head(events) IN
       /\ view' = IF e.event = "FriendsList" THEN DOMAIN friends \cup DOMAIN groups
                  ELSE IF e.event # "State" THEN view
                  ELSE IF e.val = "None" THEN view \ {e.id} ELSE view \cup {e.id}
       /\ badge' = IF e.event = "Notification" THEN With(badge, e.id, e.val) ELSE badge
  /\ UNCHANGED <<cacheVars, todo, out, wire, serverVars, histVars, countVars>>

Change == changes < MaxChanges /\ changes' = changes + 1 /\ UNCHANGED sessions

\* SetPersonaName: the name is stored and sent, even when nothing is connected.
SetPersonaName(name) ==
  /\ Change /\ ownName' = name
  /\ Write([emsg |-> "ChangeStatus", name |-> name])
  /\ UNCHANGED <<friends, groups, chats, notifications, todo, events, appVars, wire,
                 serverVars, histVars>>

\* JoinChat and LeaveChat, of a group's id.
JoinChat ==
  /\ Change /\ Write([emsg |-> "Join", room |-> ClanToChat(Clan)])
  /\ UNCHANGED <<cacheVars, todo, events, appVars, wire, serverVars, histVars>>
LeaveChat ==
  /\ Change /\ Write([emsg |-> "Leave", room |-> ClanToChat(Clan)])
  /\ UNCHANGED <<cacheVars, todo, events, appVars, wire, serverVars, histVars>>

-----------------------------------------------------------------------------
(* The server *)

Send(ps) == wire' = IF online THEN wire \o ps ELSE wire
PersonaOf(i, name) == [emsg |-> "PersonaState", id |-> i, name |-> name]
Friendly == {i \in Related : relation[i] # "None"}
Cached == DOMAIN friends \cup DOMAIN groups
CachedMembers == IF Room \in DOMAIN chats THEN chats[Room].members ELSE {}

\* A logon: the account's information and the full list.  What the caches hold beyond it
\* stays in them, no packet speaks of it.
LogOn ==
  /\ ~online /\ todo = <<>> /\ sessions < MaxSessions
  /\ online' = TRUE /\ sessions' = sessions + 1 /\ listed' = {}
  /\ wire' = <<[emsg |-> "AccountInfo"],
               [emsg |-> "FriendsList", incremental |-> FALSE,
                rels |-> [i \in Friendly |-> relation[i]]]>>
  /\ stale' = Cached \ Friendly /\ staleRoom' = CachedMembers
  /\ UNCHANGED <<cacheVars, todo, events, appVars, out, relation, persona, members, inRoom,
                 lastCounts, changes>>

\* The connection is lost with what is under way in both directions.
Drop ==
  /\ online /\ online' = FALSE /\ inRoom' = FALSE /\ wire' = <<>> /\ out' = <<>>
  /\ UNCHANGED <<cacheVars, todo, events, appVars, relation, persona, members, histVars,
                 countVars>>

SetRelation(i, r) ==
  /\ Change /\ r # relation[i] /\ relation' = [relation EXCEPT ![i] = r]
  /\ Send(<<[emsg |-> "FriendsList", incremental |-> TRUE, rels |-> [j \in {i} |-> r]]>>)
  /\ stale' = IF online THEN stale \ {i} ELSE stale
  /\ UNCHANGED <<cacheVars, todo, events, appVars, out, online, persona, members, inRoom,
                 staleRoom, listed, lastCounts>>

\* A new name, or another change of a persona, which is sent without the name.
SetPersona(i, name) ==
  /\ Change /\ i \in Friendly \cup {Own} /\ name # persona[i]
  /\ persona' = IF name = Blank THEN persona ELSE [persona EXCEPT ![i] = name]
  /\ Send(IF i = Clan /\ name # Blank THEN <<[emsg |-> "ClanState", id |-> i, name |-> name]>>
          ELSE <<PersonaOf(i, name)>>)
  /\ UNCHANGED <<cacheVars, todo, events, appVars, out, online, relation, members, inRoom,
                 histVars>>

\* A user enters or leaves the chat room, or something happens that leaves her in it.
SetMember(u, state) ==
  /\ Change /\ (u \in members) # (state = "Entered")
  /\ members' = IF state = "Entered" THEN members \cup {u}
                ELSE IF state \in Removals THEN members \ {u} ELSE members
  /\ wire' = IF inRoom THEN Append(wire, [emsg |-> "ChatMember", room |-> Room, id |-> u,
                                          state |-> state])
             ELSE wire
  /\ staleRoom' = IF inRoom /\ members' # members THEN staleRoom \ {u} ELSE staleRoom
  /\ UNCHANGED <<cacheVars, todo, events, appVars, out, online, relation, persona, inRoom,
                 stale, listed, lastCounts>>

Notify(T, n) ==
  /\ Change /\ online
  /\ Send(<<[emsg |-> "Notifications", counts |-> [t \in T |-> n]]>>)
  /\ UNCHANGED <<cacheVars, todo, events, appVars, out, serverVars, histVars>>

\* The server takes a message.
Serve ==
  /\ out # <<>> /\ out' = Tail(out)
  /\ LET m == Head(out) IN
     \/ /\ m.emsg = "Ask"
        /\ Send(LET s == SetToSeq(m.ids) IN [k \in 1..Len(s) |-> PersonaOf(s[k], persona[s[k]])])
        /\ UNCHANGED <<persona, inRoom, staleRoom>>
     \/ /\ m.emsg = "ChangeStatus" /\ persona' = [persona EXCEPT ![Own] = m.name]
        /\ Send(<<PersonaOf(Own, m.name)>>) /\ UNCHANGED <<inRoom, staleRoom>>
     \/ /\ m.emsg = "Join" /\ m.room = Room /\ inRoom' = TRUE
        /\ Send(<<[emsg |-> "ChatEnter", room |-> Room, clan |-> Clan, members |-> members]>>)
        /\ UNCHANGED <<persona, staleRoom>>
     \/ /\ m.emsg = "Leave" /\ m.room = Room /\ inRoom' = FALSE
        /\ staleRoom' = IF inRoom THEN staleRoom \cup members ELSE staleRoom
        /\ UNCHANGED <<persona, wire>>
  /\ UNCHANGED <<cacheVars, todo, events, appVars, online, relation, members, stale, listed,
                 lastCounts, countVars>>

-----------------------------------------------------------------------------
ReaderStep ==
  Read \/ StoreRelation \/ StoreName \/ StoreChat \/ StoreCount \/ RequestFriendListInfo \/ EmitEvent

Next ==
  \/ ReaderStep \/ Poll \/ LogOn \/ Drop \/ Serve \/ JoinChat \/ LeaveChat
  \/ \E name \in Names : SetPersonaName(name)
  \/ \E i \in Related, r \in Rels : SetRelation(i, r)
  \/ \E i \in Related \cup {Own}, name \in Names \cup {Blank} : SetPersona(i, name)
  \/ \E u \in Users, state \in StateChanges : SetMember(u, state)
  \/ \E T \in SUBSET Notices, n \in Counts : Notify(T, n)

Spec == Init /\ [][Next]_vars

-----------------------------------------------------------------------------
(* Properties *)

\* Nothing is under way between the client and the server.
Quiet == online /\ wire = <<>> /\ out = <<>> /\ todo = <<>>

\* The caches and the application's view, folded from the events while the read loop goes
\* on, agree once all events are taken.  When nothing is under way, no friend or group of
\* the account is missing, and one too many is a leftover of an earlier session
\* (social.go:252-297, friends.go:27-41: Add and Remove come before the event).
FriendsKnown ==
  /\ (todo = <<>> /\ events = <<>>) => view = Cached
  /\ Quiet => Friendly \subseteq Cached /\ Cached \ Friendly \subseteq stale

\* When nothing is under way, the client's own name and the names of all it has listed are
\* the server's, whatever was renamed meanwhile, before the list or while disconnected, and
\* by the application itself (social.go:58-66, 246-250, 293-295, 299-341, 410-416).
NamesKnown ==
  Quiet =>
    /\ ownName = persona[Own]
    /\ \A i \in listed : (IF i = Clan THEN groups ELSE friends)[i].name = persona[i]

\* In a chat room, when nothing is under way, the cache has every member; one too many is a
\* leftover of an earlier visit.  The room leads to its group (social.go:471-535,
\* chats.go:27-71, steamid.go:121-136, groups.go:55-63).
RoomKnown ==
  Quiet /\ inRoom =>
    /\ members \subseteq CachedMembers
    /\ CachedMembers \ members \subseteq staleRoom
    /\ chats[Room].group = Clan /\ ChatToClan(Room) = Clan

\* The counts an application folds from the NotificationEvents are those of the last packet,
\* with none for a type the packet does not list (notifications.go:36-62).
BadgeAgrees ==
  LET Count(c, t) == IF t \in DOMAIN c THEN c[t] ELSE 0
  IN  (todo = <<>> /\ events = <<>>) =>
        \A t \in Notices : /\ Count(badge, t) = Count(lastCounts, t)
                           /\ Count(notifications, t) = Count(lastCounts, t)
=============================================================================
