---------------------------- MODULE SocialProofs -----------------------------
(***************************************************************************)
(* The invariants of Social, proved for any accounts, notification types   *)
(* and capacity of the event channel, and any number of changes and        *)
(* sessions.                                                               *)
(*                                                                         *)
(* What the caches, the application and the server hold differs all the    *)
(* time.  The inductive invariants say of every account, type or member    *)
(* where the news is that makes up for the difference: the last packet on  *)
(* the wire that speaks of it is right; without one the effects the read   *)
(* loop has still to carry out are; without these the cache is.  Likewise  *)
(* for the events under way to the application.                            *)
(***************************************************************************)
EXTENDS Social, FiniteSetTheorems, SequenceTheorems, TLAPS

-----------------------------------------------------------------------------
(* The inductive invariants *)

Maps(S, T) == UNION {[A -> T] : A \in SUBSET S}
Entries == [rel : Rels, name : Names \cup {Blank}]
Ids == Related \cup {Own}

Events ==
  [do : {"emit"}, event : {"State"}, id : Related, val : Rels]
  \cup [do : {"emit"}, event : {"Notification"}, id : Notices, val : Counts]
  \cup [do : {"emit"}, event : {"FriendsList", "Other"}, id : Ids \cup {Room}, val : {Blank}]
Effects ==
  [do : {"relate"}, id : Related, val : Rels]
  \cup [do : {"name"}, id : Ids, val : Names]
  \cup [do : {"ask"}, id : SUBSET Ids, val : {Blank}]
  \cup [do : {"chat"}, id : {Room}, val : {Clan}]
  \cup [do : {"enter", "leave"}, id : {Room}, val : Users]
  \cup [do : {"count"}, id : Notices, val : Counts]
  \cup [do : {"delete"}, id : Notices, val : {0}]
  \cup Events
Packets ==
  [emsg : {"FriendsList"}, incremental : {TRUE}, rels : Maps(Related, Rels)]
  \cup [emsg : {"FriendsList"}, incremental : {FALSE}, rels : Maps(Related, Rels \ {"None"})]
  \cup [emsg : {"PersonaState"}, id : Ids, name : Names \cup {Blank}]
  \cup [emsg : {"ClanState"}, id : {Clan}, name : Names]
  \cup [emsg : {"AccountInfo"}]
  \cup [emsg : {"ChatEnter"}, room : {Room}, clan : {Clan}, members : SUBSET Users]
  \cup [emsg : {"ChatMember"}, room : {Room}, id : Users, state : StateChanges]
  \cup [emsg : {"Notifications"}, counts : Maps(Notices, Counts)]
Messages ==
  [emsg : {"Ask"}, ids : SUBSET Ids]
  \cup [emsg : {"ChangeStatus"}, name : Names]
  \cup [emsg : {"Join", "Leave"}, room : {Room}]

\* Every variable has its type, and nothing is under way without a connection.
SocialTypes ==
  /\ friends \in Maps(Users, Entries) /\ groups \in Maps({Clan}, Entries)
  /\ chats \in Maps({Room}, [group : {Clan, 0}, members : SUBSET Users])
  /\ ownName \in Names \cup {Blank}
  /\ notifications \in Maps(Notices, Counts) /\ badge \in Maps(Notices, Counts)
  /\ lastCounts \in Maps(Notices, Counts)
  /\ todo \in Seq(Effects) /\ events \in Seq(Events) /\ view \subseteq Related
  /\ out \in Seq(Messages) /\ wire \in Seq(Packets)
  /\ online \in BOOLEAN /\ inRoom \in BOOLEAN /\ members \subseteq Users
  /\ relation \in [Related -> Rels] /\ persona \in [Ids -> Names]
  /\ listed \subseteq Related
  /\ ~online => out = <<>> /\ wire = <<>> /\ ~inRoom

Count(c, t) == IF t \in DOMAIN c THEN c[t] ELSE 0
IsStore(e, t) == e.do \in {"count", "delete"} /\ e.id = t
IsTell(e, t)  == e.do = "emit" /\ e.event = "Notification" /\ e.id = t

\* The map of counts and the application's own come to the count of type t in the last packet.
BadgeOK(t, td, ev, stored, told, want) ==
  /\ \A k \in 1..Len(td) : IsStore(td[k], t) \/ IsTell(td[k], t) => td[k].val = want
  /\ (\A k \in 1..Len(td) : ~IsStore(td[k], t)) => stored = want
  /\ (\A k \in 1..Len(td) : ~IsTell(td[k], t)) =>
       /\ \A k \in 1..Len(ev) :
            IsTell(ev[k], t) /\ (\A j \in k+1..Len(ev) : ~IsTell(ev[j], t)) => ev[k].val = want
       /\ (\A k \in 1..Len(ev) : ~IsTell(ev[k], t)) => told = want
BadgeInv(t) ==
  BadgeOK(t, todo, events, Count(notifications, t), Count(badge, t), Count(lastCounts, t))

IsRelate(e, i) == e.do = "relate" /\ e.id = i
IsState(e, i)  == e.do = "emit" /\ e.event = "State" /\ e.id = i
IsAbout(e, i)  == IsState(e, i) \/ (e.do = "emit" /\ e.event = "FriendsList")

\* An event about i follows every change of the cache and says what the cache then holds.
ViewOK(i, td, ev, held, seen) ==
  /\ \A k \in 1..Len(td) : IsRelate(td[k], i) => \E m \in k+1..Len(td) : IsAbout(td[m], i)
  /\ \A k \in 1..Len(td) : IsState(td[k], i) =>
       /\ \A j \in 1..Len(td) : IsRelate(td[j], i) => td[j].val = td[k].val
       /\ (\A j \in 1..Len(td) : ~IsRelate(td[j], i)) => (td[k].val # "None" <=> i \in held)
  /\ (\A k \in 1..Len(td) : ~IsAbout(td[k], i)) =>
       /\ \A k \in 1..Len(ev) :
            IsState(ev[k], i) /\ (\A j \in k+1..Len(ev) : ~IsAbout(ev[j], i))
              => (ev[k].val # "None" <=> i \in held)
       /\ (\A k \in 1..Len(ev) : ~IsAbout(ev[k], i)) => (i \in seen <=> i \in held)
ViewInv(i) == ViewOK(i, todo, events, Cached, view)

Lists(p, i) == p.emsg = "FriendsList" /\ i \in DOMAIN p.rels

\* The last news of the relationship with i is the server's.
RelationOK(i, w, td, rel, held, old) ==
  /\ \A k \in 1..Len(w) :
       Lists(w[k], i) /\ (\A j \in k+1..Len(w) : ~Lists(w[j], i)) => w[k].rels[i] = rel
  /\ (\A k \in 1..Len(w) : ~Lists(w[k], i)) =>
       /\ \A k \in 1..Len(td) : IsRelate(td[k], i) => td[k].val = rel
       /\ (\A k \in 1..Len(td) : ~IsRelate(td[k], i)) =>
            /\ rel # "None" => i \in held
            /\ i \in held /\ rel = "None" => i \in old
RelationInv(i) == online => RelationOK(i, wire, todo, relation[i], Cached, stale)

Naming(p, i)  == p.emsg \in {"PersonaState", "ClanState"} /\ p.id = i /\ p.name # Blank
IsName(e, i)  == e.do = "name" /\ e.id = i
IsAsk(e, i)   == e.do = "ask" /\ i \in e.id
Asking(m, i)  == (m.emsg = "Ask" /\ i \in m.ids) \/ (m.emsg = "ChangeStatus" /\ i = Own)
NameOf(i) ==
  IF i = Own THEN ownName ELSE IF i = Clan THEN groups[i].name ELSE friends[i].name

\* The answer to a request for i's name, or another packet with it, is still to come.
Awaits(i, w, td, o) ==
  \/ \E k \in 1..Len(td) : IsAsk(td[k], i)
  \/ \E k \in 1..Len(o) : Asking(o[k], i)
  \/ i = Own /\ \E k \in 1..Len(w) : w[k].emsg = "AccountInfo"

\* What is listed is in the cache, or it is added before it is asked for.
ListedOK(i, td, known, held) ==
  /\ i \in known /\ i \notin held =>
       \E m \in 1..Len(td) :
         IsAsk(td[m], i) /\ \E k \in 1..m-1 : IsRelate(td[k], i) /\ td[k].val # "None"
  /\ \A k, m \in 1..Len(td) : ~(td[k].do = "relate" /\ td[m].do = "name")
ListedInv(i) == ListedOK(i, todo, listed, Cached)

\* The last news of i's name is the server's.
NameOK(i, w, td, o, truth, known, kept) ==
  /\ \A k \in 1..Len(w) :
       Naming(w[k], i) /\ (\A j \in k+1..Len(w) : ~Naming(w[j], i)) => w[k].name = truth
  /\ (\A k \in 1..Len(w) : ~Naming(w[k], i)) =>
       /\ \A k \in 1..Len(td) : IsName(td[k], i) => td[k].val = truth
       /\ (\A k \in 1..Len(td) : ~IsName(td[k], i)) /\ ~Awaits(i, w, td, o) /\ i \in known
            => kept = truth
NameInv(i) == online => NameOK(i, wire, todo, out, persona[i], listed \cup {Own}, NameOf(i))

Present == IF inRoom THEN members ELSE {}
Brings(p, u) ==
  (p.emsg = "ChatEnter" /\ u \in p.members) \/ (p.emsg = "ChatMember" /\ p.id = u /\ p.state = "Entered")
Takes(p, u)  == p.emsg = "ChatMember" /\ p.id = u /\ p.state \in Removals
IsEnter(e, u) == e.do = "enter" /\ e.val = u
IsLeave(e, u) == e.do = "leave" /\ e.val = u

\* The last news of the member u of the room is the server's.
MemberOK(u, w, td, here, old, held) ==
  /\ \A k \in 1..Len(w) :
       (\A j \in k+1..Len(w) : ~Brings(w[j], u) /\ ~Takes(w[j], u)) =>
         /\ Brings(w[k], u) => u \in here \cup old
         /\ Takes(w[k], u) => u \notin here
  /\ (\A k \in 1..Len(w) : ~Brings(w[k], u) /\ ~Takes(w[k], u)) =>
       /\ \A k \in 1..Len(td) : /\ IsEnter(td[k], u) => u \in here \cup old
                                /\ IsLeave(td[k], u) => u \notin here
       /\ (\A k \in 1..Len(td) : ~IsEnter(td[k], u) /\ ~IsLeave(td[k], u)) =>
            /\ u \in here => u \in held
            /\ u \in held => u \in here \cup old
MemberInv(u) == online => MemberOK(u, wire, todo, Present, staleRoom, CachedMembers)

\* The room is in the cache, or will be.
Opens(td)  == \E k \in 1..Len(td) : td[k].do = "chat"
Enters(w)  == \E k \in 1..Len(w) : w[k].emsg = "ChatEnter"

\* The room is in the cache, with its group, before any member of it.
ChatOK(w, td, open) ==
  /\ \A k \in 1..Len(td) : td[k].do = "enter" =>
       Room \in open \/ \E j \in 1..k-1 : td[j].do = "chat"
  /\ \A k \in 1..Len(w) : w[k].emsg = "ChatMember" =>
       Room \in open \/ Opens(td) \/ \E j \in 1..k-1 : w[j].emsg = "ChatEnter"
ChatInv ==
  /\ Room \in DOMAIN chats => chats[Room].group = Clan
  /\ ChatOK(wire, todo, DOMAIN chats)
  /\ inRoom => Room \in DOMAIN chats \/ Opens(todo) \/ Enters(wire)

-----------------------------------------------------------------------------
(* Sequences *)

\* The head, and the elements of the tail one place down.
LEMMA TailElements ==
  ASSUME NEW S, NEW s \in Seq(S), s # <<>>
  PROVE  /\ Head(s) = s[1] /\ Head(s) \in S /\ Tail(s) \in Seq(S)
         /\ Len(s) \in Nat \ {0} /\ Len(Tail(s)) = Len(s) - 1
         /\ \A k \in 1..Len(s) - 1 : Tail(s)[k] = s[k + 1]
         /\ \A k \in 1..Len(s) : s[k] \in S
  BY HeadTailProperties, EmptySeq, LenProperties, ElementOfSeq

\* r is what is left of s without its first element.
Popped(s, r) ==
  /\ Len(s) \in Nat \ {0} /\ Len(r) = Len(s) - 1 /\ 1 \in 1..Len(s)
  /\ \A k \in 1..Len(r) : k + 1 \in 1..Len(s) /\ r[k] = s[k + 1]
  /\ \A k \in 1..Len(s) : k = 1 \/ (k - 1 \in 1..Len(r) /\ s[k] = r[k - 1])

\* r is s with e at its end.
Pushed(s, e, r) ==
  /\ Len(s) \in Nat /\ Len(r) = Len(s) + 1 /\ Len(r) \in 1..Len(r) /\ r[Len(r)] = e
  /\ \A k \in 1..Len(s) : k \in 1..Len(r) /\ r[k] = s[k]
  /\ \A k \in 1..Len(r) : k = Len(r) \/ (k \in 1..Len(s) /\ r[k] = s[k])

LEMMA TailPops ==
  ASSUME NEW S, NEW s \in Seq(S), s # <<>>
  PROVE  Popped(s, Tail(s))
<1>1. PICK r : r = Tail(s)
  OBVIOUS
<1>2. /\ Len(s) \in Nat \ {0} /\ Len(r) = Len(s) - 1
      /\ \A k \in 1..Len(s) - 1 : r[k] = s[k + 1]
  BY <1>1, TailElements
<1> QED
  BY <1>1, <1>2 DEF Popped

\* An appended element comes last.
LEMMA AppendElements ==
  ASSUME NEW S, NEW s \in Seq(S), NEW e \in S
  PROVE  /\ Append(s, e) \in Seq(S) /\ Len(s) \in Nat /\ Len(Append(s, e)) = Len(s) + 1
         /\ \A k \in 1..Len(s) : Append(s, e)[k] = s[k]
         /\ Append(s, e)[Len(s) + 1] = e
  BY AppendProperties, LenProperties

LEMMA AppendPushes ==
  ASSUME NEW S, NEW s \in Seq(S), NEW e \in S
  PROVE  Append(s, e) \in Seq(S) /\ Pushed(s, e, Append(s, e))
<1>1. PICK r : r = Append(s, e)
  OBVIOUS
<1>2. /\ r \in Seq(S) /\ Len(s) \in Nat /\ Len(r) = Len(s) + 1
      /\ \A k \in 1..Len(s) : r[k] = s[k]
      /\ r[Len(s) + 1] = e
  BY <1>1, AppendElements
<1> QED
  BY <1>1, <1>2 DEF Pushed

\* A function on 1..n is a sequence of length n.
LEMMA FunctionIsSeq ==
  ASSUME NEW n \in Nat, NEW S, NEW f \in [1..n -> S]
  PROVE  f \in Seq(S) /\ Len(f) = n
<1>1. f \in Seq(S)
  BY SeqDef
<1> QED
  BY <1>1, LenProperties

\* q is made of the elements of s and, after them, those of t.
IsConcat(q, s, t) ==
  /\ Len(s) \in Nat /\ Len(t) \in Nat /\ Len(q) = Len(s) + Len(t)
  /\ \A k \in 1..Len(s) : q[k] = s[k]
  /\ \A k \in 1..Len(t) : q[Len(s) + k] = t[k]
  /\ \A k \in 1..Len(s) + Len(t) :
       \/ k \in 1..Len(s) /\ q[k] = s[k]
       \/ k - Len(s) \in 1..Len(t) /\ q[k] = t[k - Len(s)]

\* The elements of a concatenation.
LEMMA ConcatElements ==
  ASSUME NEW S, NEW s \in Seq(S), NEW t \in Seq(S)
  PROVE  s \o t \in Seq(S) /\ IsConcat(s \o t, s, t)
<1>1. /\ s \o t \in Seq(S) /\ Len(s) \in Nat /\ Len(t) \in Nat
      /\ Len(s \o t) = Len(s) + Len(t)
      /\ \A k \in 1..Len(s) : (s \o t)[k] = s[k]
      /\ \A k \in 1..Len(t) : (s \o t)[Len(s) + k] = t[k]
      /\ \A k \in 1..Len(s) + Len(t) :
           \/ k \in 1..Len(s) /\ (s \o t)[k] = s[k]
           \/ k - Len(s) \in 1..Len(t) /\ (s \o t)[k] = t[k - Len(s)]
  BY ConcatProperties, LenProperties
<1> QED
  BY <1>1, Zenon DEF IsConcat

\* Sequences of one or two elements.
LEMMA ShortSeqs ==
  ASSUME NEW S, NEW a \in S, NEW b \in S
  PROVE  /\ <<>> \o <<b>> = <<b>> /\ <<a>> \o <<b>> = <<a, b>>
         /\ <<b>> \in Seq(S) /\ Len(<<b>>) = 1 /\ <<b>>[1] = b
         /\ <<a, b>> \in Seq(S) /\ Len(<<a, b>>) = 2 /\ <<a, b>>[1] = a /\ <<a, b>>[2] = b
<1>1. <<>> \o <<b>> = <<b>>
  BY ConcatEmptySeq
<1>2. /\ <<a>> \in Seq(S) /\ <<b>> \in Seq(S) /\ <<a, b>> \in Seq(S)
      /\ Len(<<a>>) = 1 /\ Len(<<b>>) = 1 /\ Len(<<a, b>>) = 2
      /\ <<a>>[1] = a /\ <<b>>[1] = b /\ <<a, b>>[1] = a /\ <<a, b>>[2] = b
  OBVIOUS
<1>3. PICK s : s = <<a>> \o <<b>>
  OBVIOUS
<1>4. /\ s \in Seq(S) /\ Len(s) = 2
      /\ \A i \in 1..2 : s[i] = IF i <= 1 THEN <<a>>[i] ELSE <<b>>[i - 1]
  BY <1>2, <1>3, ConcatProperties
<1>5. s[1] = a /\ s[2] = b
  BY <1>2, <1>4
<1>6. s = <<a, b>>
  BY <1>4, <1>5
<1> QED
  BY <1>1, <1>2, <1>3, <1>6

\* SetToSeq of a finite set holds every element of it.
LEMMA SetToSeqElements ==
  ASSUME NEW S, IsFiniteSet(S)
  PROVE  /\ SetToSeq(S) \in Seq(S) /\ Len(SetToSeq(S)) \in Nat
         /\ \A k \in 1..Len(SetToSeq(S)) : SetToSeq(S)[k] \in S
         /\ \A x \in S : \E k \in 1..Len(SetToSeq(S)) : SetToSeq(S)[k] = x
<1> DEFINE c == Cardinality(S)
<1>1. c \in Nat /\ ExistsBijection(1..c, S)
  BY FS_CardinalityType
<1>2. PICK g : g \in Bijection(1..c, S)
  BY <1>1 DEF ExistsBijection
<1>3. g \in [1..c -> S] /\ IsInjective(g)
  BY <1>2 DEF Bijection, Injection
<1>4. SetToSeq(S) \in [1..c -> S] /\ IsInjective(SetToSeq(S))
  BY <1>3 DEF SetToSeq
<1>5. SetToSeq(S) \in Injection(1..c, S)
  BY <1>4 DEF Injection
<1>6. Cardinality(1..c) = c
  BY <1>1, FS_Interval
<1>7. SetToSeq(S) \in Surjection(1..c, S)
  BY <1>5, <1>6, FS_Injection
<1>8. SetToSeq(S) \in Seq(S) /\ Len(SetToSeq(S)) = c
  BY <1>1, <1>4, FunctionIsSeq
<1> QED
  BY <1>1, <1>4, <1>7, <1>8 DEF Surjection

\* The effects of a finite map: one for every entry.
LEMMA EffsElements ==
  ASSUME NEW do, NEW map, IsFiniteSet(DOMAIN map),
         \A i \in DOMAIN map : Eff(do, i, map[i]) \in Effects
  PROVE  /\ Effs(do, map) \in Seq(Effects)
         /\ Len(Effs(do, map)) = Len(SetToSeq(DOMAIN map))
         /\ \A k \in 1..Len(Effs(do, map)) : \E i \in DOMAIN map :
              i = SetToSeq(DOMAIN map)[k] /\ Effs(do, map)[k] = Eff(do, i, map[i])
         /\ \A i \in DOMAIN map : \E k \in 1..Len(Effs(do, map)) :
              i = SetToSeq(DOMAIN map)[k] /\ Effs(do, map)[k] = Eff(do, i, map[i])
<1> DEFINE s == SetToSeq(DOMAIN map)
           f == [k \in 1..Len(s) |-> Eff(do, s[k], map[s[k]])]
<1>1. /\ Len(s) \in Nat /\ \A k \in 1..Len(s) : s[k] \in DOMAIN map
      /\ \A i \in DOMAIN map : \E k \in 1..Len(s) : s[k] = i
  BY SetToSeqElements
<1>2. f \in [1..Len(s) -> Effects]
  BY <1>1
<1>3. f \in Seq(Effects) /\ Len(f) = Len(s)
  <2> HIDE DEF f
  <2> QED
    BY <1>1, <1>2, FunctionIsSeq
<1>4. Effs(do, map) = f
  BY DEF Effs
<1> QED
  BY <1>1, <1>3, <1>4

\* q holds an effect for every entry of the map, and an event of the same entry right after it.
HasPairs(q, do, e, map) ==
  /\ Len(q) \in Nat
  /\ \A k \in 1..Len(q) : \E i \in DOMAIN map :
       \/ q[k] = Eff(do, i, map[i]) /\ k + 1 \in 1..Len(q) /\ q[k + 1] = Emit(e, i, map[i])
       \/ q[k] = Emit(e, i, map[i])
  /\ \A i \in DOMAIN map : \E k \in 1..Len(q) :
       /\ q[k] = Eff(do, i, map[i])
       /\ k + 1 \in 1..Len(q) /\ q[k + 1] = Emit(e, i, map[i])

\* The effects of a finite map with their events.
LEMMA PairsElements ==
  ASSUME NEW do, NEW e, NEW map, IsFiniteSet(DOMAIN map),
         \A i \in DOMAIN map : Eff(do, i, map[i]) \in Effects /\ Emit(e, i, map[i]) \in Effects,
         NEW q, q = Pairs(Effs(do, map), Emits(e, map))
  PROVE  q \in Seq(Effects) /\ HasPairs(q, do, e, map)
<1> DEFINE s == SetToSeq(DOMAIN map)
           n == Len(s)
           a == [k \in 1..n |-> Eff(do, s[k], map[s[k]])]
           b == [k \in 1..n |-> Emit(e, s[k], map[s[k]])]
           f == [k \in 1..2 * n |-> IF k % 2 = 1 THEN a[(k + 1) \div 2] ELSE b[k \div 2]]
<1>1. /\ n \in Nat /\ \A k \in 1..n : s[k] \in DOMAIN map
      /\ \A i \in DOMAIN map : \E k \in 1..n : s[k] = i
  BY SetToSeqElements
<1>2. a \in [1..n -> Effects]
  BY <1>1
<1>3. Len(a) = n
  <2> HIDE DEF a, n
  <2> QED
    BY <1>1, <1>2, FunctionIsSeq
<1>4. q = f
  BY <1>3 DEF Pairs, Effs, Emits
<1> HIDE DEF s, n
<1>5. \A k \in 1..2 * n : \/ k % 2 = 1 /\ (k + 1) \div 2 \in 1..n /\ k + 1 \in 1..2 * n
                             /\ (k + 1) % 2 = 0
                          \/ k % 2 = 0 /\ k \div 2 \in 1..n
  BY <1>1
<1>6. \A k \in 1..2 * n : f[k] \in Effects
  <2> TAKE k \in 1..2 * n
  <2>1. CASE k % 2 = 1
    <3>1. (k + 1) \div 2 \in 1..n
      BY <1>5, <2>1
    <3> QED
      BY <1>1, <2>1, <3>1
  <2>2. CASE k % 2 = 0
    <3>1. k \div 2 \in 1..n
      BY <1>5, <2>2
    <3> QED
      BY <1>1, <2>2, <3>1
  <2> QED
    BY <1>5, <2>1, <2>2
<1>7. q \in Seq(Effects) /\ Len(q) = 2 * n /\ 2 * n \in Nat
  <2>1. f \in [1..2 * n -> Effects] /\ 2 * n \in Nat
    BY <1>1, <1>6
  <2> HIDE DEF f
  <2> QED
    BY <1>4, <2>1, FunctionIsSeq
<1>8. \A j \in 1..n : /\ 2 * j - 1 \in 1..2 * n /\ q[2 * j - 1] = Eff(do, s[j], map[s[j]])
                      /\ 2 * j \in 1..2 * n /\ q[2 * j] = Emit(e, s[j], map[s[j]])
  <2> TAKE j \in 1..n
  <2>1. /\ 2 * j - 1 \in 1..2 * n /\ (2 * j - 1) % 2 = 1 /\ ((2 * j - 1) + 1) \div 2 = j
        /\ 2 * j \in 1..2 * n /\ (2 * j) % 2 = 0 /\ (2 * j) \div 2 = j
    BY <1>1
  <2>2. f[2 * j - 1] = a[((2 * j - 1) + 1) \div 2] /\ f[2 * j] = b[(2 * j) \div 2]
    BY <2>1
  <2> QED
    BY <1>4, <2>1, <2>2
<1>9. \A k \in 1..2 * n : \E j \in 1..n : k = 2 * j - 1 \/ k = 2 * j
  <2> TAKE k \in 1..2 * n
  <2>1. \/ (k + 1) \div 2 \in 1..n /\ k = 2 * ((k + 1) \div 2) - 1
        \/ k \div 2 \in 1..n /\ k = 2 * (k \div 2)
    BY <1>1
  <2> QED
    BY <2>1
<1>10. \A j \in 1..n : (2 * j - 1) + 1 = 2 * j
  BY <1>1
<1>11. \A k \in 1..Len(q) : \E i \in DOMAIN map :
         \/ q[k] = Eff(do, i, map[i]) /\ k + 1 \in 1..Len(q) /\ q[k + 1] = Emit(e, i, map[i])
         \/ q[k] = Emit(e, i, map[i])
  <2> TAKE k \in 1..Len(q)
  <2>1. PICK j \in 1..n : k = 2 * j - 1 \/ k = 2 * j
    BY <1>7, <1>9
  <2>2. s[j] \in DOMAIN map
    BY <1>1
  <2> WITNESS s[j] \in DOMAIN map
  <2> QED
    BY <1>7, <1>8, <1>10, <2>1
<1>12. \A i \in DOMAIN map : \E k \in 1..Len(q) :
         /\ q[k] = Eff(do, i, map[i])
         /\ k + 1 \in 1..Len(q) /\ q[k + 1] = Emit(e, i, map[i])
  <2> TAKE i \in DOMAIN map
  <2>1. PICK j \in 1..n : s[j] = i
    BY <1>1
  <2> WITNESS 2 * j - 1 \in 1..Len(q)
  <2> QED
    BY <1>7, <1>8, <1>10, <2>1
<1>13. Len(q) \in Nat
  BY <1>7
<1> QED
  BY <1>7, <1>11, <1>12, <1>13, Zenon DEF HasPairs

-----------------------------------------------------------------------------
(* Types *)

\* A member of Maps is a function from a part of the set.
LEMMA MapsMember ==
  ASSUME NEW S, NEW T
  PROVE  /\ \A m \in Maps(S, T) : DOMAIN m \subseteq S /\ m \in [DOMAIN m -> T]
         /\ \A A \in SUBSET S : \A m \in [A -> T] : m \in Maps(S, T)
  BY DEF Maps

\* A packet's lists are finite.
LEMMA FiniteParts ==
  /\ \A S \in SUBSET Ids : IsFiniteSet(S)
  /\ \A S \in SUBSET Notices : IsFiniteSet(S)
<1>1. IsFiniteSet(Users \cup {Clan})
  BY FiniteAssumption, FS_AddElement
<1>2. IsFiniteSet(Ids)
  BY <1>1, FS_AddElement DEF Ids, Related
<1> QED
  BY <1>2, FiniteAssumption, FS_Subset

\* The account types tell users, groups and the client apart.
LEMMA IdsDiffer ==
  /\ Clan \notin Users /\ Clan # Own /\ Own \notin Users /\ Own \notin Related
  /\ \A u \in Users : GetAccountType(u) # ClanType /\ GetAccountType(u) = IndividualType
  /\ GetAccountType(Clan) = ClanType /\ GetAccountType(Clan) # IndividualType
  BY IdsAssumption DEF IndividualType, ClanType, Related

\* The effects and events the handlers make.
LEMMA EffectMembers ==
  /\ \A i \in Related, r \in Rels : Eff("relate", i, r) \in Effects /\ Emit("State", i, r) \in Effects
  /\ \A i \in Ids, n \in Names : Eff("name", i, n) \in Effects
  /\ \A S \in SUBSET Ids : Eff("ask", S, Blank) \in Effects
  /\ Eff("chat", Room, Clan) \in Effects
  /\ \A u \in Users : Eff("enter", Room, u) \in Effects /\ Eff("leave", Room, u) \in Effects
  /\ \A t \in Notices, n \in Counts :
       /\ Eff("count", t, n) \in Effects /\ Eff("delete", t, 0) \in Effects
       /\ Emit("Notification", t, n) \in Effects
  /\ Emit("FriendsList", Own, Blank) \in Effects
  /\ \A i \in Ids \cup {Room} : Emit("Other", i, Blank) \in Effects
  BY DEF Effects, Events, Eff, Emit, Ids

\* What the fields of an effect hold.
LEMMA EffectFields ==
  ASSUME NEW e \in Effects
  PROVE  /\ e.do \in {"relate", "name", "ask", "chat", "enter", "leave", "count", "delete", "emit"}
         /\ e.do = "relate" => e.id \in Related /\ e.val \in Rels
         /\ e.do = "name" => e.id \in Ids /\ e.val \in Names
         /\ e.do = "ask" => e.id \in SUBSET Ids
         /\ e.do = "chat" => e.id = Room /\ e.val = Clan
         /\ e.do \in {"enter", "leave"} => e.id = Room /\ e.val \in Users
         /\ e.do \in {"count", "delete"} => e.id \in Notices /\ e.val \in Counts
         /\ e.do = "delete" => e.val = 0
         /\ e.do = "emit" => e \in Events
  BY DEF Effects, Events, Counts

\* What the fields of an event hold.
LEMMA EventFields ==
  ASSUME NEW e \in Events
  PROVE  /\ e.do = "emit" /\ e.event \in {"State", "Notification", "FriendsList", "Other"}
         /\ e.event = "State" => e.id \in Related /\ e.val \in Rels
         /\ e.event = "Notification" => e.id \in Notices /\ e.val \in Counts
  BY DEF Events

\* What the fields of a packet hold.
LEMMA PacketFields ==
  ASSUME NEW p \in Packets
  PROVE  /\ p.emsg \in {"FriendsList", "PersonaState", "ClanState", "AccountInfo", "ChatEnter",
                        "ChatMember", "Notifications"}
         /\ p.emsg = "FriendsList" =>
              /\ p.incremental \in BOOLEAN
              /\ DOMAIN p.rels \subseteq Related /\ \A i \in DOMAIN p.rels : p.rels[i] \in Rels
              /\ ~p.incremental => \A i \in DOMAIN p.rels : p.rels[i] # "None"
         /\ p.emsg = "PersonaState" => p.id \in Ids /\ p.name \in Names \cup {Blank}
         /\ p.emsg = "ClanState" => p.id = Clan /\ p.name \in Names
         /\ p.emsg = "ChatEnter" => p.room = Room /\ p.clan = Clan /\ p.members \subseteq Users
         /\ p.emsg = "ChatMember" => p.room = Room /\ p.id \in Users /\ p.state \in StateChanges
         /\ p.emsg = "Notifications" => /\ p.counts \in Maps(Notices, Counts)
                                        /\ DOMAIN p.counts \subseteq Notices
                                        /\ \A t \in DOMAIN p.counts : p.counts[t] \in Counts
<1>1. p.emsg = "FriendsList" /\ p.incremental => p.rels \in Maps(Related, Rels)
  BY DEF Packets
<1>2. p.emsg = "FriendsList" /\ ~p.incremental => p.rels \in Maps(Related, Rels \ {"None"})
  BY DEF Packets
<1>3. p.emsg = "FriendsList" => p.incremental \in BOOLEAN
  BY DEF Packets
<1>4. p.emsg = "Notifications" => p.counts \in Maps(Notices, Counts)
  BY DEF Packets
<1>5. p.emsg = "FriendsList" =>
        /\ DOMAIN p.rels \subseteq Related /\ \A i \in DOMAIN p.rels : p.rels[i] \in Rels
        /\ ~p.incremental => \A i \in DOMAIN p.rels : p.rels[i] # "None"
  <2> SUFFICES ASSUME p.emsg = "FriendsList"
               PROVE  /\ DOMAIN p.rels \subseteq Related /\ \A i \in DOMAIN p.rels : p.rels[i] \in Rels
                      /\ ~p.incremental => \A i \in DOMAIN p.rels : p.rels[i] # "None"
    OBVIOUS
  <2>1. CASE p.incremental
    BY <1>1, <2>1, MapsMember
  <2>2. CASE ~p.incremental
    BY <1>2, <2>2, MapsMember
  <2> QED
    BY <2>1, <2>2
<1>6. p.emsg = "Notifications" => DOMAIN p.counts \subseteq Notices
                                  /\ \A t \in DOMAIN p.counts : p.counts[t] \in Counts
  BY <1>4, MapsMember
<1>7. /\ p.emsg \in {"FriendsList", "PersonaState", "ClanState", "AccountInfo", "ChatEnter",
                     "ChatMember", "Notifications"}
      /\ p.emsg = "PersonaState" => p.id \in Ids /\ p.name \in Names \cup {Blank}
      /\ p.emsg = "ClanState" => p.id = Clan /\ p.name \in Names
      /\ p.emsg = "ChatEnter" => p.room = Room /\ p.clan = Clan /\ p.members \subseteq Users
      /\ p.emsg = "ChatMember" => p.room = Room /\ p.id \in Users /\ p.state \in StateChanges
  BY DEF Packets
<1> QED
  BY <1>3, <1>4, <1>5, <1>6, <1>7

-----------------------------------------------------------------------------
(* The handlers *)

\* An incremental list: every entry is stored, and followed by its event.
LEMMA IncrementalElements ==
  ASSUME NEW p \in Packets, p.emsg = "FriendsList", p.incremental,
         NEW q, q = HandlePacket(p)
  PROVE  q \in Seq(Effects) /\ HasPairs(q, "relate", "State", p.rels)
<1>1. DOMAIN p.rels \subseteq Related /\ \A i \in DOMAIN p.rels : p.rels[i] \in Rels
  BY PacketFields
<1>2. IsFiniteSet(DOMAIN p.rels)
  BY <1>1, FiniteParts DEF Ids
<1>3. \A i \in DOMAIN p.rels : /\ Eff("relate", i, p.rels[i]) \in Effects
                               /\ Emit("State", i, p.rels[i]) \in Effects
  BY <1>1, EffectMembers
<1>4. q = Pairs(Effs("relate", p.rels), Emits("State", p.rels))
  BY DEF HandlePacket, handleFriendsList, RelationEvents, Relations
<1> QED
  BY <1>2, <1>3, <1>4, PairsElements

\* q stores every entry of the list, then asks for all and emits the event.
HasList(q, rels) ==
  /\ Len(q) \in Nat /\ Len(q) >= 2
  /\ \A k \in 1..Len(q) - 2 : \E i \in DOMAIN rels : q[k] = Eff("relate", i, rels[i])
  /\ \A i \in DOMAIN rels : \E k \in 1..Len(q) - 2 : q[k] = Eff("relate", i, rels[i])
  /\ q[Len(q) - 1] = Eff("ask", DOMAIN rels, Blank)
  /\ q[Len(q)] = Emit("FriendsList", Own, Blank)

\* A full list.
LEMMA FullElements ==
  ASSUME NEW p \in Packets, p.emsg = "FriendsList", ~p.incremental,
         NEW q, q = HandlePacket(p)
  PROVE  q \in Seq(Effects) /\ HasList(q, p.rels)
<1> DEFINE a == Effs("relate", p.rels)
           b == <<Eff("ask", DOMAIN p.rels, Blank), Emit("FriendsList", Own, Blank)>>
<1>1. DOMAIN p.rels \subseteq Related /\ \A i \in DOMAIN p.rels : p.rels[i] \in Rels
  BY PacketFields
<1>2. IsFiniteSet(DOMAIN p.rels) /\ DOMAIN p.rels \in SUBSET Ids
  BY <1>1, FiniteParts DEF Ids
<1>3. \A i \in DOMAIN p.rels : Eff("relate", i, p.rels[i]) \in Effects
  BY <1>1, EffectMembers
<1>4. /\ a \in Seq(Effects)
      /\ \A k \in 1..Len(a) : \E i \in DOMAIN p.rels : a[k] = Eff("relate", i, p.rels[i])
      /\ \A i \in DOMAIN p.rels : \E k \in 1..Len(a) : a[k] = Eff("relate", i, p.rels[i])
  BY <1>2, <1>3, EffsElements
<1>5. /\ b \in Seq(Effects) /\ Len(b) = 2 /\ b[1] = Eff("ask", DOMAIN p.rels, Blank)
      /\ b[2] = Emit("FriendsList", Own, Blank)
  BY <1>2, EffectMembers
<1>6. q = a \o b
  BY DEF HandlePacket, handleFriendsList, Relations
<1> HIDE DEF a, b
<1>7. /\ q \in Seq(Effects) /\ Len(a) \in Nat /\ Len(q) = Len(a) + 2
      /\ \A k \in 1..Len(a) : q[k] = a[k]
      /\ q[Len(a) + 1] = b[1] /\ q[Len(a) + 2] = b[2]
  <2>1. a \in Seq(Effects) /\ b \in Seq(Effects)
    BY <1>4, <1>5
  <2>2. q \in Seq(Effects) /\ IsConcat(q, a, b)
    BY <1>6, <2>1, ConcatElements
  <2> QED
    BY <1>5, <2>2 DEF IsConcat
<1>8. Len(q) - 2 = Len(a) /\ Len(q) - 1 = Len(a) + 1 /\ Len(q) \in Nat /\ Len(q) >= 2
  BY <1>7
<1>9. HasList(q, p.rels)
  BY <1>4, <1>5, <1>7, <1>8 DEF HasList
<1> QED
  BY <1>7, <1>9

\* A persona or a group: its name is stored, unless it is blank.
LEMMA PersonaElements ==
  ASSUME NEW p \in Packets, p.emsg \in {"PersonaState", "ClanState"},
         NEW q, q = HandlePacket(p)
  PROVE  /\ q \in Seq(Effects) /\ Len(q) \in 1..2
         /\ p.name # Blank <=> Len(q) = 2
         /\ Len(q) = 2 => q[1] = Eff("name", p.id, p.name)
         /\ q[Len(q)] = Emit("Other", p.id, Blank)
<1>1. p.id \in Ids /\ p.name \in Names \cup {Blank} /\ (p.emsg = "ClanState" => p.name # Blank)
  BY PacketFields DEF Ids, Related, Names, Blank
<1>2. \/ p.name # Blank /\ q = <<Eff("name", p.id, p.name), Emit("Other", p.id, Blank)>>
      \/ p.name = Blank /\ q = <<Emit("Other", p.id, Blank)>>
  <2>1. CASE p.emsg = "PersonaState"
    <3>1. q = handlePersonaState(p)
      BY <2>1 DEF HandlePacket
    <3> DEFINE a == Eff("name", p.id, p.name)
               b == Emit("Other", p.id, Blank)
    <3>2. <<>> \o <<b>> = <<b>> /\ <<a>> \o <<b>> = <<a, b>>
      BY a \in {a, b}, b \in {a, b}, ShortSeqs
    <3> QED
      BY <3>1, <3>2 DEF handlePersonaState
  <2>2. CASE p.emsg = "ClanState"
    BY <1>1, <2>2 DEF HandlePacket, handleClanState
  <2> QED
    BY <2>1, <2>2
<1>3. Emit("Other", p.id, Blank) \in Effects
  BY <1>1, EffectMembers
<1>4. p.name # Blank => Eff("name", p.id, p.name) \in Effects
  BY <1>1, EffectMembers
<1> DEFINE a == Eff("name", p.id, p.name)
           b == Emit("Other", p.id, Blank)
<1> HIDE DEF a, b
<1>5. \/ p.name # Blank /\ q = <<a, b>> /\ a \in Effects
      \/ p.name = Blank /\ q = <<b>>
  BY <1>2, <1>4 DEF a, b
<1>6. /\ q \in Seq(Effects) /\ Len(q) \in 1..2
      /\ p.name # Blank <=> Len(q) = 2
      /\ Len(q) = 2 => q[1] = a
      /\ q[Len(q)] = b
  <2>1. b \in Effects
    BY <1>3 DEF b
  <2>2. CASE p.name # Blank /\ q = <<a, b>> /\ a \in Effects
    <3>1. q \in Seq(Effects) /\ Len(q) = 2 /\ q[1] = a /\ q[2] = b
      BY <2>1, <2>2, ShortSeqs
    <3> QED
      BY <2>2, <3>1
  <2>3. CASE p.name = Blank /\ q = <<b>>
    <3>1. q \in Seq(Effects) /\ Len(q) = 1 /\ q[1] = b
      BY <2>1, <2>3, ShortSeqs
    <3> QED
      BY <2>3, <3>1
  <2> QED
    BY <1>5, <2>2, <2>3
<1> QED
  BY <1>6 DEF a, b

\* The account's information: the client's own persona is asked for.
LEMMA AccountElements ==
  ASSUME NEW p \in Packets, p.emsg = "AccountInfo", NEW q, q = HandlePacket(p)
  PROVE  q \in Seq(Effects) /\ Len(q) = 1 /\ q[1] = Eff("ask", {Own}, Blank)
<1>1. q = <<Eff("ask", {Own}, Blank)>>
  BY DEF HandlePacket, handleAccountInfo
<1>2. {Own} \in SUBSET Ids
  BY DEF Ids
<1> QED
  BY <1>1, <1>2, EffectMembers

\* A room is entered: the chat is added, then all members are.
LEMMA EnterElements ==
  ASSUME NEW p \in Packets, p.emsg = "ChatEnter", NEW q, q = HandlePacket(p)
  PROVE  /\ q \in Seq(Effects) /\ Len(q) \in Nat /\ Len(q) >= 2
         /\ q[1] = Eff("chat", Room, Clan)
         /\ \A k \in 2..Len(q) - 1 : \E u \in p.members : q[k] = Eff("enter", Room, u)
         /\ \A u \in p.members : \E k \in 2..Len(q) - 1 : q[k] = Eff("enter", Room, u)
         /\ q[Len(q)] = Emit("Other", Room, Blank)
<1>1. p.room = Room /\ p.clan = Clan /\ p.members \subseteq Users
  BY PacketFields
<1> DEFINE s == SetToSeq(p.members)
           a == <<Eff("chat", Room, Clan)>>
           b == [k \in 1..Len(s) |-> Eff("enter", Room, s[k])]
           c == <<Emit("Other", Room, Blank)>>
<1>2. IsFiniteSet(p.members)
  BY <1>1, FiniteParts DEF Ids, Related
<1>3. /\ Len(s) \in Nat /\ \A k \in 1..Len(s) : s[k] \in p.members
      /\ \A u \in p.members : \E k \in 1..Len(s) : s[k] = u
  BY <1>2, SetToSeqElements
<1>4. q = a \o b \o c
  BY <1>1 DEF HandlePacket, handleChatEnter
<1>5. /\ a \in Seq(Effects) /\ Len(a) = 1 /\ a[1] = Eff("chat", Room, Clan)
      /\ c \in Seq(Effects) /\ Len(c) = 1 /\ c[1] = Emit("Other", Room, Blank)
  BY EffectMembers
<1>6. b \in [1..Len(s) -> Effects]
  BY <1>1, <1>3, EffectMembers
<1> HIDE DEF s
<1>7. \A k \in 1..Len(s) : b[k] = Eff("enter", Room, s[k])
  OBVIOUS
<1> HIDE DEF a, b, c
<1>8. b \in Seq(Effects) /\ Len(b) = Len(s)
  BY <1>3, <1>6, FunctionIsSeq
<1>9. /\ a \o b \in Seq(Effects) /\ Len(a \o b) = 1 + Len(s)
      /\ (a \o b)[1] = a[1] /\ \A k \in 1..Len(s) : (a \o b)[1 + k] = b[k]
  <2>1. a \in Seq(Effects) /\ b \in Seq(Effects)
    BY <1>5, <1>8
  <2>2. a \o b \in Seq(Effects) /\ IsConcat(a \o b, a, b)
    BY <2>1, ConcatElements
  <2> QED
    BY <1>5, <1>8, <2>2 DEF IsConcat
<1>10. /\ q \in Seq(Effects) /\ Len(q) = Len(s) + 2
       /\ \A k \in 1..1 + Len(s) : q[k] = (a \o b)[k]
       /\ q[Len(s) + 2] = c[1]
  <2>1. PICK d : d = a \o b
    OBVIOUS
  <2>2. d \in Seq(Effects) /\ c \in Seq(Effects) /\ Len(c) = 1 /\ Len(d) = 1 + Len(s)
    BY <1>5, <1>9, <2>1
  <2>3. q \in Seq(Effects) /\ IsConcat(q, d, c)
    BY <1>4, <2>1, <2>2, ConcatElements
  <2>4. Len(d) + 1 = Len(s) + 2 /\ 1 \in 1..Len(c)
    BY <1>3, <2>2
  <2> QED
    BY <2>1, <2>2, <2>3, <2>4 DEF IsConcat
<1>11. \A k \in 1..Len(s) : q[1 + k] = Eff("enter", Room, s[k])
  <2> TAKE k \in 1..Len(s)
  <2>1. 1 + k \in 1..1 + Len(s)
    BY <1>3
  <2> QED
    BY <1>7, <1>9, <1>10, <2>1
<1>12. \A k \in 2..Len(q) - 1 : \E u \in p.members : q[k] = Eff("enter", Room, u)
  <2> TAKE k \in 2..Len(q) - 1
  <2>1. k - 1 \in 1..Len(s) /\ 1 + (k - 1) = k
    BY <1>3, <1>10
  <2>2. q[1 + (k - 1)] = Eff("enter", Room, s[k - 1]) /\ s[k - 1] \in p.members
    BY <1>3, <1>11, <2>1
  <2> QED
    BY <2>1, <2>2
<1>13. \A u \in p.members : \E k \in 2..Len(q) - 1 : q[k] = Eff("enter", Room, u)
  <2> TAKE u \in p.members
  <2>1. PICK k \in 1..Len(s) : s[k] = u
    BY <1>3
  <2>2. 1 + k \in 2..Len(q) - 1
    BY <1>3, <1>10
  <2> QED
    BY <1>11, <2>1, <2>2
<1>14. q[1] = a[1] /\ Len(q) \in Nat /\ Len(q) >= 2
  BY <1>3, <1>9, <1>10
<1> QED
  BY <1>5, <1>10, <1>12, <1>13, <1>14

\* A member of the room enters it, leaves it, or stays.
LEMMA MemberElements ==
  ASSUME NEW p \in Packets, p.emsg = "ChatMember", NEW q, q = HandlePacket(p)
  PROVE  /\ q \in Seq(Effects) /\ Len(q) \in 1..2
         /\ Len(q) = 2 <=> p.state \in Removals \cup {"Entered"}
         /\ Len(q) = 2 =>
              q[1] = (IF p.state = "Entered" THEN Eff("enter", Room, p.id) ELSE Eff("leave", Room, p.id))
         /\ q[Len(q)] = Emit("Other", Room, Blank)
<1>1. p.room = Room /\ p.id \in Users
  BY PacketFields
<1> DEFINE e == Eff("enter", Room, p.id)
           l == Eff("leave", Room, p.id)
           o == Emit("Other", Room, Blank)
<1>2. <<>> \o <<o>> = <<o>> /\ <<e>> \o <<o>> = <<e, o>> /\ <<l>> \o <<o>> = <<l, o>>
  BY e \in {e, l, o}, l \in {e, l, o}, o \in {e, l, o}, ShortSeqs
<1>3. q = IF p.state = "Entered" THEN <<e, o>> ELSE IF p.state \in Removals THEN <<l, o>> ELSE <<o>>
  BY <1>1, <1>2 DEF HandlePacket, handleChatMemberInfo
<1>4. e \in Effects /\ l \in Effects /\ o \in Effects
  BY <1>1, EffectMembers
<1> HIDE DEF e, l, o
<1>5. "Entered" \notin Removals
  BY DEF Removals
<1>6. /\ q \in Seq(Effects) /\ Len(q) \in 1..2
      /\ Len(q) = 2 <=> p.state \in Removals \cup {"Entered"}
      /\ Len(q) = 2 => q[1] = (IF p.state = "Entered" THEN e ELSE l)
      /\ q[Len(q)] = o
  BY <1>3, <1>4, <1>5
<1> QED
  BY <1>6 DEF e, l, o

\* A list of notifications: for every listed type, and for every type of the map that is not
\* listed, the count is stored and told.
LEMMA NotificationsElements ==
  ASSUME NEW p \in Packets, p.emsg = "Notifications", NEW q, q = HandlePacket(p),
         DOMAIN notifications \subseteq Notices
  PROVE  /\ q \in Seq(Effects) /\ Len(q) \in Nat
         /\ \A k \in 1..Len(q) : \E t \in DOMAIN p.counts \cup DOMAIN notifications :
              \/ /\ t \in DOMAIN p.counts
                 /\ q[k] \in {Eff("count", t, p.counts[t]), Emit("Notification", t, p.counts[t])}
              \/ /\ t \notin DOMAIN p.counts
                 /\ q[k] \in {Eff("delete", t, 0), Emit("Notification", t, 0)}
         /\ \A t \in DOMAIN p.counts \cup DOMAIN notifications :
              /\ \E k \in 1..Len(q) : IsStore(q[k], t)
              /\ \E k \in 1..Len(q) : IsTell(q[k], t)
<1> DEFINE u == Unlisted(p)
           a == Pairs(Effs("count", p.counts), Emits("Notification", p.counts))
           b == Pairs(Effs("delete", u), Emits("Notification", u))
<1>1. DOMAIN p.counts \subseteq Notices /\ \A t \in DOMAIN p.counts : p.counts[t] \in Counts
  BY PacketFields
<1>2. DOMAIN u = DOMAIN notifications \ DOMAIN p.counts /\ \A t \in DOMAIN u : u[t] = 0
  BY DEF Unlisted
<1>3. q = a \o b
  BY DEF HandlePacket, handleClientUserNotifications
<1> HIDE DEF u
<1>4. IsFiniteSet(DOMAIN p.counts) /\ IsFiniteSet(DOMAIN u)
  BY <1>1, <1>2, FiniteParts
<1>5. \A t \in DOMAIN p.counts : /\ Eff("count", t, p.counts[t]) \in Effects
                                 /\ Emit("Notification", t, p.counts[t]) \in Effects
  BY <1>1, EffectMembers
<1>6. \A t \in DOMAIN u : Eff("delete", t, u[t]) \in Effects /\ Emit("Notification", t, u[t]) \in Effects
  <2>1. 0 \in Counts
    BY DEF Counts
  <2> QED
    BY <1>2, <2>1, EffectMembers
<1>7. /\ a \in Seq(Effects) /\ Len(a) \in Nat
      /\ \A k \in 1..Len(a) : \E t \in DOMAIN p.counts :
           a[k] \in {Eff("count", t, p.counts[t]), Emit("Notification", t, p.counts[t])}
      /\ \A t \in DOMAIN p.counts : \E k \in 1..Len(a) :
           /\ a[k] = Eff("count", t, p.counts[t])
           /\ k + 1 \in 1..Len(a) /\ a[k + 1] = Emit("Notification", t, p.counts[t])
  <2> HIDE DEF a
  <2>1. a \in Seq(Effects) /\ HasPairs(a, "count", "Notification", p.counts)
    BY <1>4, <1>5, PairsElements DEF a
  <2> QED
    BY <2>1 DEF HasPairs
<1>8. /\ b \in Seq(Effects) /\ Len(b) \in Nat
      /\ \A k \in 1..Len(b) : \E t \in DOMAIN u :
           b[k] \in {Eff("delete", t, u[t]), Emit("Notification", t, u[t])}
      /\ \A t \in DOMAIN u : \E k \in 1..Len(b) :
           /\ b[k] = Eff("delete", t, u[t])
           /\ k + 1 \in 1..Len(b) /\ b[k + 1] = Emit("Notification", t, u[t])
  <2> HIDE DEF b
  <2>1. b \in Seq(Effects) /\ HasPairs(b, "delete", "Notification", u)
    BY <1>4, <1>6, PairsElements DEF b
  <2> QED
    BY <2>1 DEF HasPairs
<1> HIDE DEF a, b
<1>9. /\ q \in Seq(Effects) /\ Len(q) = Len(a) + Len(b)
      /\ \A k \in 1..Len(a) : q[k] = a[k]
      /\ \A k \in 1..Len(b) : q[Len(a) + k] = b[k]
      /\ \A k \in 1..Len(a) + Len(b) :
           \/ k \in 1..Len(a) /\ q[k] = a[k]
           \/ k - Len(a) \in 1..Len(b) /\ q[k] = b[k - Len(a)]
  BY <1>3, <1>7, <1>8, ConcatElements DEF IsConcat
<1>10. \A k \in 1..Len(a) : k \in 1..Len(q)
  BY <1>7, <1>8, <1>9
<1>11. \A k \in 1..Len(b) : Len(a) + k \in 1..Len(q)
  BY <1>7, <1>8, <1>9
<1>12. \A k \in 1..Len(q) : \E t \in DOMAIN p.counts \cup DOMAIN notifications :
         \/ /\ t \in DOMAIN p.counts
            /\ q[k] \in {Eff("count", t, p.counts[t]), Emit("Notification", t, p.counts[t])}
         \/ /\ t \notin DOMAIN p.counts
            /\ q[k] \in {Eff("delete", t, 0), Emit("Notification", t, 0)}
  <2> TAKE k \in 1..Len(q)
  <2>1. CASE k \in 1..Len(a) /\ q[k] = a[k]
    BY <1>7, <2>1
  <2>2. CASE k - Len(a) \in 1..Len(b) /\ q[k] = b[k - Len(a)]
    <3>1. PICK t \in DOMAIN u : q[k] \in {Eff("delete", t, u[t]), Emit("Notification", t, u[t])}
      BY <1>8, <2>2
    <3> QED
      BY <1>2, <3>1
  <2> QED
    BY <1>9, <2>1, <2>2
<1>13. \A t \in DOMAIN p.counts : /\ \E k \in 1..Len(q) : IsStore(q[k], t)
                                  /\ \E k \in 1..Len(q) : IsTell(q[k], t)
  <2> TAKE t \in DOMAIN p.counts
  <2>1. PICK k \in 1..Len(a) : /\ a[k] = Eff("count", t, p.counts[t])
                               /\ k + 1 \in 1..Len(a)
                               /\ a[k + 1] = Emit("Notification", t, p.counts[t])
    BY <1>7
  <2>2. q[k] = Eff("count", t, p.counts[t]) /\ q[k + 1] = Emit("Notification", t, p.counts[t])
    BY <1>9, <2>1
  <2>3. IsStore(q[k], t) /\ IsTell(q[k + 1], t)
    BY <2>2 DEF IsStore, IsTell, Eff, Emit
  <2> QED
    BY <1>10, <2>1, <2>3
<1>14. \A t \in DOMAIN u : /\ \E k \in 1..Len(q) : IsStore(q[k], t)
                           /\ \E k \in 1..Len(q) : IsTell(q[k], t)
  <2> TAKE t \in DOMAIN u
  <2>1. PICK k \in 1..Len(b) : /\ b[k] = Eff("delete", t, u[t])
                               /\ k + 1 \in 1..Len(b)
                               /\ b[k + 1] = Emit("Notification", t, u[t])
    BY <1>8
  <2>2. q[Len(a) + k] = Eff("delete", t, u[t]) /\ q[Len(a) + (k + 1)] = Emit("Notification", t, u[t])
    BY <1>9, <2>1
  <2>3. IsStore(q[Len(a) + k], t) /\ IsTell(q[Len(a) + (k + 1)], t)
    BY <2>2 DEF IsStore, IsTell, Eff, Emit
  <2> QED
    BY <1>11, <2>1, <2>3
<1>15. Len(q) \in Nat
  BY <1>7, <1>8, <1>9
<1> QED
  BY <1>2, <1>9, <1>12, <1>13, <1>14, <1>15

\* Every packet is handled by a sequence of effects.
LEMMA HandledType ==
  ASSUME NEW p \in Packets, DOMAIN notifications \subseteq Notices
  PROVE  HandlePacket(p) \in Seq(Effects)
<1>1. p.emsg \in {"FriendsList", "PersonaState", "ClanState", "AccountInfo", "ChatEnter",
                  "ChatMember", "Notifications"}
      /\ (p.emsg = "FriendsList" => p.incremental \in BOOLEAN)
  BY PacketFields
<1>2. CASE p.emsg = "FriendsList" /\ p.incremental
  BY <1>2, IncrementalElements
<1>3. CASE p.emsg = "FriendsList" /\ ~p.incremental
  BY <1>3, FullElements
<1>4. CASE p.emsg \in {"PersonaState", "ClanState"}
  BY <1>4, PersonaElements
<1>5. CASE p.emsg = "AccountInfo"
  BY <1>5, AccountElements
<1>6. CASE p.emsg = "ChatEnter"
  BY <1>6, EnterElements
<1>7. CASE p.emsg = "ChatMember"
  BY <1>7, MemberElements
<1>8. CASE p.emsg = "Notifications"
  BY <1>8, NotificationsElements
<1> QED
  BY <1>1, <1>2, <1>3, <1>4, <1>5, <1>6, <1>7, <1>8

-----------------------------------------------------------------------------
(* The types are preserved *)

LEMMA InitTypes == Init => SocialTypes
<1> SUFFICES ASSUME Init PROVE SocialTypes
  OBVIOUS
<1> DEFINE zero == [x \in {} |-> x]
<1>1. \A S, T : zero \in Maps(S, T)
  <2> TAKE S, T
  <2>1. zero \in [{} -> T] /\ {} \in SUBSET S
    OBVIOUS
  <2> QED
    BY <2>1, MapsMember
<1>2. relation \in [Related -> Rels] /\ persona \in [Ids -> Names]
  BY DEF Init, Rels, Names, Ids
<1>3. /\ friends = zero /\ groups = zero /\ chats = zero /\ notifications = zero
      /\ badge = zero /\ lastCounts = zero
  BY DEF Init, Empty
<1> HIDE DEF zero
<1>4. /\ friends \in Maps(Users, Entries) /\ groups \in Maps({Clan}, Entries)
      /\ chats \in Maps({Room}, [group : {Clan, 0}, members : SUBSET Users])
      /\ notifications \in Maps(Notices, Counts) /\ badge \in Maps(Notices, Counts)
      /\ lastCounts \in Maps(Notices, Counts)
  BY <1>1, <1>3
<1>5. todo \in Seq(Effects) /\ events \in Seq(Events) /\ out \in Seq(Messages) /\ wire \in Seq(Packets)
  BY EmptySeq DEF Init
<1>6. ownName \in Names \cup {Blank} /\ view = {} /\ members = {} /\ listed = {}
  BY DEF Init
<1>7. online = FALSE /\ inRoom = FALSE /\ out = <<>> /\ wire = <<>>
  BY DEF Init
<1> QED
  BY <1>2, <1>4, <1>5, <1>6, <1>7 DEF SocialTypes

\* What With, Without, Relate and Named make of a map.
LEMMA MapSteps ==
  ASSUME NEW S, NEW T, NEW c \in Maps(S, T), NEW i \in S
  PROVE  /\ \A v \in T : With(c, i, v) \in Maps(S, T)
         /\ Without(c, i) \in Maps(S, T)
         /\ \A v \in T : Added(c, i, v) \in Maps(S, T)
<1>1. DOMAIN c \in SUBSET S /\ c \in [DOMAIN c -> T]
  BY MapsMember
<1>2. \A v \in T : With(c, i, v) \in [DOMAIN c \cup {i} -> T]
  BY <1>1 DEF With
<1>3. Without(c, i) \in [DOMAIN c \ {i} -> T]
  BY <1>1 DEF Without
<1>4. DOMAIN c \cup {i} \in SUBSET S /\ DOMAIN c \ {i} \in SUBSET S
  BY <1>1
<1>5. /\ \A v \in T : With(c, i, v) \in Maps(S, T)
      /\ Without(c, i) \in Maps(S, T)
  <2>1. \A A \in SUBSET S : \A m \in [A -> T] : m \in Maps(S, T)
    BY MapsMember
  <2>2. Without(c, i) \in Maps(S, T)
    BY <1>3, <1>4, <2>1
  <2>3. \A v \in T : With(c, i, v) \in Maps(S, T)
    BY <1>2, <1>4, <2>1
  <2> QED
    BY <2>2, <2>3
<1> QED
  BY <1>5 DEF Added

LEMMA EntrySteps ==
  ASSUME NEW S, NEW c \in Maps(S, Entries), NEW i \in S
  PROVE  /\ \A r \in Rels : Relate(c, i, r) \in Maps(S, Entries)
         /\ \A n \in Names : Named(c, i, n) \in Maps(S, Entries)
<1>1. \A r \in Rels : Relate(c, i, r) \in Maps(S, Entries)
  <2> TAKE r \in Rels
  <2>1. [rel |-> r, name |-> Blank] \in Entries
    BY DEF Entries
  <2> QED
    BY <2>1, MapSteps DEF Relate
<1>2. \A n \in Names : Named(c, i, n) \in Maps(S, Entries)
  <2> TAKE n \in Names
  <2>1. DOMAIN c \in SUBSET S /\ c \in [DOMAIN c -> Entries]
    BY MapsMember
  <2>2. Named(c, i, n) \in [DOMAIN c -> Entries]
    BY <2>1 DEF Named, Entries
  <2> QED
    BY <2>1, <2>2, MapsMember
<1> QED
  BY <1>1, <1>2

\* The head of the effects to carry out, and what is left.
LEMMA NowFacts ==
  ASSUME SocialTypes, NEW do, Now(do)
  PROVE  /\ E.do = do /\ E = todo[1] /\ E \in Effects
         /\ todo' \in Seq(Effects) /\ Popped(todo, todo')
<1>1. todo \in Seq(Effects) /\ todo # <<>> /\ todo' = Tail(todo) /\ E.do = do /\ E = Head(todo)
  BY DEF SocialTypes, Now, E
<1> QED
  BY <1>1, TailElements, TailPops

LEMMA TypesRead ==
  ASSUME SocialTypes, Read
  PROVE  SocialTypes'
<1>1. wire \in Seq(Packets) /\ wire # <<>> /\ DOMAIN notifications \subseteq Notices
  BY MapsMember DEF Read, SocialTypes
<1>2. Head(wire) \in Packets /\ Tail(wire) \in Seq(Packets)
  BY <1>1, TailElements
<1>3. todo' \in Seq(Effects) /\ wire' \in Seq(Packets)
  BY <1>1, <1>2, HandledType DEF Read
<1>4. lastCounts' \in Maps(Notices, Counts) /\ listed' \subseteq Related
  BY <1>2, PacketFields DEF Read, SocialTypes
<1>5. online
  BY <1>1 DEF SocialTypes
<1> QED
  BY <1>3, <1>4, <1>5 DEF Read, SocialTypes, cacheVars, appVars, serverVars, countVars

LEMMA TypesReader ==
  ASSUME SocialTypes,
         StoreRelation \/ StoreName \/ StoreChat \/ StoreCount \/ RequestFriendListInfo \/ EmitEvent
  PROVE  SocialTypes'
<1>1. CASE StoreRelation
  <2>1. /\ todo' \in Seq(Effects) /\ E \in Effects /\ E.do = "relate"
    BY <1>1, NowFacts DEF StoreRelation
  <2>2. E.id \in Related /\ E.val \in Rels
    BY <2>1, EffectFields
  <2>3. groups' \in Maps({Clan}, Entries) /\ friends' \in Maps(Users, Entries)
    <3>1. CASE E.id = Clan
      <4>1. groups' = Relate(groups, E.id, E.val) /\ UNCHANGED friends
        BY <1>1, <3>1, IdsDiffer DEF StoreRelation
      <4>2. groups \in Maps({Clan}, Entries) /\ E.id \in {Clan}
        BY <3>1 DEF SocialTypes
      <4> QED
        BY <2>2, <4>1, <4>2, EntrySteps DEF SocialTypes
    <3>2. CASE E.id \in Users
      <4>1. friends' = Relate(friends, E.id, E.val) /\ UNCHANGED groups
        BY <1>1, <3>2, IdsDiffer DEF StoreRelation
      <4>2. friends \in Maps(Users, Entries)
        BY DEF SocialTypes
      <4> QED
        BY <2>2, <3>2, <4>1, <4>2, EntrySteps DEF SocialTypes
    <3> QED
      BY <2>2, <3>1, <3>2 DEF Related
  <2> QED
    BY <1>1, <2>1, <2>3 DEF SocialTypes, StoreRelation, appVars, serverVars, countVars
<1>2. CASE StoreName
  <2>1. /\ todo' \in Seq(Effects) /\ E \in Effects /\ E.do = "name"
    BY <1>2, NowFacts DEF StoreName
  <2>2. E.id \in Ids /\ E.val \in Names
    BY <2>1, EffectFields
  <2>3. /\ groups' \in Maps({Clan}, Entries) /\ friends' \in Maps(Users, Entries)
        /\ ownName' \in Names \cup {Blank}
    <3>1. CASE E.id = Own
      BY <1>2, <2>2, <3>1 DEF StoreName, SocialTypes
    <3>2. CASE E.id = Clan
      <4>1. groups' = Named(groups, E.id, E.val) /\ UNCHANGED <<friends, ownName>>
        BY <1>2, <3>2, IdsDiffer DEF StoreName
      <4>2. groups \in Maps({Clan}, Entries) /\ E.id \in {Clan}
        BY <3>2 DEF SocialTypes
      <4> QED
        BY <2>2, <4>1, <4>2, EntrySteps DEF SocialTypes
    <3>3. CASE E.id \in Users
      <4>1. friends' = Named(friends, E.id, E.val) /\ UNCHANGED <<groups, ownName>>
        BY <1>2, <3>3, IdsDiffer DEF StoreName
      <4>2. friends \in Maps(Users, Entries)
        BY DEF SocialTypes
      <4> QED
        BY <2>2, <3>3, <4>1, <4>2, EntrySteps DEF SocialTypes
    <3> QED
      BY <2>2, <3>1, <3>2, <3>3 DEF Related, Ids
  <2> QED
    BY <1>2, <2>1, <2>3 DEF SocialTypes, StoreName, appVars, serverVars, histVars, countVars
<1>3. CASE StoreChat
  <2> DEFINE C == [group : {Clan, 0}, members : SUBSET Users]
  <2>1. /\ todo' \in Seq(Effects) /\ E \in Effects /\ E.do \in {"chat", "enter", "leave"}
        /\ \/ E.do = "chat" /\ chats' = AddChat(E.id, E.val)
           \/ E.do = "enter" /\ chats' = AddChatMember(E.id, E.val)
           \/ E.do = "leave" /\ chats' = RemoveChatMember(E.id, E.val)
    BY <1>3, NowFacts DEF StoreChat
  <2>2. E.id = Room /\ (E.do = "chat" => E.val = Clan) /\ (E.do # "chat" => E.val \in Users)
    BY <2>1, EffectFields
  <2>3. chats \in Maps({Room}, C) /\ DOMAIN chats \in SUBSET {Room} /\ chats \in [DOMAIN chats -> C]
    BY MapsMember DEF SocialTypes
  <2>4. \A v \in C : Added(chats, Room, v) \in Maps({Room}, C)
    BY <2>3, MapSteps
  <2>5. \A m \in Maps({Room}, C), A \in SUBSET Users :
          Room \in DOMAIN m => [m EXCEPT ![Room].members = A] \in Maps({Room}, C)
    <3> TAKE m \in Maps({Room}, C), A \in SUBSET Users
    <3>1. DOMAIN m \in SUBSET {Room} /\ m \in [DOMAIN m -> C]
      BY MapsMember
    <3>2. Room \in DOMAIN m => [m EXCEPT ![Room].members = A] \in [DOMAIN m -> C]
      BY <3>1
    <3> QED
      BY <3>1, <3>2, MapsMember
  <2>6. chats' \in Maps({Room}, C)
    <3>1. CASE E.do = "chat" /\ chats' = AddChat(E.id, E.val)
      <4>1. [group |-> Clan, members |-> {}] \in C
        OBVIOUS
      <4> QED
        BY <2>2, <2>4, <3>1, <4>1 DEF AddChat
    <3>2. CASE E.do = "enter" /\ chats' = AddChatMember(E.id, E.val)
      <4> DEFINE m == Added(chats, Room, [group |-> 0, members |-> {}])
      <4>1. [group |-> 0, members |-> {}] \in C
        OBVIOUS
      <4>2. m \in Maps({Room}, C) /\ Room \in DOMAIN m
        BY <2>4, <4>1 DEF Added, With
      <4>3. m[Room] \in C
        <5> HIDE DEF m, C
        <5>1. m \in [DOMAIN m -> C]
          BY <4>2, MapsMember
        <5> QED
          BY <4>2, <5>1
      <4>4. m[Room].members \cup {E.val} \in SUBSET Users
        BY <2>2, <3>2, <4>3
      <4>5. chats' = [m EXCEPT ![Room].members = m[Room].members \cup {E.val}]
        BY <2>2, <3>2 DEF AddChatMember
      <4> HIDE DEF m
      <4> QED
        BY <2>5, <4>2, <4>4, <4>5
    <3>3. CASE E.do = "leave" /\ chats' = RemoveChatMember(E.id, E.val)
      <4>1. CASE Room \notin DOMAIN chats
        BY <2>2, <2>3, <3>3, <4>1 DEF RemoveChatMember
      <4>2. CASE Room \in DOMAIN chats
        <5>1. chats[Room].members \ {E.val} \in SUBSET Users
          BY <2>3, <4>2
        <5>2. chats' = [chats EXCEPT ![Room].members = chats[Room].members \ {E.val}]
          BY <2>2, <3>3, <4>2 DEF RemoveChatMember
        <5> QED
          BY <2>3, <2>5, <4>2, <5>1, <5>2
      <4> QED
        BY <4>1, <4>2
    <3> QED
      BY <2>1, <3>1, <3>2, <3>3
  <2> QED
    BY <1>3, <2>1, <2>6 DEF SocialTypes, StoreChat, appVars, serverVars, histVars, countVars
<1>4. CASE StoreCount
  <2>1. /\ todo' \in Seq(Effects) /\ E \in Effects /\ E.do \in {"count", "delete"}
        /\ \/ notifications' = With(notifications, E.id, E.val)
           \/ notifications' = Without(notifications, E.id)
    BY <1>4, NowFacts DEF StoreCount
  <2>2. E.id \in Notices /\ E.val \in Counts /\ notifications \in Maps(Notices, Counts)
    BY <2>1, EffectFields DEF SocialTypes
  <2>3. notifications' \in Maps(Notices, Counts)
    BY <2>1, <2>2, MapSteps
  <2> QED
    BY <1>4, <2>1, <2>3 DEF SocialTypes, StoreCount, appVars, serverVars, histVars, countVars
<1>5. CASE RequestFriendListInfo
  <2>1. /\ todo' \in Seq(Effects) /\ E \in Effects /\ E.do = "ask"
    BY <1>5, NowFacts DEF RequestFriendListInfo
  <2>2. [emsg |-> "Ask", ids |-> E.id] \in Messages
    BY <2>1, EffectFields DEF Messages
  <2>3. out' \in Seq(Messages) /\ (~online => out' = out)
    BY <1>5, <2>2, AppendElements DEF RequestFriendListInfo, Write, SocialTypes
  <2> QED
    BY <1>5, <2>1, <2>3 DEF SocialTypes, RequestFriendListInfo, cacheVars, appVars, serverVars,
                            histVars, countVars
<1>6. CASE EmitEvent
  <2>1. /\ todo' \in Seq(Effects) /\ E \in Effects /\ E.do = "emit"
    BY <1>6, NowFacts DEF EmitEvent
  <2>2. events' \in Seq(Events)
    BY <1>6, <2>1, EffectFields, AppendElements DEF EmitEvent, SocialTypes
  <2> QED
    BY <1>6, <2>1, <2>2 DEF SocialTypes, EmitEvent, cacheVars, appVars, serverVars, histVars,
                            countVars
<1> QED
  BY <1>1, <1>2, <1>3, <1>4, <1>5, <1>6

LEMMA TypesApplication ==
  ASSUME SocialTypes, Poll \/ JoinChat \/ LeaveChat \/ \E name \in Names : SetPersonaName(name)
  PROVE  SocialTypes'
<1>1. CASE Poll
  <2>1. events \in Seq(Events) /\ events # <<>>
    BY <1>1 DEF Poll, SocialTypes
  <2>2. Head(events) \in Events /\ Tail(events) \in Seq(Events)
    BY <2>1, TailElements
  <2>3. DOMAIN friends \subseteq Related /\ DOMAIN groups \subseteq Related
    BY MapsMember DEF SocialTypes, Related
  <2>4. view' \subseteq Related
    BY <1>1, <2>2, <2>3, EventFields DEF Poll, SocialTypes
  <2>5. badge' \in Maps(Notices, Counts)
    <3>1. CASE Head(events).event = "Notification"
      <4>1. Head(events).id \in Notices /\ Head(events).val \in Counts
        BY <2>2, <3>1, EventFields
      <4>2. badge' = With(badge, Head(events).id, Head(events).val)
        BY <1>1, <3>1 DEF Poll
      <4> QED
        BY <4>1, <4>2, MapSteps DEF SocialTypes
    <3>2. CASE Head(events).event # "Notification"
      BY <1>1, <3>2 DEF Poll, SocialTypes
    <3> QED
      BY <3>1, <3>2
  <2>6. events' \in Seq(Events)
    BY <1>1, <2>2 DEF Poll
  <2> QED
    BY <1>1, <2>4, <2>5, <2>6 DEF Poll, SocialTypes, cacheVars, serverVars, histVars, countVars
<1>2. ASSUME NEW m \in Messages, Write(m)
      PROVE  out' \in Seq(Messages) /\ (~online => out' = out)
  BY <1>2, AppendElements DEF Write, SocialTypes
<1>3. CASE JoinChat
  <2>1. [emsg |-> "Join", room |-> ClanToChat(Clan)] \in Messages
    BY DEF Messages, Room
  <2>2. out' \in Seq(Messages) /\ (~online => out' = out)
    BY <1>2, <1>3, <2>1 DEF JoinChat
  <2> QED
    BY <1>3, <2>2 DEF JoinChat, SocialTypes, cacheVars, appVars, serverVars, histVars
<1>4. CASE LeaveChat
  <2>1. [emsg |-> "Leave", room |-> ClanToChat(Clan)] \in Messages
    BY DEF Messages, Room
  <2>2. out' \in Seq(Messages) /\ (~online => out' = out)
    BY <1>2, <1>4, <2>1 DEF LeaveChat
  <2> QED
    BY <1>4, <2>2 DEF LeaveChat, SocialTypes, cacheVars, appVars, serverVars, histVars
<1>5. ASSUME NEW name \in Names, SetPersonaName(name)
      PROVE  SocialTypes'
  <2>1. [emsg |-> "ChangeStatus", name |-> name] \in Messages
    BY DEF Messages
  <2>2. out' \in Seq(Messages) /\ (~online => out' = out)
    BY <1>2, <1>5, <2>1 DEF SetPersonaName
  <2> QED
    BY <1>5, <2>2 DEF SetPersonaName, SocialTypes, appVars, serverVars, histVars
<1> QED
  BY <1>1, <1>3, <1>4, <1>5

\* The packets the server sends.
LEMMA PacketMembers ==
  /\ [emsg |-> "AccountInfo"] \in Packets
  /\ \A r \in Maps(Related, Rels) :
       [emsg |-> "FriendsList", incremental |-> TRUE, rels |-> r] \in Packets
  /\ \A r \in Maps(Related, Rels \ {"None"}) :
       [emsg |-> "FriendsList", incremental |-> FALSE, rels |-> r] \in Packets
  /\ \A i \in Ids, n \in Names \cup {Blank} : PersonaOf(i, n) \in Packets
  /\ \A n \in Names : [emsg |-> "ClanState", id |-> Clan, name |-> n] \in Packets
  /\ \A S \in SUBSET Users :
       [emsg |-> "ChatEnter", room |-> Room, clan |-> Clan, members |-> S] \in Packets
  /\ \A u \in Users, s \in StateChanges :
       [emsg |-> "ChatMember", room |-> Room, id |-> u, state |-> s] \in Packets
  /\ \A c \in Maps(Notices, Counts) : [emsg |-> "Notifications", counts |-> c] \in Packets
<1>1. /\ \A r \in Maps(Related, Rels) :
           [emsg |-> "FriendsList", incremental |-> TRUE, rels |-> r] \in Packets
      /\ \A r \in Maps(Related, Rels \ {"None"}) :
           [emsg |-> "FriendsList", incremental |-> FALSE, rels |-> r] \in Packets
  BY DEF Packets
<1>2. /\ [emsg |-> "AccountInfo"] \in Packets
      /\ \A i \in Ids, n \in Names \cup {Blank} : PersonaOf(i, n) \in Packets
      /\ \A n \in Names : [emsg |-> "ClanState", id |-> Clan, name |-> n] \in Packets
  BY DEF Packets, PersonaOf
<1>3. /\ \A S \in SUBSET Users :
           [emsg |-> "ChatEnter", room |-> Room, clan |-> Clan, members |-> S] \in Packets
      /\ \A u \in Users, s \in StateChanges :
           [emsg |-> "ChatMember", room |-> Room, id |-> u, state |-> s] \in Packets
      /\ \A c \in Maps(Notices, Counts) : [emsg |-> "Notifications", counts |-> c] \in Packets
  BY DEF Packets
<1> QED
  BY <1>1, <1>2, <1>3

\* What Send makes of the wire.
LEMMA SendFacts ==
  ASSUME SocialTypes, NEW ps \in Seq(Packets), Send(ps)
  PROVE  /\ wire' \in Seq(Packets) /\ (~online => wire' = wire)
         /\ online => IsConcat(wire', wire, ps)
<1>1. wire \in Seq(Packets) /\ wire' = IF online THEN wire \o ps ELSE wire
  BY DEF SocialTypes, Send
<1>2. wire \o ps \in Seq(Packets) /\ IsConcat(wire \o ps, wire, ps)
  BY <1>1, ConcatElements
<1> QED
  BY <1>1, <1>2

\* A packet that is sent comes last.
LEMMA SendOne ==
  ASSUME SocialTypes, NEW p \in Packets, Send(<<p>>)
  PROVE  /\ wire' \in Seq(Packets) /\ (~online => wire' = wire) /\ Len(wire) \in Nat
         /\ online => Pushed(wire, p, wire')
<1>1. <<p>> \in Seq(Packets) /\ Len(<<p>>) = 1 /\ <<p>>[1] = p
  BY ShortSeqs
<1>2. PICK ps : ps = <<p>>
  OBVIOUS
<1>3. ps \in Seq(Packets) /\ Len(ps) = 1 /\ ps[1] = p /\ Send(ps)
  BY <1>1, <1>2
<1>4. /\ wire' \in Seq(Packets) /\ (~online => wire' = wire)
      /\ online => IsConcat(wire', wire, ps)
  BY <1>3, SendFacts
<1>5. Len(wire) \in Nat
  BY LenProperties DEF SocialTypes
<1>6. ASSUME online
      PROVE  Pushed(wire, p, wire')
  <2>1. PICK r : r = wire'
    OBVIOUS
  <2>2. /\ Len(r) = Len(wire) + 1 /\ r[Len(wire) + 1] = p
        /\ \A k \in 1..Len(wire) : r[k] = wire[k]
    BY <1>3, <1>4, <1>6, <2>1 DEF IsConcat
  <2> QED
    BY <1>5, <2>1, <2>2 DEF Pushed
<1> QED
  BY <1>4, <1>5, <1>6

\* The answer to a request: a packet for every id, with its name.
LEMMA AnswerElements ==
  ASSUME SocialTypes, NEW S \in SUBSET Ids, NEW ps,
         ps = LET s == SetToSeq(S) IN [k \in 1..Len(s) |-> PersonaOf(s[k], persona[s[k]])]
  PROVE  /\ ps \in Seq(Packets) /\ Len(ps) \in Nat
         /\ \A k \in 1..Len(ps) : \E i \in S : ps[k] = PersonaOf(i, persona[i])
         /\ \A i \in S : \E k \in 1..Len(ps) : ps[k] = PersonaOf(i, persona[i])
<1> DEFINE s == SetToSeq(S)
           f == [k \in 1..Len(s) |-> PersonaOf(s[k], persona[s[k]])]
<1>1. IsFiniteSet(S)
  BY FiniteParts
<1>2. /\ Len(s) \in Nat /\ \A k \in 1..Len(s) : s[k] \in S
      /\ \A i \in S : \E k \in 1..Len(s) : s[k] = i
  BY <1>1, SetToSeqElements
<1>3. \A i \in Ids : PersonaOf(i, persona[i]) \in Packets
  BY PacketMembers DEF SocialTypes
<1> HIDE DEF s
<1>4. f \in [1..Len(s) -> Packets] /\ \A k \in 1..Len(s) : f[k] = PersonaOf(s[k], persona[s[k]])
  BY <1>2, <1>3
<1>5. ps = f
  BY DEF s
<1> HIDE DEF f
<1>6. f \in Seq(Packets) /\ Len(f) = Len(s)
  BY <1>2, <1>4, FunctionIsSeq
<1> QED
  BY <1>2, <1>4, <1>5, <1>6

LEMMA TypesServer ==
  ASSUME SocialTypes,
         \/ LogOn \/ Drop
         \/ \E i \in Related, r \in Rels : SetRelation(i, r)
         \/ \E i \in Related \cup {Own}, name \in Names \cup {Blank} : SetPersona(i, name)
         \/ \E u \in Users, state \in StateChanges : SetMember(u, state)
         \/ \E T \in SUBSET Notices, n \in Counts : Notify(T, n)
  PROVE  SocialTypes'
<1>1. CASE LogOn
  <2> DEFINE r == [i \in Friendly |-> relation[i]]
  <2>1. r \in [Friendly -> Rels \ {"None"}] /\ Friendly \in SUBSET Related
    BY DEF Friendly, SocialTypes
  <2>2. r \in Maps(Related, Rels \ {"None"})
    BY <2>1, MapsMember
  <2> HIDE DEF r
  <2>3. /\ [emsg |-> "AccountInfo"] \in Packets
        /\ [emsg |-> "FriendsList", incremental |-> FALSE, rels |-> r] \in Packets
    BY <2>2, PacketMembers
  <2>4. wire' = <<[emsg |-> "AccountInfo"],
                  [emsg |-> "FriendsList", incremental |-> FALSE, rels |-> r]>>
    BY <1>1 DEF LogOn, r
  <2>5. wire' \in Seq(Packets)
    BY <2>3, <2>4, ShortSeqs
  <2> QED
    BY <1>1, <2>5 DEF LogOn, SocialTypes, cacheVars, appVars
<1>2. CASE Drop
  BY <1>2, EmptySeq DEF Drop, SocialTypes, cacheVars, appVars, histVars, countVars
<1>3. ASSUME NEW i \in Related, NEW r \in Rels, SetRelation(i, r)
      PROVE  SocialTypes'
  <2> DEFINE m == [j \in {i} |-> r]
  <2>1. m \in [{i} -> Rels] /\ {i} \in SUBSET Related
    OBVIOUS
  <2>2. m \in Maps(Related, Rels)
    BY <2>1, MapsMember
  <2> HIDE DEF m
  <2>3. [emsg |-> "FriendsList", incremental |-> TRUE, rels |-> m] \in Packets
    BY <2>2, PacketMembers
  <2>4. Send(<<[emsg |-> "FriendsList", incremental |-> TRUE, rels |-> m]>>)
    BY <1>3 DEF SetRelation, m
  <2>5. wire' \in Seq(Packets) /\ (~online => wire' = wire)
    BY <2>3, <2>4, SendOne
  <2>6. relation' \in [Related -> Rels]
    BY <1>3 DEF SetRelation, SocialTypes
  <2> QED
    BY <1>3, <2>5, <2>6 DEF SetRelation, SocialTypes, cacheVars, appVars
<1>4. ASSUME NEW i \in Ids, NEW name \in Names \cup {Blank}, SetPersona(i, name)
      PROVE  SocialTypes'
  <2>1. PICK p \in Packets : Send(<<p>>)
    <3>1. CASE i = Clan /\ name # Blank
      BY <1>4, <3>1, PacketMembers DEF SetPersona
    <3>2. CASE ~(i = Clan /\ name # Blank)
      BY <1>4, <3>2, PacketMembers DEF SetPersona
    <3> QED
      BY <3>1, <3>2
  <2>2. wire' \in Seq(Packets) /\ (~online => wire' = wire)
    BY <2>1, SendOne
  <2>3. persona' \in [Ids -> Names]
    BY <1>4 DEF SetPersona, SocialTypes
  <2> QED
    BY <1>4, <2>2, <2>3 DEF SetPersona, SocialTypes, cacheVars, appVars, histVars
<1>5. ASSUME NEW u \in Users, NEW state \in StateChanges, SetMember(u, state)
      PROVE  SocialTypes'
  <2>1. [emsg |-> "ChatMember", room |-> Room, id |-> u, state |-> state] \in Packets
    BY PacketMembers
  <2>2. wire' \in Seq(Packets) /\ (~online => wire' = wire)
    BY <1>5, <2>1, AppendElements DEF SetMember, SocialTypes
  <2>3. members' \subseteq Users
    BY <1>5 DEF SetMember, SocialTypes
  <2> QED
    BY <1>5, <2>2, <2>3 DEF SetMember, SocialTypes, cacheVars, appVars
<1>6. ASSUME NEW T \in SUBSET Notices, NEW n \in Counts, Notify(T, n)
      PROVE  SocialTypes'
  <2> DEFINE c == [t \in T |-> n]
  <2>1. c \in [T -> Counts]
    OBVIOUS
  <2>2. c \in Maps(Notices, Counts)
    BY <2>1, MapsMember
  <2> HIDE DEF c
  <2>3. Send(<<[emsg |-> "Notifications", counts |-> c]>>)
    BY <1>6 DEF Notify, c
  <2>4. wire' \in Seq(Packets) /\ (~online => wire' = wire)
    BY <2>2, <2>3, SendOne, PacketMembers
  <2> QED
    BY <1>6, <2>4 DEF Notify, SocialTypes, cacheVars, appVars, serverVars, histVars
<1> QED
  BY <1>1, <1>2, <1>3, <1>4, <1>5, <1>6 DEF Ids

\* The message the server takes.
LEMMA ServeFacts ==
  ASSUME SocialTypes, Serve
  PROVE  /\ online /\ Head(out) \in Messages /\ out' \in Seq(Messages)
         /\ Head(out) = out[1] /\ Popped(out, out')
         /\ Head(out).emsg = "Ask" => Head(out).ids \in SUBSET Ids
         /\ Head(out).emsg = "ChangeStatus" => Head(out).name \in Names
<1>1. out \in Seq(Messages) /\ out # <<>> /\ out' = Tail(out) /\ online
  BY DEF Serve, SocialTypes
<1>2. /\ Head(out) \in Messages /\ out' \in Seq(Messages) /\ Head(out) = out[1]
      /\ Popped(out, out')
  BY <1>1, TailElements, TailPops
<1>3. /\ Head(out).emsg = "Ask" => Head(out).ids \in SUBSET Ids
      /\ Head(out).emsg = "ChangeStatus" => Head(out).name \in Names
  BY <1>2 DEF Messages
<1> QED
  BY <1>1, <1>2, <1>3

LEMMA TypesServe ==
  ASSUME SocialTypes, Serve
  PROVE  SocialTypes'
<1>1. wire' \in Seq(Packets) /\ persona' \in [Ids -> Names] /\ inRoom' \in BOOLEAN
  <2>1. CASE Head(out).emsg = "Ask"
    <3> DEFINE ps == LET s == SetToSeq(Head(out).ids)
                     IN  [k \in 1..Len(s) |-> PersonaOf(s[k], persona[s[k]])]
    <3>1. Send(ps) /\ UNCHANGED <<persona, inRoom>>
      BY <2>1 DEF Serve
    <3>2. ps \in Seq(Packets)
      BY <2>1, ServeFacts, AnswerElements
    <3> HIDE DEF ps
    <3> QED
      BY <3>1, <3>2, SendFacts DEF SocialTypes
  <2>2. CASE Head(out).emsg = "ChangeStatus"
    <3>1. Send(<<PersonaOf(Own, Head(out).name)>>) /\ UNCHANGED inRoom
          /\ persona' = [persona EXCEPT ![Own] = Head(out).name]
      BY <2>2 DEF Serve
    <3>2. PersonaOf(Own, Head(out).name) \in Packets
      BY <2>2, ServeFacts, PacketMembers DEF Ids
    <3> QED
      BY <2>2, <3>1, <3>2, ServeFacts, SendOne DEF SocialTypes
  <2>3. CASE Head(out).emsg = "Join"
    <3>1. /\ Send(<<[emsg |-> "ChatEnter", room |-> Room, clan |-> Clan, members |-> members]>>)
          /\ UNCHANGED persona /\ inRoom' = TRUE
      BY <2>3 DEF Serve
    <3>2. [emsg |-> "ChatEnter", room |-> Room, clan |-> Clan, members |-> members] \in Packets
      BY PacketMembers DEF SocialTypes
    <3> QED
      BY <3>1, <3>2, SendOne DEF SocialTypes
  <2>4. CASE Head(out).emsg = "Leave"
    BY <2>4 DEF Serve, SocialTypes
  <2> QED
    BY <2>1, <2>2, <2>3, <2>4 DEF Serve
<1>2. online /\ out' \in Seq(Messages)
  BY ServeFacts
<1> QED
  BY <1>1, <1>2 DEF Serve, SocialTypes, cacheVars, appVars, countVars

\* Every step keeps the types.
LEMMA TypesStep == SocialTypes /\ [Next]_vars => SocialTypes'
<1> SUFFICES ASSUME SocialTypes, [Next]_vars PROVE SocialTypes'
  OBVIOUS
<1>1. CASE UNCHANGED vars
  BY <1>1 DEF SocialTypes, vars, cacheVars, appVars, serverVars, histVars, countVars
<1>2. CASE Next
  BY <1>2, TypesRead, TypesReader, TypesApplication, TypesServer, TypesServe DEF Next, ReaderStep
<1> QED
  BY <1>1, <1>2

\* Every variable has its type, and without a connection nothing is under way to or from the
\* server, and the client is in no room.
THEOREM SocialTypesCorrect == Spec => []SocialTypes
<1>1. Init => SocialTypes
  BY InitTypes
<1>2. SocialTypes /\ [Next]_vars => SocialTypes'
  BY TypesStep
<1> QED
  BY <1>1, <1>2, PTL DEF Spec

\* Which packet an effect comes from.
EffectOf(e, p) ==
  /\ e.do \in {"count", "delete"} => p.emsg = "Notifications"
  /\ e.do = "emit" => /\ e.event = "Notification" => p.emsg = "Notifications"
                      /\ e.event = "State" => p.emsg = "FriendsList" /\ p.incremental
                      /\ e.event = "FriendsList" => p.emsg = "FriendsList" /\ ~p.incremental
  /\ e.do = "relate" => p.emsg = "FriendsList" /\ e.id \in DOMAIN p.rels /\ e.val = p.rels[e.id]
  /\ e.do = "name" => /\ p.emsg \in {"PersonaState", "ClanState"}
                      /\ e.id = p.id /\ e.val = p.name /\ p.name # Blank
  /\ e.do = "ask" => (p.emsg = "FriendsList" /\ ~p.incremental) \/ p.emsg = "AccountInfo"
  /\ e.do = "chat" => p.emsg = "ChatEnter"
  /\ e.do = "enter" => \/ p.emsg = "ChatEnter" /\ e.val \in p.members
                       \/ p.emsg = "ChatMember" /\ p.state = "Entered" /\ e.val = p.id
  /\ e.do = "leave" => p.emsg = "ChatMember" /\ p.state \in Removals /\ e.val = p.id

LEMMA HandledEffects ==
  ASSUME NEW p \in Packets, DOMAIN notifications \subseteq Notices, NEW q, q = HandlePacket(p)
  PROVE  \A k \in 1..Len(q) : EffectOf(q[k], p)
<1>1. p.emsg \in {"FriendsList", "PersonaState", "ClanState", "AccountInfo", "ChatEnter",
                  "ChatMember", "Notifications"}
      /\ (p.emsg = "FriendsList" => p.incremental \in BOOLEAN)
  BY PacketFields
<1> TAKE k \in 1..Len(q)
<1>2. CASE p.emsg = "FriendsList" /\ p.incremental
  <2>1. PICK i \in DOMAIN p.rels : q[k] = Eff("relate", i, p.rels[i]) \/ q[k] = Emit("State", i, p.rels[i])
    <3>1. HasPairs(q, "relate", "State", p.rels)
      BY <1>2, IncrementalElements
    <3> QED
      BY <3>1 DEF HasPairs
  <2> QED
    BY <1>2, <2>1 DEF EffectOf, Eff, Emit
<1>3. CASE p.emsg = "FriendsList" /\ ~p.incremental
  <2>1. \/ \E i \in DOMAIN p.rels : q[k] = Eff("relate", i, p.rels[i])
        \/ q[k] = Eff("ask", DOMAIN p.rels, Blank)
        \/ q[k] = Emit("FriendsList", Own, Blank)
    <3>1. HasList(q, p.rels)
      BY <1>3, FullElements
    <3>2. k \in 1..Len(q) - 2 \/ k = Len(q) - 1 \/ k = Len(q)
      BY <3>1 DEF HasList
    <3> QED
      BY <3>1, <3>2 DEF HasList
  <2>2. ASSUME NEW i \in DOMAIN p.rels, q[k] = Eff("relate", i, p.rels[i]) PROVE EffectOf(q[k], p)
    BY <1>3, <2>2 DEF EffectOf, Eff
  <2>3. CASE q[k] = Eff("ask", DOMAIN p.rels, Blank)
    BY <1>3, <2>3 DEF EffectOf, Eff
  <2>4. CASE q[k] = Emit("FriendsList", Own, Blank)
    BY <1>3, <2>4 DEF EffectOf, Emit
  <2> QED
    BY <2>1, <2>2, <2>3, <2>4
<1>4. CASE p.emsg \in {"PersonaState", "ClanState"}
  <2>1. \/ q[k] = Eff("name", p.id, p.name) /\ p.name # Blank
        \/ q[k] = Emit("Other", p.id, Blank)
    <3>1. PICK n \in 1..2 : n = Len(q)
      BY <1>4, PersonaElements
    <3>2. (n = 2 /\ k = 1) \/ k = n
      BY <3>1
    <3> QED
      BY <1>4, <3>1, <3>2, PersonaElements
  <2> QED
    BY <1>4, <2>1 DEF EffectOf, Eff, Emit
<1>5. CASE p.emsg = "AccountInfo"
  <2>1. q[k] = Eff("ask", {Own}, Blank)
    <3>1. PICK n : n = Len(q)
      OBVIOUS
    <3>2. n = 1 /\ q[1] = Eff("ask", {Own}, Blank)
      BY <1>5, <3>1, AccountElements
    <3>3. k = 1
      BY <3>1, <3>2
    <3> QED
      BY <3>2, <3>3
  <2> QED
    BY <1>5, <2>1 DEF EffectOf, Eff, Emit
<1>6. CASE p.emsg = "ChatEnter"
  <2>1. \/ q[k] = Eff("chat", Room, Clan)
        \/ \E u \in p.members : q[k] = Eff("enter", Room, u)
        \/ q[k] = Emit("Other", Room, Blank)
    <3>1. Len(q) \in Nat /\ Len(q) >= 2
      BY <1>6, EnterElements
    <3>2. k = 1 \/ k \in 2..Len(q) - 1 \/ k = Len(q)
      BY <3>1
    <3> QED
      BY <1>6, <3>2, EnterElements
  <2>2. CASE q[k] = Eff("chat", Room, Clan)
    BY <1>6, <2>2 DEF EffectOf, Eff
  <2>3. ASSUME NEW u \in p.members, q[k] = Eff("enter", Room, u) PROVE EffectOf(q[k], p)
    BY <1>6, <2>3 DEF EffectOf, Eff
  <2>4. CASE q[k] = Emit("Other", Room, Blank)
    BY <1>6, <2>4 DEF EffectOf, Emit
  <2> QED
    BY <2>1, <2>2, <2>3, <2>4
<1>7. CASE p.emsg = "ChatMember"
  <2>1. \/ q[k] = Eff("enter", Room, p.id) /\ p.state = "Entered"
        \/ q[k] = Eff("leave", Room, p.id) /\ p.state \in Removals
        \/ q[k] = Emit("Other", Room, Blank)
    <3>1. PICK n \in 1..2 : n = Len(q)
      BY <1>7, MemberElements
    <3>2. (n = 2 /\ k = 1) \/ k = n
      BY <3>1
    <3> QED
      BY <1>7, <3>1, <3>2, MemberElements
  <2> QED
    BY <1>7, <2>1 DEF EffectOf, Eff, Emit
<1>8. CASE p.emsg = "Notifications"
  <2>1. PICK t, n : q[k] \in {Eff("count", t, n), Eff("delete", t, n), Emit("Notification", t, n)}
    BY <1>8, NotificationsElements
  <2> QED
    BY <1>8, <2>1 DEF EffectOf, Eff, Emit
<1> QED
  BY <1>1, <1>2, <1>3, <1>4, <1>5, <1>6, <1>7, <1>8

\* The packet the read loop takes, and the effects it then has to carry out.
LEMMA ReadFacts ==
  ASSUME SocialTypes, Read
  PROVE  /\ online /\ todo = <<>> /\ Len(todo) = 0
         /\ Head(wire) \in Packets /\ Head(wire) = wire[1] /\ Popped(wire, wire')
         /\ todo' = HandlePacket(Head(wire)) /\ Len(todo') \in Nat
         /\ DOMAIN notifications \subseteq Notices
         /\ \A k \in 1..Len(todo') : EffectOf(todo'[k], Head(wire))
<1>1. /\ wire \in Seq(Packets) /\ wire # <<>> /\ wire' = Tail(wire) /\ online
      /\ DOMAIN notifications \subseteq Notices
      /\ todo = <<>> /\ todo' = HandlePacket(Head(wire))
  BY MapsMember DEF Read, SocialTypes
<1>2. Head(wire) \in Packets /\ Head(wire) = wire[1] /\ Popped(wire, wire')
  BY <1>1, TailElements, TailPops
<1>3. \A k \in 1..Len(todo') : EffectOf(todo'[k], Head(wire))
  BY <1>1, <1>2, HandledEffects
<1>4. Len(todo') \in Nat
  BY <1>1, <1>2, HandledType, LenProperties
<1>5. Len(todo) = 0
  BY <1>1
<1> QED
  BY <1>1, <1>2, <1>3, <1>4, <1>5

-----------------------------------------------------------------------------
(* Notifications *)

\* An effect that is neither a store nor an event of t may go.
LEMMA BadgePop ==
  ASSUME NEW t, NEW td, NEW r, NEW ev, NEW st, NEW to, NEW want,
         BadgeOK(t, td, ev, st, to, want), Popped(td, r),
         ~IsStore(td[1], t), ~IsTell(td[1], t)
  PROVE  BadgeOK(t, r, ev, st, to, want)
  BY DEF BadgeOK, Popped

\* A store of t.
LEMMA BadgeStore ==
  ASSUME NEW t, NEW td, NEW r, NEW ev, NEW st, NEW to, NEW want,
         BadgeOK(t, td, ev, st, to, want), Popped(td, r),
         IsStore(td[1], t), ~IsTell(td[1], t)
  PROVE  BadgeOK(t, r, ev, want, to, want)
  BY DEF BadgeOK, Popped

\* An event of t is emitted, or another one.
LEMMA BadgeEmit ==
  ASSUME NEW t, NEW td, NEW r, NEW ev, NEW ew, NEW st, NEW to, NEW want,
         BadgeOK(t, td, ev, st, to, want), Popped(td, r), Pushed(ev, td[1], ew),
         ~IsStore(td[1], t)
  PROVE  BadgeOK(t, r, ew, st, to, want)
<1>1. (\A k \in 1..Len(r) : ~IsTell(r[k], t)) /\ ~IsTell(td[1], t) =>
         \A k \in 1..Len(td) : ~IsTell(td[k], t)
  BY DEF Popped
<1>2. ASSUME \A k \in 1..Len(r) : ~IsTell(r[k], t),
             NEW k \in 1..Len(ew), IsTell(ew[k], t), \A j \in k+1..Len(ew) : ~IsTell(ew[j], t)
      PROVE  ew[k].val = want
  <2>1. CASE k = Len(ew)
    BY <1>2, <2>1 DEF BadgeOK, Popped, Pushed
  <2>2. CASE k # Len(ew)
    <3>1. Len(ew) \in k+1..Len(ew) /\ k \in 1..Len(ev) /\ ew[k] = ev[k] /\ ew[Len(ew)] = td[1]
      BY <2>2 DEF Pushed
    <3>2. \A j \in k+1..Len(ev) : ~IsTell(ev[j], t)
      BY <1>2, <3>1 DEF Pushed
    <3> QED
      BY <1>1, <1>2, <3>1, <3>2 DEF BadgeOK
  <2> QED
    BY <2>1, <2>2
<1>3. ASSUME \A k \in 1..Len(r) : ~IsTell(r[k], t), \A k \in 1..Len(ew) : ~IsTell(ew[k], t)
      PROVE  to = want
  BY <1>1, <1>3 DEF BadgeOK, Pushed
<1>4. /\ \A k \in 1..Len(r) : IsStore(r[k], t) \/ IsTell(r[k], t) => r[k].val = want
      /\ (\A k \in 1..Len(r) : ~IsStore(r[k], t)) => st = want
  BY DEF BadgeOK, Popped
<1> QED
  BY <1>2, <1>3, <1>4 DEF BadgeOK

\* An event is taken.
LEMMA BadgeTake ==
  ASSUME NEW t, NEW td, NEW ev, NEW ew, NEW st, NEW to, NEW want,
         BadgeOK(t, td, ev, st, to, want), Popped(ev, ew)
  PROVE  BadgeOK(t, td, ew, st, IF IsTell(ev[1], t) THEN ev[1].val ELSE to, want)
<1>1. ASSUME \A k \in 1..Len(td) : ~IsTell(td[k], t),
             NEW k \in 1..Len(ew), IsTell(ew[k], t), \A j \in k+1..Len(ew) : ~IsTell(ew[j], t)
      PROVE  ew[k].val = want
  <2>1. k + 1 \in 1..Len(ev) /\ ew[k] = ev[k + 1]
    BY DEF Popped
  <2>2. \A j \in (k + 1)+1..Len(ev) : j - 1 \in k+1..Len(ew) /\ ev[j] = ew[j - 1]
    BY DEF Popped
  <2> QED
    BY <1>1, <2>1, <2>2 DEF BadgeOK
<1>2. ASSUME \A k \in 1..Len(td) : ~IsTell(td[k], t), \A k \in 1..Len(ew) : ~IsTell(ew[k], t)
      PROVE  (IF IsTell(ev[1], t) THEN ev[1].val ELSE to) = want
  <2>1. \A k \in 2..Len(ev) : ~IsTell(ev[k], t)
    BY <1>2 DEF Popped
  <2>2. 1 \in 1..Len(ev) /\ \A k \in 1..Len(ev) : k = 1 \/ k \in 2..Len(ev)
    BY DEF Popped
  <2> QED
    BY <1>2, <2>1, <2>2 DEF BadgeOK
<1> QED
  BY <1>1, <1>2 DEF BadgeOK

\* The handler of a packet.
LEMMA BadgeRead ==
  ASSUME SocialTypes, Read, NEW t \in Notices, BadgeInv(t)
  PROVE  BadgeInv(t)'
<1> DEFINE p == Head(wire)
<1>1. /\ Len(todo) = 0 /\ p \in Packets /\ todo' = HandlePacket(p) /\ Len(todo') \in Nat
      /\ DOMAIN notifications \subseteq Notices
      /\ \A k \in 1..Len(todo') : EffectOf(todo'[k], p)
  BY ReadFacts
<1>2. UNCHANGED <<events, notifications, badge>>
  BY DEF Read, cacheVars, appVars
<1> HIDE DEF p
<1>3. PICK ct, bd, nt : ct = Count(lastCounts', t) /\ bd = Count(badge, t) /\ nt = Count(notifications, t)
  OBVIOUS
<1>4. SUFFICES BadgeOK(t, todo', events, nt, bd, ct)
  BY <1>2, <1>3 DEF BadgeInv, Count
<1>5. /\ nt = Count(lastCounts, t)
      /\ \A k \in 1..Len(events) :
           IsTell(events[k], t) /\ (\A j \in k+1..Len(events) : ~IsTell(events[j], t))
             => events[k].val = nt
      /\ (\A k \in 1..Len(events) : ~IsTell(events[k], t)) => bd = nt
  BY <1>1, <1>3 DEF BadgeInv, BadgeOK
<1>6. CASE p.emsg # "Notifications"
  <2>1. \A k \in 1..Len(todo') : ~IsStore(todo'[k], t) /\ ~IsTell(todo'[k], t)
    BY <1>1, <1>6 DEF EffectOf, IsStore, IsTell
  <2>2. lastCounts' = lastCounts
    BY <1>6 DEF Read, p
  <2>3. ct = nt
    BY <1>3, <1>5, <2>2
  <2> QED
    BY <1>5, <2>1, <2>3 DEF BadgeOK
<1>7. CASE p.emsg = "Notifications"
  <2>1. PICK q : q = todo'
    OBVIOUS
  <2>2. /\ \A k \in 1..Len(q) : \E s \in DOMAIN p.counts \cup DOMAIN notifications :
             \/ /\ s \in DOMAIN p.counts
                /\ q[k] \in {Eff("count", s, p.counts[s]), Emit("Notification", s, p.counts[s])}
             \/ /\ s \notin DOMAIN p.counts
                /\ q[k] \in {Eff("delete", s, 0), Emit("Notification", s, 0)}
        /\ \A s \in DOMAIN p.counts \cup DOMAIN notifications :
             /\ \E k \in 1..Len(q) : IsStore(q[k], s)
             /\ \E k \in 1..Len(q) : IsTell(q[k], s)
    BY <1>1, <1>7, <2>1, NotificationsElements
  <2>3. lastCounts' = p.counts
    BY <1>7 DEF Read, p
  <2>4. ct = IF t \in DOMAIN p.counts THEN p.counts[t] ELSE 0
    BY <1>3, <2>3 DEF Count
  <2>5. ASSUME NEW k \in 1..Len(q), IsStore(q[k], t) \/ IsTell(q[k], t)
        PROVE  q[k].val = ct
    <3>1. PICK s \in DOMAIN p.counts \cup DOMAIN notifications :
             \/ /\ s \in DOMAIN p.counts
                /\ q[k] \in {Eff("count", s, p.counts[s]), Emit("Notification", s, p.counts[s])}
             \/ /\ s \notin DOMAIN p.counts
                /\ q[k] \in {Eff("delete", s, 0), Emit("Notification", s, 0)}
      BY <2>2
    <3>2. q[k].id = s
      BY <3>1 DEF Eff, Emit
    <3>3. s = t
      BY <2>5, <3>2 DEF IsStore, IsTell
    <3> QED
      BY <2>4, <3>1, <3>3 DEF Eff, Emit
  <2>6. CASE t \in DOMAIN p.counts \cup DOMAIN notifications
    BY <2>1, <2>2, <2>5, <2>6 DEF BadgeOK
  <2>7. CASE t \notin DOMAIN p.counts \cup DOMAIN notifications
    <3>1. ct = 0 /\ nt = 0
      BY <1>3, <2>4, <2>7 DEF Count
    <3> QED
      BY <1>5, <2>1, <2>5, <3>1 DEF BadgeOK
  <2> QED
    BY <2>6, <2>7
<1> QED
  BY <1>6, <1>7

\* What a step of the map of counts makes of a count.
LEMMA CountSteps ==
  ASSUME NEW c, NEW i, NEW v, NEW t
  PROVE  /\ Count(With(c, i, v), t) = IF t = i THEN v ELSE Count(c, t)
         /\ Count(Without(c, i), t) = IF t = i THEN 0 ELSE Count(c, t)
  BY DEF Count, With, Without

LEMMA BadgeInvStep ==
  ASSUME SocialTypes, [Next]_vars, NEW t \in Notices, BadgeInv(t)
  PROVE  BadgeInv(t)'
<1>1. ASSUME UNCHANGED <<todo, events, notifications, badge, lastCounts>>
      PROVE  BadgeInv(t)'
  BY <1>1 DEF BadgeInv, BadgeOK, Count, IsStore, IsTell
<1>2. ASSUME NEW do \in {"relate", "name", "chat", "enter", "leave", "ask"}, Now(do),
             UNCHANGED <<events, notifications, badge, lastCounts>>
      PROVE  BadgeInv(t)'
  <2>1. Popped(todo, todo') /\ todo[1].do = do
    BY <1>2, NowFacts
  <2>2. ~IsStore(todo[1], t) /\ ~IsTell(todo[1], t)
    BY <2>1 DEF IsStore, IsTell
  <2>3. BadgeOK(t, todo', events, Count(notifications, t), Count(badge, t), Count(lastCounts, t))
    BY <2>1, <2>2, BadgePop DEF BadgeInv
  <2> QED
    BY <1>2, <2>3 DEF BadgeInv, Count
<1>3. CASE StoreCount
  <2>1. /\ Popped(todo, todo') /\ E = todo[1] /\ E \in Effects /\ E.do \in {"count", "delete"}
        /\ \/ E.do = "count" /\ notifications' = With(notifications, E.id, E.val)
           \/ E.do = "delete" /\ notifications' = Without(notifications, E.id)
    BY <1>3, NowFacts DEF StoreCount
  <2>2. UNCHANGED <<events, badge, lastCounts>>
    BY <1>3 DEF StoreCount, appVars, histVars
  <2>3. ~IsTell(todo[1], t) /\ (IsStore(todo[1], t) <=> E.id = t)
    BY <2>1 DEF IsTell, IsStore
  <2>4. CASE E.id # t
    <3>1. Count(notifications', t) = Count(notifications, t)
      BY <2>1, <2>4, CountSteps
    <3>2. BadgeOK(t, todo', events, Count(notifications, t), Count(badge, t), Count(lastCounts, t))
      BY <2>1, <2>3, <2>4, BadgePop DEF BadgeInv
    <3> QED
      BY <2>2, <3>1, <3>2 DEF BadgeInv, Count
  <2>5. CASE E.id = t
    <3>1. E.val = Count(lastCounts, t)
      BY <2>1, <2>3, <2>5 DEF BadgeInv, BadgeOK, Popped
    <3>2. BadgeOK(t, todo', events, Count(lastCounts, t), Count(badge, t), Count(lastCounts, t))
      BY <2>1, <2>3, <2>5, BadgeStore DEF BadgeInv
    <3>3. Count(notifications', t) = Count(lastCounts, t)
      <4>1. CASE E.do = "count"
        BY <2>1, <2>5, <3>1, <4>1, CountSteps
      <4>2. CASE E.do = "delete"
        BY <2>1, <2>5, <3>1, <4>2, CountSteps, EffectFields
      <4> QED
        BY <2>1, <4>1, <4>2
    <3> QED
      BY <2>2, <3>2, <3>3 DEF BadgeInv, Count
  <2> QED
    BY <2>4, <2>5
<1>4. CASE EmitEvent
  <2>1. Popped(todo, todo') /\ E = todo[1] /\ E \in Effects /\ E.do = "emit"
    BY <1>4, NowFacts DEF EmitEvent
  <2>2. E \in Events /\ ~IsStore(todo[1], t)
    BY <2>1, EffectFields DEF IsStore
  <2>3. Pushed(events, todo[1], events')
    BY <1>4, <2>1, <2>2, AppendPushes DEF EmitEvent, SocialTypes
  <2>4. UNCHANGED <<notifications, badge, lastCounts>>
    BY <1>4 DEF EmitEvent, cacheVars, appVars, histVars
  <2>5. BadgeOK(t, todo', events', Count(notifications, t), Count(badge, t), Count(lastCounts, t))
    BY <2>1, <2>2, <2>3, BadgeEmit DEF BadgeInv
  <2> QED
    BY <2>4, <2>5 DEF BadgeInv, Count
<1>5. CASE Poll
  <2>1. events \in Seq(Events) /\ events # <<>> /\ events' = Tail(events)
    BY <1>5 DEF Poll, SocialTypes
  <2>2. Popped(events, events') /\ Head(events) = events[1] /\ Head(events) \in Events
    BY <2>1, TailElements, TailPops
  <2>3. UNCHANGED <<todo, notifications, lastCounts>>
    BY <1>5 DEF Poll, cacheVars, histVars
  <2>4. badge' = IF events[1].event = "Notification" THEN With(badge, events[1].id, events[1].val) ELSE badge
    BY <1>5, <2>2 DEF Poll
  <2>5. IsTell(events[1], t) <=> events[1].event = "Notification" /\ events[1].id = t
    BY <2>2, EventFields DEF IsTell
  <2>6. Count(badge', t) = IF IsTell(events[1], t) THEN events[1].val ELSE Count(badge, t)
    <3>1. CASE events[1].event = "Notification"
      BY <2>4, <2>5, <3>1, CountSteps
    <3>2. CASE events[1].event # "Notification"
      BY <2>4, <2>5, <3>2
    <3> QED
      BY <3>1, <3>2
  <2>7. BadgeOK(t, todo, events', Count(notifications, t),
                IF IsTell(events[1], t) THEN events[1].val ELSE Count(badge, t), Count(lastCounts, t))
    BY <2>2, BadgeTake DEF BadgeInv
  <2> QED
    BY <2>3, <2>6, <2>7 DEF BadgeInv, Count
<1>6. CASE StoreRelation \/ StoreName \/ StoreChat \/ RequestFriendListInfo
  <2>1. CASE StoreRelation
    BY <1>2, <2>1 DEF StoreRelation, appVars
  <2>2. CASE StoreName
    BY <1>2, <2>2 DEF StoreName, appVars, histVars
  <2>3. CASE StoreChat
    BY <1>2, <2>3 DEF StoreChat, appVars, histVars
  <2>4. CASE RequestFriendListInfo
    BY <1>2, <2>4 DEF RequestFriendListInfo, cacheVars, appVars, histVars
  <2> QED
    BY <1>6, <2>1, <2>2, <2>3, <2>4
<1>7. CASE LogOn \/ Drop \/ Serve \/ JoinChat \/ LeaveChat
  BY <1>1, <1>7 DEF LogOn, Drop, Serve, JoinChat, LeaveChat, cacheVars, appVars, histVars
<1>8. ASSUME NEW name, SetPersonaName(name) PROVE BadgeInv(t)'
  BY <1>1, <1>8 DEF SetPersonaName, appVars, histVars
<1>9. ASSUME NEW i, NEW r, SetRelation(i, r) PROVE BadgeInv(t)'
  BY <1>1, <1>9 DEF SetRelation, cacheVars, appVars
<1>10. ASSUME NEW i, NEW name, SetPersona(i, name) PROVE BadgeInv(t)'
  BY <1>1, <1>10 DEF SetPersona, cacheVars, appVars, histVars
<1>11. ASSUME NEW u, NEW state, SetMember(u, state) PROVE BadgeInv(t)'
  BY <1>1, <1>11 DEF SetMember, cacheVars, appVars
<1>12. ASSUME NEW T, NEW n, Notify(T, n) PROVE BadgeInv(t)'
  BY <1>1, <1>12 DEF Notify, cacheVars, appVars, histVars
<1>13. CASE UNCHANGED vars
  BY <1>1, <1>13 DEF vars, cacheVars, appVars, histVars
<1> QED
  BY <1>3, <1>4, <1>5, <1>6, <1>7, <1>8, <1>9, <1>10, <1>11, <1>12, <1>13, BadgeRead
  DEF Next, ReaderStep

\* The counts an application folds from the NotificationEvents, and the map's, are those of
\* the last packet once no effect and no event is under way.
THEOREM BadgesAgree == Spec => []BadgeAgrees
<1> DEFINE Inv == SocialTypes /\ \A t \in Notices : BadgeInv(t)
<1>1. Init => Inv
  <2> SUFFICES ASSUME Init, NEW t \in Notices PROVE BadgeInv(t)
    BY InitTypes
  <2> QED
    BY DEF Init, Empty, BadgeInv, BadgeOK, Count
<1>2. Inv /\ [Next]_vars => Inv'
  <2> SUFFICES ASSUME Inv, [Next]_vars PROVE Inv'
    OBVIOUS
  <2>1. \A t \in Notices : BadgeInv(t)'
    BY BadgeInvStep
  <2> QED
    BY <2>1, TypesStep
<1>3. Inv => BadgeAgrees
  <2> SUFFICES ASSUME Inv, todo = <<>>, events = <<>>, NEW t \in Notices
               PROVE  /\ Count(badge, t) = Count(lastCounts, t)
                      /\ Count(notifications, t) = Count(lastCounts, t)
    BY DEF BadgeAgrees, Count
  <2> QED
    BY DEF BadgeInv, BadgeOK
<1> QED
  BY <1>1, <1>2, <1>3, PTL DEF Spec

-----------------------------------------------------------------------------
(* The application's view of the friends and groups *)

\* An effect that neither stores i nor is an event about it may go.
LEMMA ViewPop ==
  ASSUME NEW i, NEW td, NEW r, NEW ev, NEW held, NEW now, NEW seen,
         ViewOK(i, td, ev, held, seen), Popped(td, r), i \in held <=> i \in now,
         ~IsRelate(td[1], i), ~IsAbout(td[1], i)
  PROVE  ViewOK(i, r, ev, now, seen)
<1>1. ASSUME NEW k \in 1..Len(r), IsRelate(r[k], i)
      PROVE  \E m \in k+1..Len(r) : IsAbout(r[m], i)
  <2>1. k + 1 \in 1..Len(td) /\ IsRelate(td[k + 1], i)
    BY <1>1 DEF Popped
  <2>2. PICK m \in (k + 1)+1..Len(td) : IsAbout(td[m], i)
    BY <2>1 DEF ViewOK
  <2>3. m - 1 \in k+1..Len(r) /\ r[m - 1] = td[m]
    BY <2>2 DEF Popped
  <2> QED
    BY <2>2, <2>3
<1>2. (\A k \in 1..Len(r) : ~IsRelate(r[k], i)) => \A k \in 1..Len(td) : ~IsRelate(td[k], i)
  BY DEF Popped
<1>3. (\A k \in 1..Len(r) : ~IsAbout(r[k], i)) => \A k \in 1..Len(td) : ~IsAbout(td[k], i)
  BY DEF Popped
<1>4. ASSUME NEW k \in 1..Len(r), IsState(r[k], i)
      PROVE  /\ \A j \in 1..Len(r) : IsRelate(r[j], i) => r[j].val = r[k].val
             /\ (\A j \in 1..Len(r) : ~IsRelate(r[j], i)) => (r[k].val # "None" <=> i \in now)
  <2>1. k + 1 \in 1..Len(td) /\ r[k] = td[k + 1] /\ IsState(td[k + 1], i)
    BY <1>4 DEF Popped
  <2>2. /\ \A j \in 1..Len(td) : IsRelate(td[j], i) => td[j].val = r[k].val
        /\ (\A j \in 1..Len(td) : ~IsRelate(td[j], i)) => (r[k].val # "None" <=> i \in held)
    BY <2>1 DEF ViewOK
  <2> QED
    BY <1>2, <2>2 DEF Popped
<1>5. (\A k \in 1..Len(r) : ~IsAbout(r[k], i)) =>
        /\ \A k \in 1..Len(ev) :
             IsState(ev[k], i) /\ (\A j \in k+1..Len(ev) : ~IsAbout(ev[j], i))
               => (ev[k].val # "None" <=> i \in now)
        /\ (\A k \in 1..Len(ev) : ~IsAbout(ev[k], i)) => (i \in seen <=> i \in now)
  BY <1>3 DEF ViewOK
<1> QED
  BY <1>1, <1>4, <1>5 DEF ViewOK

\* The relationship with i is stored.
LEMMA ViewRelate ==
  ASSUME NEW i, NEW td, NEW r, NEW ev, NEW held, NEW now, NEW seen,
         ViewOK(i, td, ev, held, seen), Popped(td, r), i \in now <=> td[1].val # "None",
         IsRelate(td[1], i)
  PROVE  ViewOK(i, r, ev, now, seen)
<1>1. PICK a \in 1..Len(r) : IsAbout(r[a], i)
  <2>1. PICK m \in 2..Len(td) : IsAbout(td[m], i)
    BY DEF ViewOK, Popped
  <2>2. m - 1 \in 1..Len(r) /\ r[m - 1] = td[m]
    BY <2>1 DEF Popped
  <2> QED
    BY <2>1, <2>2
<1>2. ASSUME NEW k \in 1..Len(r), IsRelate(r[k], i)
      PROVE  \E m \in k+1..Len(r) : IsAbout(r[m], i)
  <2>1. k + 1 \in 1..Len(td) /\ IsRelate(td[k + 1], i)
    BY <1>2 DEF Popped
  <2>2. PICK m \in (k + 1)+1..Len(td) : IsAbout(td[m], i)
    BY <2>1 DEF ViewOK
  <2>3. m - 1 \in k+1..Len(r) /\ r[m - 1] = td[m]
    BY <2>2 DEF Popped
  <2> QED
    BY <2>2, <2>3
<1>3. ASSUME NEW k \in 1..Len(r), IsState(r[k], i)
      PROVE  /\ \A j \in 1..Len(r) : IsRelate(r[j], i) => r[j].val = r[k].val
             /\ r[k].val # "None" <=> i \in now
  <2>1. k + 1 \in 1..Len(td) /\ r[k] = td[k + 1] /\ IsState(td[k + 1], i)
    BY <1>3 DEF Popped
  <2>2. \A j \in 1..Len(td) : IsRelate(td[j], i) => td[j].val = r[k].val
    BY <2>1 DEF ViewOK
  <2>3. td[1].val = r[k].val
    BY <2>2 DEF Popped
  <2> QED
    BY <2>2, <2>3 DEF Popped
<1> QED
  BY <1>1, <1>2, <1>3 DEF ViewOK

\* An event is emitted.
LEMMA ViewEmit ==
  ASSUME NEW i, NEW td, NEW r, NEW ev, NEW ew, NEW held, NEW seen,
         ViewOK(i, td, ev, held, seen), Popped(td, r), Pushed(ev, td[1], ew),
         ~IsRelate(td[1], i)
  PROVE  ViewOK(i, r, ew, held, seen)
<1>1. ASSUME NEW k \in 1..Len(r), IsRelate(r[k], i)
      PROVE  \E m \in k+1..Len(r) : IsAbout(r[m], i)
  <2>1. k + 1 \in 1..Len(td) /\ IsRelate(td[k + 1], i)
    BY <1>1 DEF Popped
  <2>2. PICK m \in (k + 1)+1..Len(td) : IsAbout(td[m], i)
    BY <2>1 DEF ViewOK
  <2>3. m - 1 \in k+1..Len(r) /\ r[m - 1] = td[m]
    BY <2>2 DEF Popped
  <2> QED
    BY <2>2, <2>3
<1>2. (\A k \in 1..Len(r) : ~IsRelate(r[k], i)) => \A k \in 1..Len(td) : ~IsRelate(td[k], i)
  BY DEF Popped
<1>3. (\A k \in 1..Len(r) : ~IsAbout(r[k], i)) /\ ~IsAbout(td[1], i)
        => \A k \in 1..Len(td) : ~IsAbout(td[k], i)
  BY DEF Popped
<1>4. (\A k \in 1..Len(r) : ~IsAbout(r[k], i)) => \A k \in 1..Len(r) : ~IsRelate(r[k], i)
  BY <1>1 DEF Popped
<1>5. ASSUME NEW k \in 1..Len(td), IsState(td[k], i)
      PROVE  /\ \A j \in 1..Len(r) : IsRelate(r[j], i) => r[j].val = td[k].val
             /\ (\A j \in 1..Len(r) : ~IsRelate(r[j], i)) => (td[k].val # "None" <=> i \in held)
  <2>1. /\ \A j \in 1..Len(td) : IsRelate(td[j], i) => td[j].val = td[k].val
        /\ (\A j \in 1..Len(td) : ~IsRelate(td[j], i)) => (td[k].val # "None" <=> i \in held)
    BY <1>5 DEF ViewOK
  <2> QED
    BY <1>2, <2>1 DEF Popped
<1>6. ASSUME \A k \in 1..Len(r) : ~IsAbout(r[k], i),
             NEW k \in 1..Len(ew), IsState(ew[k], i), \A j \in k+1..Len(ew) : ~IsAbout(ew[j], i)
      PROVE  ew[k].val # "None" <=> i \in held
  <2>1. CASE k = Len(ew)
    <3>1. ew[k] = td[1] /\ 1 \in 1..Len(td)
      BY <2>1 DEF Popped, Pushed
    <3> QED
      BY <1>4, <1>5, <1>6, <3>1
  <2>2. CASE k # Len(ew)
    <3>1. Len(ew) \in k+1..Len(ew) /\ k \in 1..Len(ev) /\ ew[k] = ev[k] /\ ew[Len(ew)] = td[1]
      BY <2>2 DEF Pushed
    <3>2. \A j \in k+1..Len(ev) : ~IsAbout(ev[j], i)
      BY <1>6, <3>1 DEF Pushed
    <3> QED
      BY <1>3, <1>6, <3>1, <3>2 DEF ViewOK
  <2> QED
    BY <2>1, <2>2
<1>7. ASSUME \A k \in 1..Len(r) : ~IsAbout(r[k], i), \A k \in 1..Len(ew) : ~IsAbout(ew[k], i)
      PROVE  i \in seen <=> i \in held
  <2>1. ~IsAbout(td[1], i) /\ \A k \in 1..Len(ev) : ~IsAbout(ev[k], i)
    BY <1>7 DEF Pushed
  <2> QED
    BY <1>3, <1>7, <2>1 DEF ViewOK
<1>8. ASSUME NEW k \in 1..Len(r), IsState(r[k], i)
      PROVE  /\ \A j \in 1..Len(r) : IsRelate(r[j], i) => r[j].val = r[k].val
             /\ (\A j \in 1..Len(r) : ~IsRelate(r[j], i)) => (r[k].val # "None" <=> i \in held)
  <2>1. k + 1 \in 1..Len(td) /\ r[k] = td[k + 1]
    BY DEF Popped
  <2> QED
    BY <1>5, <1>8, <2>1
<1> QED
  BY <1>1, <1>6, <1>7, <1>8 DEF ViewOK

\* An event is taken.
LEMMA ViewTake ==
  ASSUME NEW i, NEW td, NEW ev, NEW ew, NEW held, NEW seen, NEW sees,
         ViewOK(i, td, ev, held, seen), Popped(ev, ew),
         IsState(ev[1], i) => (i \in sees <=> ev[1].val # "None"),
         IsAbout(ev[1], i) /\ ~IsState(ev[1], i) => (i \in sees <=> i \in held),
         ~IsAbout(ev[1], i) => (i \in sees <=> i \in seen)
  PROVE  ViewOK(i, td, ew, held, sees)
<1>1. ASSUME \A k \in 1..Len(td) : ~IsAbout(td[k], i),
             NEW k \in 1..Len(ew), IsState(ew[k], i), \A j \in k+1..Len(ew) : ~IsAbout(ew[j], i)
      PROVE  ew[k].val # "None" <=> i \in held
  <2>1. k + 1 \in 1..Len(ev) /\ ew[k] = ev[k + 1]
    BY DEF Popped
  <2>2. \A j \in (k + 1)+1..Len(ev) : j - 1 \in k+1..Len(ew) /\ ev[j] = ew[j - 1]
    BY DEF Popped
  <2> QED
    BY <1>1, <2>1, <2>2 DEF ViewOK
<1>2. ASSUME \A k \in 1..Len(td) : ~IsAbout(td[k], i), \A k \in 1..Len(ew) : ~IsAbout(ew[k], i)
      PROVE  i \in sees <=> i \in held
  <2>1. \A k \in 2..Len(ev) : ~IsAbout(ev[k], i)
    BY <1>2 DEF Popped
  <2>2. 1 \in 1..Len(ev) /\ \A k \in 1..Len(ev) : k = 1 \/ k \in 2..Len(ev)
    BY DEF Popped
  <2>3. CASE IsState(ev[1], i)
    BY <1>2, <2>1, <2>2, <2>3 DEF ViewOK
  <2>4. CASE IsAbout(ev[1], i) /\ ~IsState(ev[1], i)
    BY <2>4
  <2>5. CASE ~IsAbout(ev[1], i)
    BY <1>2, <2>1, <2>2, <2>5 DEF ViewOK
  <2> QED
    BY <2>3, <2>4, <2>5 DEF IsAbout
<1> QED
  BY <1>1, <1>2 DEF ViewOK

\* What StoreRelation makes of the ids in the caches.
LEMMA RelateCached ==
  ASSUME SocialTypes, StoreRelation
  PROVE  /\ E.id \in Related /\ E.val \in Rels
         /\ E.id \in Cached' <=> E.val # "None"
         /\ \A i \in Related \ {E.id} : i \in Cached' <=> i \in Cached
<1>1. E \in Effects /\ E.do = "relate"
  BY NowFacts DEF StoreRelation
<1>2. E.id \in Related /\ E.val \in Rels
  BY <1>1, EffectFields
<1>3. PICK x, r : x = E.id /\ r = E.val
  OBVIOUS
<1>4. DOMAIN friends \subseteq Users /\ DOMAIN groups \subseteq {Clan}
  BY MapsMember DEF SocialTypes
<1>5. \A c : DOMAIN Relate(c, x, r) = IF r = "None" THEN DOMAIN c \ {x} ELSE DOMAIN c \cup {x}
  BY DEF Relate, Added, With, Without
<1>6. CASE x = Clan
  <2>1. groups' = Relate(groups, x, r) /\ UNCHANGED friends
    BY <1>3, <1>6, IdsDiffer DEF StoreRelation
  <2>2. DOMAIN groups' = IF r = "None" THEN DOMAIN groups \ {x} ELSE DOMAIN groups \cup {x}
    BY <1>5, <2>1
  <2> QED
    BY <1>2, <1>3, <1>4, <1>6, <2>1, <2>2, IdsDiffer DEF Cached
<1>7. CASE x \in Users
  <2>1. friends' = Relate(friends, x, r) /\ UNCHANGED groups
    BY <1>3, <1>7, IdsDiffer DEF StoreRelation
  <2>2. DOMAIN friends' = IF r = "None" THEN DOMAIN friends \ {x} ELSE DOMAIN friends \cup {x}
    BY <1>5, <2>1
  <2> QED
    BY <1>2, <1>3, <1>4, <1>7, <2>1, <2>2, IdsDiffer DEF Cached
<1> QED
  BY <1>2, <1>3, <1>6, <1>7 DEF Related

\* A name changes no id in the caches.
LEMMA NameCached ==
  ASSUME StoreName
  PROVE  Cached' = Cached
<1>1. \A c, x, n : DOMAIN Named(c, x, n) = DOMAIN c
  BY DEF Named
<1>2. DOMAIN friends' = DOMAIN friends /\ DOMAIN groups' = DOMAIN groups
  BY <1>1 DEF StoreName
<1> QED
  BY <1>2 DEF Cached

\* The handler of a packet.
LEMMA ViewRead ==
  ASSUME SocialTypes, Read, NEW i \in Related, ViewInv(i)
  PROVE  ViewInv(i)'
<1> DEFINE p == Head(wire)
<1>1. /\ Len(todo) = 0 /\ p \in Packets /\ todo' = HandlePacket(p) /\ Len(todo') \in Nat
      /\ \A k \in 1..Len(todo') : EffectOf(todo'[k], p)
  BY ReadFacts
<1>2. UNCHANGED <<events, Cached, view>>
  BY DEF Read, cacheVars, appVars, Cached
<1> HIDE DEF p
<1>3. PICK q : q = todo'
  OBVIOUS
<1>4. SUFFICES ViewOK(i, q, events, Cached, view)
  BY <1>2, <1>3 DEF ViewInv
<1>5. /\ \A k \in 1..Len(events) :
           IsState(events[k], i) /\ (\A j \in k+1..Len(events) : ~IsAbout(events[j], i))
             => (events[k].val # "None" <=> i \in Cached)
      /\ (\A k \in 1..Len(events) : ~IsAbout(events[k], i)) => (i \in view <=> i \in Cached)
  BY <1>1 DEF ViewInv, ViewOK
<1>6. CASE p.emsg # "FriendsList"
  <2>1. \A k \in 1..Len(q) : ~IsRelate(q[k], i) /\ ~IsAbout(q[k], i) /\ ~IsState(q[k], i)
    BY <1>1, <1>3, <1>6 DEF EffectOf, IsRelate, IsAbout, IsState
  <2> QED
    BY <1>5, <2>1 DEF ViewOK
<1>7. CASE p.emsg = "FriendsList" /\ p.incremental
  <2>1. HasPairs(q, "relate", "State", p.rels)
    BY <1>1, <1>3, <1>7, IncrementalElements
  <2>2. ASSUME NEW k \in 1..Len(q), IsRelate(q[k], i)
        PROVE  /\ i \in DOMAIN p.rels /\ q[k].val = p.rels[i]
               /\ \E m \in k+1..Len(q) : IsAbout(q[m], i)
    <3>1. PICK j \in DOMAIN p.rels :
            \/ /\ q[k] = Eff("relate", j, p.rels[j])
               /\ k + 1 \in 1..Len(q) /\ q[k + 1] = Emit("State", j, p.rels[j])
            \/ q[k] = Emit("State", j, p.rels[j])
      BY <2>1 DEF HasPairs
    <3>2. q[k] # Emit("State", j, p.rels[j])
      BY <2>2 DEF IsRelate, Emit
    <3>3. j = i
      BY <2>2, <3>1, <3>2 DEF IsRelate, Eff
    <3>4. IsAbout(q[k + 1], i) /\ k + 1 \in k+1..Len(q)
      BY <3>1, <3>2, <3>3 DEF IsAbout, IsState, Emit
    <3> QED
      BY <3>1, <3>2, <3>3, <3>4 DEF Eff
  <2>3. ASSUME NEW k \in 1..Len(q), IsState(q[k], i)
        PROVE  q[k].val = p.rels[i] /\ \E j \in 1..Len(q) : IsRelate(q[j], i)
    <3>1. PICK j \in DOMAIN p.rels :
            q[k] = Eff("relate", j, p.rels[j]) \/ q[k] = Emit("State", j, p.rels[j])
      BY <2>1 DEF HasPairs
    <3>2. q[k] # Eff("relate", j, p.rels[j])
      BY <2>3 DEF IsState, Eff
    <3>3. j = i
      BY <2>3, <3>1, <3>2 DEF IsState, Emit
    <3>4. PICK m \in 1..Len(q) : q[m] = Eff("relate", i, p.rels[i])
      BY <2>1, <3>3 DEF HasPairs
    <3>5. IsRelate(q[m], i)
      BY <3>4 DEF IsRelate, Eff
    <3> QED
      BY <3>1, <3>2, <3>3, <3>5 DEF Emit
  <2>4. ASSUME NEW k \in 1..Len(q), IsAbout(q[k], i)
        PROVE  IsState(q[k], i)
    BY <1>1, <1>3, <1>7, <2>4 DEF EffectOf, IsAbout
  <2>5. CASE \E k \in 1..Len(q) : IsAbout(q[k], i)
    BY <2>2, <2>3, <2>5 DEF ViewOK
  <2>6. CASE \A k \in 1..Len(q) : ~IsAbout(q[k], i)
    BY <1>5, <2>2, <2>3, <2>6 DEF ViewOK
  <2> QED
    BY <2>5, <2>6
<1>8. CASE p.emsg = "FriendsList" /\ ~p.incremental
  <2>1. /\ Len(q) \in Nat /\ Len(q) >= 2 /\ q[Len(q) - 1] = Eff("ask", DOMAIN p.rels, Blank)
        /\ q[Len(q)] = Emit("FriendsList", Own, Blank)
    BY <1>1, <1>3, <1>8, FullElements DEF HasList
  <2>2. IsAbout(q[Len(q)], i) /\ ~IsRelate(q[Len(q)], i)
    BY <2>1 DEF IsAbout, IsRelate, Emit
  <2>3. \A k \in 1..Len(q) : ~IsState(q[k], i)
    BY <1>1, <1>3, <1>8 DEF EffectOf, IsState
  <2>4. ASSUME NEW k \in 1..Len(q), IsRelate(q[k], i)
        PROVE  \E m \in k+1..Len(q) : IsAbout(q[m], i)
    <3>1. k # Len(q)
      BY <2>2, <2>4
    <3>2. Len(q) \in k+1..Len(q)
      BY <2>1, <3>1
    <3> QED
      BY <2>2, <3>2
  <2>5. Len(q) \in 1..Len(q)
    BY <2>1
  <2> QED
    BY <2>2, <2>3, <2>4, <2>5 DEF ViewOK
<1>9. p.emsg = "FriendsList" => p.incremental \in BOOLEAN
  BY <1>1, PacketFields
<1> QED
  BY <1>6, <1>7, <1>8, <1>9

LEMMA ViewInvStep ==
  ASSUME SocialTypes, [Next]_vars, NEW i \in Related, ViewInv(i)
  PROVE  ViewInv(i)'
<1>1. ASSUME UNCHANGED <<todo, events, friends, groups, view>>
      PROVE  ViewInv(i)'
  BY <1>1 DEF ViewInv, ViewOK, IsRelate, IsState, IsAbout, Cached
<1>2. ASSUME NEW do \in {"name", "chat", "enter", "leave", "count", "delete", "ask"}, Now(do),
             UNCHANGED <<events, view>>, Cached' = Cached
      PROVE  ViewInv(i)'
  <2>1. Popped(todo, todo') /\ todo[1].do = do
    BY <1>2, NowFacts
  <2>2. ~IsRelate(todo[1], i) /\ ~IsAbout(todo[1], i)
    BY <2>1 DEF IsRelate, IsAbout, IsState
  <2>3. ViewOK(i, todo', events, Cached, view)
    BY <2>1, <2>2, ViewPop DEF ViewInv
  <2> QED
    BY <1>2, <2>3 DEF ViewInv
<1>3. CASE StoreRelation
  <2>1. Popped(todo, todo') /\ E = todo[1] /\ E.do = "relate" /\ UNCHANGED <<events, view>>
    BY <1>3, NowFacts DEF StoreRelation, appVars
  <2>2. ~IsAbout(todo[1], i) /\ (IsRelate(todo[1], i) <=> E.id = i)
    BY <2>1 DEF IsAbout, IsState, IsRelate
  <2>3. PICK now : now = Cached'
    OBVIOUS
  <2>4. /\ E.id = i => (i \in now <=> todo[1].val # "None")
        /\ E.id # i => (i \in Cached <=> i \in now)
    BY <1>3, <2>1, <2>3, RelateCached
  <2>5. ViewOK(i, todo', events, now, view)
    <3>1. CASE E.id = i
      BY <2>1, <2>2, <2>4, <3>1, ViewRelate DEF ViewInv
    <3>2. CASE E.id # i
      BY <2>1, <2>2, <2>4, <3>2, ViewPop DEF ViewInv
    <3> QED
      BY <3>1, <3>2
  <2> QED
    BY <2>1, <2>3, <2>5 DEF ViewInv
<1>4. CASE EmitEvent
  <2>1. Popped(todo, todo') /\ E = todo[1] /\ E \in Effects /\ E.do = "emit"
    BY <1>4, NowFacts DEF EmitEvent
  <2>2. E \in Events /\ ~IsRelate(todo[1], i)
    BY <2>1, EffectFields DEF IsRelate
  <2>3. Pushed(events, todo[1], events')
    BY <1>4, <2>1, <2>2, AppendPushes DEF EmitEvent, SocialTypes
  <2>4. UNCHANGED <<Cached, view>>
    BY <1>4 DEF EmitEvent, cacheVars, appVars, Cached
  <2>5. ViewOK(i, todo', events', Cached, view)
    BY <2>1, <2>2, <2>3, ViewEmit DEF ViewInv
  <2> QED
    BY <2>4, <2>5 DEF ViewInv
<1>5. CASE Poll
  <2>1. events \in Seq(Events) /\ events # <<>> /\ events' = Tail(events)
    BY <1>5 DEF Poll, SocialTypes
  <2>2. Popped(events, events') /\ Head(events) = events[1] /\ Head(events) \in Events
    BY <2>1, TailElements, TailPops
  <2>3. UNCHANGED <<todo, Cached>>
    BY <1>5 DEF Poll, cacheVars, Cached
  <2>4. PICK e : e = events[1]
    OBVIOUS
  <2>5. view' = IF e.event = "FriendsList" THEN Cached
                ELSE IF e.event # "State" THEN view
                ELSE IF e.val = "None" THEN view \ {e.id} ELSE view \cup {e.id}
    BY <1>5, <2>2, <2>4 DEF Poll, Cached
  <2>6. e.do = "emit"
    BY <2>2, <2>4, EventFields
  <2>7. /\ IsState(e, i) => (i \in view' <=> e.val # "None")
        /\ IsAbout(e, i) /\ ~IsState(e, i) => (i \in view' <=> i \in Cached)
        /\ ~IsAbout(e, i) => (i \in view' <=> i \in view)
    BY <2>5, <2>6 DEF IsState, IsAbout
  <2>8. ViewOK(i, todo, events', Cached, view')
    BY <2>2, <2>4, <2>7, ViewTake DEF ViewInv
  <2> QED
    BY <2>3, <2>8 DEF ViewInv
<1>6. CASE StoreName \/ StoreChat \/ StoreCount \/ RequestFriendListInfo
  <2>1. CASE StoreName
    BY <1>2, <2>1, NameCached DEF StoreName, appVars
  <2>2. CASE StoreChat
    BY <1>2, <2>2 DEF StoreChat, appVars, Cached
  <2>3. CASE StoreCount
    BY <1>2, <2>3 DEF StoreCount, appVars, Cached
  <2>4. CASE RequestFriendListInfo
    BY <1>2, <2>4 DEF RequestFriendListInfo, cacheVars, appVars, Cached
  <2> QED
    BY <1>6, <2>1, <2>2, <2>3, <2>4
<1>7. CASE LogOn \/ Drop \/ Serve \/ JoinChat \/ LeaveChat
  BY <1>1, <1>7 DEF LogOn, Drop, Serve, JoinChat, LeaveChat, cacheVars, appVars
<1>8. ASSUME NEW name, SetPersonaName(name) PROVE ViewInv(i)'
  BY <1>1, <1>8 DEF SetPersonaName, appVars
<1>9. ASSUME NEW j, NEW r, SetRelation(j, r) PROVE ViewInv(i)'
  BY <1>1, <1>9 DEF SetRelation, cacheVars, appVars
<1>10. ASSUME NEW j, NEW name, SetPersona(j, name) PROVE ViewInv(i)'
  BY <1>1, <1>10 DEF SetPersona, cacheVars, appVars
<1>11. ASSUME NEW u, NEW state, SetMember(u, state) PROVE ViewInv(i)'
  BY <1>1, <1>11 DEF SetMember, cacheVars, appVars
<1>12. ASSUME NEW T, NEW n, Notify(T, n) PROVE ViewInv(i)'
  BY <1>1, <1>12 DEF Notify, cacheVars, appVars
<1>13. CASE UNCHANGED vars
  BY <1>1, <1>13 DEF vars, cacheVars, appVars
<1> QED
  BY <1>3, <1>4, <1>5, <1>6, <1>7, <1>8, <1>9, <1>10, <1>11, <1>12, <1>13, ViewRead
  DEF Next, ReaderStep

-----------------------------------------------------------------------------
(* What the server sends *)

\* r is s, or s with something after it.
Extends(s, r) ==
  /\ Len(s) \in Nat /\ Len(r) \in Nat /\ Len(s) <= Len(r)
  /\ \A k \in 1..Len(s) : k \in 1..Len(r) /\ r[k] = s[k]
  /\ \A k \in 1..Len(r) : k \in 1..Len(s) \/ k \in Len(s)+1..Len(r)

\* What follows a packet in the longer sequence follows it in the shorter one.
LEMMA PushExtends ==
  ASSUME NEW s, NEW e, NEW r, Pushed(s, e, r)
  PROVE  /\ Extends(s, r) /\ \A k \in Len(s)+1..Len(r) : k = Len(r) /\ r[k] = e
         /\ \A k \in 1..Len(s) : Len(r) \in k+1..Len(r)
  BY DEF Pushed, Extends

\* The packets a step of the server appends: none, one, or the answer to a request.
LEMMA ServeWire ==
  ASSUME SocialTypes, Serve
  PROVE  \/ /\ Head(out).emsg = "Ask" /\ Head(out).ids \in SUBSET Ids /\ Extends(wire, wire')
            /\ \A k \in Len(wire)+1..Len(wire') :
                 \E i \in Head(out).ids : wire'[k] = PersonaOf(i, persona[i])
            /\ \A i \in Head(out).ids :
                 \E k \in Len(wire)+1..Len(wire') : wire'[k] = PersonaOf(i, persona[i])
            /\ UNCHANGED <<persona, inRoom, staleRoom>>
         \/ /\ Head(out).emsg = "ChangeStatus" /\ Head(out).name \in Names
            /\ Pushed(wire, PersonaOf(Own, Head(out).name), wire')
            /\ persona' = [persona EXCEPT ![Own] = Head(out).name]
            /\ UNCHANGED <<inRoom, staleRoom>>
         \/ /\ Head(out).emsg = "Join" /\ inRoom' = TRUE /\ UNCHANGED <<persona, staleRoom>>
            /\ Pushed(wire, [emsg |-> "ChatEnter", room |-> Room, clan |-> Clan, members |-> members],
                      wire')
         \/ /\ Head(out).emsg = "Leave" /\ inRoom' = FALSE /\ UNCHANGED <<persona, wire>>
            /\ staleRoom' = IF inRoom THEN staleRoom \cup members ELSE staleRoom
<1>1. online /\ (Head(out).emsg = "Ask" => Head(out).ids \in SUBSET Ids)
      /\ (Head(out).emsg = "ChangeStatus" => Head(out).name \in Names)
  BY ServeFacts
<1>2. CASE Head(out).emsg = "Ask"
  <2> DEFINE qs == LET s == SetToSeq(Head(out).ids)
                   IN  [k \in 1..Len(s) |-> PersonaOf(s[k], persona[s[k]])]
  <2>1. Send(qs) /\ UNCHANGED <<persona, inRoom, staleRoom>>
    BY <1>2 DEF Serve
  <2>2. PICK ps : ps = qs
    OBVIOUS
  <2>3. Send(ps)
    BY <2>1, <2>2
  <2>4. /\ ps \in Seq(Packets) /\ Len(ps) \in Nat
        /\ \A k \in 1..Len(ps) : \E i \in Head(out).ids : ps[k] = PersonaOf(i, persona[i])
        /\ \A i \in Head(out).ids : \E k \in 1..Len(ps) : ps[k] = PersonaOf(i, persona[i])
    BY <1>1, <1>2, <2>2, AnswerElements
  <2> HIDE DEF qs
  <2>5. IsConcat(wire', wire, ps)
    BY <1>1, <2>3, <2>4, SendFacts
  <2>6. PICK w : w = wire'
    OBVIOUS
  <2>7. PICK n \in Nat : n = Len(wire)
    BY <2>5 DEF IsConcat
  <2>8. /\ Len(w) = n + Len(ps)
        /\ \A k \in 1..n : w[k] = wire[k]
        /\ \A k \in 1..Len(ps) : w[n + k] = ps[k]
    BY <2>5, <2>6, <2>7 DEF IsConcat
  <2>9. Extends(wire, wire')
    BY <2>4, <2>6, <2>7, <2>8 DEF Extends
  <2>10. ASSUME NEW k \in n+1..Len(w)
         PROVE  \E i \in Head(out).ids : w[k] = PersonaOf(i, persona[i])
    <3>1. k - n \in 1..Len(ps) /\ n + (k - n) = k
      BY <2>4, <2>8
    <3>2. w[k] = ps[k - n]
      BY <2>8, <3>1
    <3> QED
      BY <2>4, <3>1, <3>2
  <2>11. ASSUME NEW i \in Head(out).ids
         PROVE  \E k \in n+1..Len(w) : w[k] = PersonaOf(i, persona[i])
    <3>1. PICK k \in 1..Len(ps) : ps[k] = PersonaOf(i, persona[i])
      BY <2>4
    <3>2. n + k \in n+1..Len(w)
      BY <2>4, <2>8
    <3> QED
      BY <2>8, <3>1, <3>2
  <2> QED
    BY <1>1, <1>2, <2>1, <2>6, <2>7, <2>9, <2>10, <2>11
<1>3. CASE Head(out).emsg = "ChangeStatus"
  <2>1. /\ Send(<<PersonaOf(Own, Head(out).name)>>) /\ UNCHANGED <<inRoom, staleRoom>>
        /\ persona' = [persona EXCEPT ![Own] = Head(out).name]
    BY <1>3 DEF Serve
  <2>2. PersonaOf(Own, Head(out).name) \in Packets
    BY <1>1, <1>3, PacketMembers DEF Ids
  <2>3. Pushed(wire, PersonaOf(Own, Head(out).name), wire')
    BY <1>1, <2>1, <2>2, SendOne
  <2> QED
    BY <1>1, <1>3, <2>1, <2>3
<1>4. CASE Head(out).emsg = "Join"
  <2> DEFINE p == [emsg |-> "ChatEnter", room |-> Room, clan |-> Clan, members |-> members]
  <2>1. Send(<<p>>) /\ UNCHANGED <<persona, staleRoom>> /\ inRoom' = TRUE
    BY <1>4 DEF Serve
  <2>2. p \in Packets
    BY PacketMembers DEF SocialTypes
  <2> HIDE DEF p
  <2>3. Pushed(wire, p, wire')
    BY <1>1, <2>1, <2>2, SendOne
  <2> QED
    BY <1>4, <2>1, <2>3 DEF p
<1>5. CASE Head(out).emsg = "Leave"
  BY <1>5 DEF Serve
<1> QED
  BY <1>2, <1>3, <1>4, <1>5 DEF Serve

\* The packets of the other steps of the server.
LEMMA SetRelationWire ==
  ASSUME SocialTypes, online, NEW i \in Related, NEW r \in Rels, SetRelation(i, r)
  PROVE  Pushed(wire, [emsg |-> "FriendsList", incremental |-> TRUE, rels |-> [j \in {i} |-> r]], wire')
<1> DEFINE m == [j \in {i} |-> r]
<1>1. m \in [{i} -> Rels] /\ {i} \in SUBSET Related
  OBVIOUS
<1>2. m \in Maps(Related, Rels)
  BY <1>1, MapsMember
<1>3. Send(<<[emsg |-> "FriendsList", incremental |-> TRUE, rels |-> m]>>)
  BY DEF SetRelation
<1> HIDE DEF m
<1>4. [emsg |-> "FriendsList", incremental |-> TRUE, rels |-> m] \in Packets
  BY <1>2, PacketMembers
<1>5. Pushed(wire, [emsg |-> "FriendsList", incremental |-> TRUE, rels |-> m], wire')
  BY <1>3, <1>4, SendOne
<1> QED
  BY <1>5 DEF m

LEMMA SetPersonaWire ==
  ASSUME SocialTypes, online, NEW i \in Ids, NEW name \in Names \cup {Blank}, SetPersona(i, name)
  PROVE  \E p \in Packets : /\ Pushed(wire, p, wire') /\ p.emsg \in {"PersonaState", "ClanState"}
                            /\ p.id = i /\ p.name = name
<1> DEFINE p == IF i = Clan /\ name # Blank THEN [emsg |-> "ClanState", id |-> Clan, name |-> name]
                ELSE PersonaOf(i, name)
<1>1. p \in Packets /\ p.emsg \in {"PersonaState", "ClanState"} /\ p.id = i /\ p.name = name
  <2>1. CASE i = Clan /\ name # Blank
    <3>1. p = [emsg |-> "ClanState", id |-> Clan, name |-> name] /\ name \in Names
      BY <2>1
    <3> QED
      BY <2>1, <3>1, PacketMembers
  <2>2. CASE ~(i = Clan /\ name # Blank)
    <3>1. p = PersonaOf(i, name)
      BY <2>2
    <3> QED
      BY <3>1, PacketMembers DEF PersonaOf
  <2> QED
    BY <2>1, <2>2
<1>2. Send(<<p>>)
  <2>1. CASE i = Clan /\ name # Blank
    BY <2>1 DEF SetPersona
  <2>2. CASE ~(i = Clan /\ name # Blank)
    BY <2>2 DEF SetPersona
  <2> QED
    BY <2>1, <2>2
<1> HIDE DEF p
<1>3. Pushed(wire, p, wire')
  BY <1>1, <1>2, SendOne
<1> QED
  BY <1>1, <1>3

LEMMA SetMemberWire ==
  ASSUME SocialTypes, inRoom, NEW u \in Users, NEW state \in StateChanges, SetMember(u, state)
  PROVE  Pushed(wire, [emsg |-> "ChatMember", room |-> Room, id |-> u, state |-> state], wire')
<1> DEFINE p == [emsg |-> "ChatMember", room |-> Room, id |-> u, state |-> state]
<1>1. p \in Packets /\ wire \in Seq(Packets) /\ wire' = Append(wire, p)
  BY PacketMembers DEF SetMember, SocialTypes
<1> HIDE DEF p
<1>2. Pushed(wire, p, wire')
  BY <1>1, AppendPushes
<1> QED
  BY <1>2 DEF p

LEMMA NotifyWire ==
  ASSUME SocialTypes, NEW T \in SUBSET Notices, NEW n \in Counts, Notify(T, n)
  PROVE  online /\ \E p \in Packets : Pushed(wire, p, wire') /\ p.emsg = "Notifications"
<1> DEFINE c == [t \in T |-> n]
<1>1. c \in [T -> Counts] /\ online
  BY DEF Notify
<1>2. c \in Maps(Notices, Counts)
  BY <1>1, MapsMember
<1>3. Send(<<[emsg |-> "Notifications", counts |-> c]>>)
  BY DEF Notify
<1> HIDE DEF c
<1>4. PICK p : p = [emsg |-> "Notifications", counts |-> c]
  OBVIOUS
<1>5. p \in Packets /\ p.emsg = "Notifications" /\ Send(<<p>>)
  BY <1>2, <1>3, <1>4, PacketMembers
<1> QED
  BY <1>1, <1>5, SendOne

\* The packets a client that has just logged on is sent.
LEMMA LogOnWire ==
  ASSUME SocialTypes, LogOn
  PROVE  /\ Len(wire') = 2 /\ wire'[1].emsg = "AccountInfo"
         /\ wire'[2].emsg = "FriendsList" /\ ~wire'[2].incremental
         /\ wire'[2].rels = [i \in Friendly |-> relation[i]]
         /\ Len(todo') = 0 /\ Len(todo) = 0
<1> DEFINE a == [emsg |-> "AccountInfo"]
           b == [emsg |-> "FriendsList", incremental |-> FALSE, rels |-> [i \in Friendly |-> relation[i]]]
<1>1. wire' = <<a, b>> /\ todo = <<>> /\ todo' = todo
  BY DEF LogOn
<1>2. a.emsg = "AccountInfo" /\ b.emsg = "FriendsList" /\ ~b.incremental
      /\ b.rels = [i \in Friendly |-> relation[i]]
  OBVIOUS
<1> HIDE DEF a, b
<1>3. PICK w : w = wire'
  OBVIOUS
<1>4. Len(w) = 2 /\ w[1] = a /\ w[2] = b
  BY <1>1, <1>3
<1> QED
  BY <1>1, <1>2, <1>3, <1>4

-----------------------------------------------------------------------------
(* The relationships *)

\* An effect that does not store i may go.
LEMMA RelationPop ==
  ASSUME NEW i, NEW w, NEW td, NEW r, NEW rel, NEW held, NEW now, NEW old,
         RelationOK(i, w, td, rel, held, old), Popped(td, r),
         ~IsRelate(td[1], i), i \in held <=> i \in now
  PROVE  RelationOK(i, w, r, rel, now, old)
<1>1. (\A k \in 1..Len(r) : ~IsRelate(r[k], i)) => \A k \in 1..Len(td) : ~IsRelate(td[k], i)
  BY DEF Popped
<1>2. (\A k \in 1..Len(td) : IsRelate(td[k], i) => td[k].val = rel)
        => \A k \in 1..Len(r) : IsRelate(r[k], i) => r[k].val = rel
  BY DEF Popped
<1> QED
  BY <1>1, <1>2 DEF RelationOK

\* The relationship with i is stored.
LEMMA RelationStore ==
  ASSUME NEW i, NEW w, NEW td, NEW r, NEW rel, NEW held, NEW now, NEW old,
         RelationOK(i, w, td, rel, held, old), Popped(td, r),
         IsRelate(td[1], i), i \in now <=> td[1].val # "None"
  PROVE  RelationOK(i, w, r, rel, now, old)
<1>1. (\A k \in 1..Len(td) : IsRelate(td[k], i) => td[k].val = rel)
        => \A k \in 1..Len(r) : IsRelate(r[k], i) => r[k].val = rel
  BY DEF Popped
<1>2. (\A k \in 1..Len(w) : ~Lists(w[k], i)) => td[1].val = rel
  BY DEF RelationOK, Popped
<1> QED
  BY <1>1, <1>2 DEF RelationOK

\* A packet that lists i with the new relationship.
LEMMA RelationNews ==
  ASSUME NEW i, NEW w, NEW v, NEW p, NEW td, NEW rel, NEW held, NEW old,
         Pushed(w, p, v), Lists(p, i), p.rels[i] = rel
  PROVE  RelationOK(i, v, td, rel, held, old)
<1>1. Len(v) \in 1..Len(v) /\ Lists(v[Len(v)], i) /\ v[Len(v)].rels[i] = rel
  BY DEF Pushed
<1>2. \A k \in 1..Len(v) : k # Len(v) => Len(v) \in k+1..Len(v)
  BY DEF Pushed
<1> QED
  BY <1>1, <1>2 DEF RelationOK

\* Packets that do not list i.
LEMMA RelationMore ==
  ASSUME NEW i, NEW w, NEW v, NEW td, NEW rel, NEW held, NEW old, NEW older,
         RelationOK(i, w, td, rel, held, old), Extends(w, v), i \in old => i \in older,
         \A k \in Len(w)+1..Len(v) : ~Lists(v[k], i)
  PROVE  RelationOK(i, v, td, rel, held, older)
<1>1. ASSUME NEW k \in 1..Len(v), Lists(v[k], i), \A j \in k+1..Len(v) : ~Lists(v[j], i)
      PROVE  v[k].rels[i] = rel
  <2>1. k \in 1..Len(w) /\ v[k] = w[k]
    BY <1>1 DEF Extends
  <2>2. \A j \in k+1..Len(w) : j \in k+1..Len(v) /\ v[j] = w[j]
    BY <2>1 DEF Extends
  <2> QED
    BY <1>1, <2>1, <2>2 DEF RelationOK
<1>2. (\A k \in 1..Len(v) : ~Lists(v[k], i)) => \A k \in 1..Len(w) : ~Lists(w[k], i)
  BY DEF Extends
<1> QED
  BY <1>1, <1>2 DEF RelationOK

\* The handler of a packet.
LEMMA RelationRead ==
  ASSUME SocialTypes, Read, NEW i \in Related, RelationInv(i)
  PROVE  RelationInv(i)'
<1> DEFINE p == Head(wire)
<1>1. /\ online /\ Len(todo) = 0 /\ p \in Packets /\ p = wire[1] /\ Popped(wire, wire')
      /\ todo' = HandlePacket(p) /\ Len(todo') \in Nat
      /\ \A k \in 1..Len(todo') : EffectOf(todo'[k], p)
  BY ReadFacts
<1>2. UNCHANGED <<relation, Cached, stale>>
  BY DEF Read, cacheVars, serverVars, Cached
<1> HIDE DEF p
<1>3. PICK q, v : q = todo' /\ v = wire'
  OBVIOUS
<1>4. SUFFICES RelationOK(i, v, q, relation[i], Cached, stale)
  BY <1>2, <1>3 DEF RelationInv
<1>5. /\ \A k \in 1..Len(wire) :
           Lists(wire[k], i) /\ (\A j \in k+1..Len(wire) : ~Lists(wire[j], i))
             => wire[k].rels[i] = relation[i]
      /\ (\A k \in 1..Len(wire) : ~Lists(wire[k], i)) =>
           /\ relation[i] # "None" => i \in Cached
           /\ i \in Cached /\ relation[i] = "None" => i \in stale
  BY <1>1 DEF RelationInv, RelationOK
<1>6. Popped(wire, v)
  BY <1>1, <1>3
<1>7. ASSUME NEW k \in 1..Len(v), Lists(v[k], i), \A j \in k+1..Len(v) : ~Lists(v[j], i)
      PROVE  v[k].rels[i] = relation[i]
  <2>1. k + 1 \in 1..Len(wire) /\ v[k] = wire[k + 1]
    BY <1>6 DEF Popped
  <2>2. \A j \in (k + 1)+1..Len(wire) : j - 1 \in k+1..Len(v) /\ wire[j] = v[j - 1]
    BY <1>6 DEF Popped
  <2> QED
    BY <1>5, <1>7, <2>1, <2>2
<1>8. ASSUME \A k \in 1..Len(v) : ~Lists(v[k], i)
      PROVE  /\ Lists(p, i) => p.rels[i] = relation[i]
             /\ ~Lists(p, i) => \A k \in 1..Len(wire) : ~Lists(wire[k], i)
  <2>1. 1 \in 1..Len(wire) /\ wire[1] = p /\ \A j \in 2..Len(wire) : ~Lists(wire[j], i)
    BY <1>1, <1>6, <1>8 DEF Popped
  <2>2. \A k \in 1..Len(wire) : k = 1 \/ k \in 2..Len(wire)
    BY <1>6 DEF Popped
  <2> QED
    BY <1>5, <2>1, <2>2
<1>9. \A k \in 1..Len(q) : IsRelate(q[k], i) => Lists(p, i) /\ q[k].val = p.rels[i]
  BY <1>1, <1>3 DEF EffectOf, IsRelate, Lists
<1>10. ASSUME Lists(p, i)
       PROVE  \E k \in 1..Len(q) : IsRelate(q[k], i)
  <2>1. CASE p.incremental
    <3>1. HasPairs(q, "relate", "State", p.rels)
      BY <1>1, <1>3, <1>10, <2>1, IncrementalElements DEF Lists
    <3>2. PICK k \in 1..Len(q) : q[k] = Eff("relate", i, p.rels[i])
      BY <1>10, <3>1 DEF HasPairs, Lists
    <3> QED
      BY <3>2 DEF IsRelate, Eff
  <2>2. CASE ~p.incremental
    <3>1. HasList(q, p.rels)
      BY <1>1, <1>3, <1>10, <2>2, FullElements DEF Lists
    <3>2. PICK k \in 1..Len(q) - 2 : q[k] = Eff("relate", i, p.rels[i])
      BY <1>10, <3>1 DEF Lists, HasList
    <3>3. k \in 1..Len(q)
      BY <3>1 DEF HasList
    <3> QED
      BY <3>2, <3>3 DEF IsRelate, Eff
  <2> QED
    BY <2>1, <2>2
<1> QED
  BY <1>5, <1>7, <1>8, <1>9, <1>10 DEF RelationOK

LEMMA RelationInvStep ==
  ASSUME SocialTypes, SocialTypes', [Next]_vars, NEW i \in Related, RelationInv(i)
  PROVE  RelationInv(i)'
<1>1. ASSUME UNCHANGED <<online, wire, todo, relation, friends, groups, stale>>
      PROVE  RelationInv(i)'
  BY <1>1 DEF RelationInv, RelationOK, IsRelate, Lists, Cached
<1>2. ASSUME NEW do \in {"name", "chat", "enter", "leave", "count", "delete", "ask", "emit"}, Now(do),
             UNCHANGED <<online, wire, relation, stale>>, Cached' = Cached
      PROVE  RelationInv(i)'
  <2>1. Popped(todo, todo') /\ todo[1].do = do
    BY <1>2, NowFacts
  <2>2. ~IsRelate(todo[1], i)
    BY <2>1 DEF IsRelate
  <2>3. online => RelationOK(i, wire, todo', relation[i], Cached, stale)
    BY <2>1, <2>2, RelationPop DEF RelationInv
  <2> QED
    BY <1>2, <2>3 DEF RelationInv
<1>3. CASE StoreRelation
  <2>1. /\ Popped(todo, todo') /\ E = todo[1] /\ E.do = "relate"
        /\ UNCHANGED <<online, wire, relation, stale>>
    BY <1>3, NowFacts DEF StoreRelation, serverVars
  <2>2. IsRelate(todo[1], i) <=> E.id = i
    BY <2>1 DEF IsRelate
  <2>3. PICK now : now = Cached'
    OBVIOUS
  <2>4. /\ E.id = i => (i \in now <=> todo[1].val # "None")
        /\ E.id # i => (i \in Cached <=> i \in now)
    BY <1>3, <2>1, <2>3, RelateCached
  <2>5. online => RelationOK(i, wire, todo', relation[i], now, stale)
    <3>1. CASE E.id = i
      BY <2>1, <2>2, <2>4, <3>1, RelationStore DEF RelationInv
    <3>2. CASE E.id # i
      BY <2>1, <2>2, <2>4, <3>2, RelationPop DEF RelationInv
    <3> QED
      BY <3>1, <3>2
  <2> QED
    BY <2>1, <2>3, <2>5 DEF RelationInv
<1>4. ASSUME Extends(wire, wire'), \A k \in Len(wire)+1..Len(wire') : ~Lists(wire'[k], i),
             UNCHANGED <<online, todo, relation, friends, groups, stale>>
      PROVE  RelationInv(i)'
  <2>1. online => RelationOK(i, wire', todo, relation[i], Cached, stale)
    BY <1>4, RelationMore DEF RelationInv
  <2>2. Cached' = Cached
    BY <1>4 DEF Cached
  <2> QED
    BY <1>4, <2>1, <2>2 DEF RelationInv
<1>5. ASSUME NEW p, Pushed(wire, p, wire'), p.emsg # "FriendsList",
             UNCHANGED <<online, todo, relation, friends, groups, stale>>
      PROVE  RelationInv(i)'
  <2>1. ~Lists(p, i)
    BY <1>5 DEF Lists
  <2>2. Extends(wire, wire') /\ \A k \in Len(wire)+1..Len(wire') : wire'[k] = p
    BY <1>5, PushExtends
  <2>3. \A k \in Len(wire)+1..Len(wire') : ~Lists(wire'[k], i)
    BY <2>1, <2>2
  <2> QED
    BY <1>4, <1>5, <2>2, <2>3
<1>6. CASE LogOn
  <2>1. /\ Len(wire') = 2 /\ wire'[1].emsg = "AccountInfo" /\ Len(todo') = 0
        /\ wire'[2].emsg = "FriendsList" /\ wire'[2].rels = [j \in Friendly |-> relation[j]]
    BY <1>6, LogOnWire
  <2>2. UNCHANGED <<relation, Cached>> /\ stale' = Cached \ Friendly
    BY <1>6 DEF LogOn, cacheVars, Cached
  <2>3. PICK w, q, s : w = wire' /\ q = todo' /\ s = stale'
    OBVIOUS
  <2>4. ~Lists(w[1], i) /\ (Lists(w[2], i) <=> i \in Friendly)
        /\ (i \in Friendly => w[2].rels[i] = relation[i])
    BY <2>1, <2>3 DEF Lists
  <2>5. i \in Friendly <=> relation[i] # "None"
    BY DEF Friendly
  <2>6. RelationOK(i, w, q, relation[i], Cached, s)
    <3>1. \A k \in 1..Len(w) : k = 1 \/ k = 2
      <4>1. PICK n \in Nat : n = 2
        OBVIOUS
      <4>2. \A k \in 1..n : k = 1 \/ k = 2
        BY <4>1
      <4> QED
        BY <2>1, <2>3, <4>1, <4>2
    <3>2. 2 \in 1..Len(w) /\ 2 \in 1+1..Len(w)
      BY <2>1, <2>3
    <3>3. \A k \in 1..Len(q) : FALSE
      BY <2>1, <2>3
    <3> QED
      BY <2>2, <2>3, <2>4, <2>5, <3>1, <3>2, <3>3 DEF RelationOK
  <2> QED
    BY <2>2, <2>3, <2>6 DEF RelationInv
<1>7. CASE Drop
  BY <1>7 DEF Drop, RelationInv
<1>8. CASE Serve
  <2>1. UNCHANGED <<online, todo, relation, friends, groups, stale>>
    BY <1>8 DEF Serve, cacheVars
  <2>2. CASE Extends(wire, wire') /\ \A k \in Len(wire)+1..Len(wire') :
               \E j \in Head(out).ids : wire'[k] = PersonaOf(j, persona[j])
    <3>1. \A k \in Len(wire)+1..Len(wire') : ~Lists(wire'[k], i)
      <4>1. \A j : ~Lists(PersonaOf(j, persona[j]), i)
        BY DEF Lists, PersonaOf
      <4> QED
        BY <2>2, <4>1
    <3> QED
      BY <1>4, <2>1, <2>2, <3>1
  <2>3. CASE Pushed(wire, PersonaOf(Own, Head(out).name), wire')
    <3>1. PersonaOf(Own, Head(out).name).emsg # "FriendsList"
      BY DEF PersonaOf
    <3> QED
      BY <1>5, <2>1, <2>3, <3>1
  <2>4. CASE Pushed(wire, [emsg |-> "ChatEnter", room |-> Room, clan |-> Clan, members |-> members],
                    wire')
    <3>1. [emsg |-> "ChatEnter", room |-> Room, clan |-> Clan, members |-> members].emsg # "FriendsList"
      OBVIOUS
    <3> QED
      BY <1>5, <2>1, <2>4, <3>1
  <2>5. CASE UNCHANGED wire
    BY <1>1, <2>1, <2>5
  <2> QED
    BY <1>8, <2>2, <2>3, <2>4, <2>5, ServeWire
<1>9. ASSUME NEW j \in Related, NEW r \in Rels, SetRelation(j, r)
      PROVE  RelationInv(i)'
  <2> DEFINE p == [emsg |-> "FriendsList", incremental |-> TRUE, rels |-> [l \in {j} |-> r]]
  <2>1. UNCHANGED <<online, todo, Cached>> /\ relation' = [relation EXCEPT ![j] = r]
        /\ (online => stale' = stale \ {j})
    BY <1>9 DEF SetRelation, cacheVars, Cached
  <2>2. online => Pushed(wire, p, wire')
    BY <1>9, SetRelationWire
  <2>3. Lists(p, i) <=> i = j
    BY DEF Lists
  <2>4. i = j => p.rels[i] = r /\ relation'[i] = r
    BY <2>1 DEF SocialTypes
  <2>5. i # j => relation'[i] = relation[i]
    BY <2>1 DEF SocialTypes
  <2> HIDE DEF p
  <2>6. PICK old : old = stale'
    OBVIOUS
  <2>7. ASSUME online
        PROVE  RelationOK(i, wire', todo, relation'[i], Cached, old)
    <3>1. CASE i = j
      BY <2>2, <2>3, <2>4, <2>7, <3>1, RelationNews
    <3>2. CASE i # j
      <4>1. Extends(wire, wire') /\ \A k \in Len(wire)+1..Len(wire') : wire'[k] = p
        BY <2>2, <2>7, PushExtends
      <4>2. \A k \in Len(wire)+1..Len(wire') : ~Lists(wire'[k], i)
        BY <2>3, <3>2, <4>1
      <4>3. RelationOK(i, wire, todo, relation[i], Cached, stale) /\ (i \in stale => i \in old)
        BY <2>1, <2>6, <2>7, <3>2 DEF RelationInv
      <4> QED
        BY <2>5, <3>2, <4>1, <4>2, <4>3, RelationMore
    <3> QED
      BY <3>1, <3>2
  <2> QED
    BY <2>1, <2>6, <2>7 DEF RelationInv
<1>10. ASSUME NEW j \in Ids, NEW name \in Names \cup {Blank}, SetPersona(j, name)
       PROVE  RelationInv(i)'
  <2>1. UNCHANGED <<online, todo, relation, friends, groups, stale>>
    BY <1>10 DEF SetPersona, cacheVars, histVars
  <2>2. CASE online
    BY <1>5, <1>10, <2>1, <2>2, SetPersonaWire
  <2>3. CASE ~online
    BY <2>1, <2>3 DEF RelationInv
  <2> QED
    BY <2>2, <2>3
<1>11. ASSUME NEW u \in Users, NEW state \in StateChanges, SetMember(u, state)
       PROVE  RelationInv(i)'
  <2>1. UNCHANGED <<online, todo, relation, friends, groups, stale>>
    BY <1>11 DEF SetMember, cacheVars
  <2>2. CASE inRoom
    <3>1. PICK p : /\ p = [emsg |-> "ChatMember", room |-> Room, id |-> u, state |-> state]
                   /\ Pushed(wire, p, wire')
      BY <1>11, <2>2, SetMemberWire
    <3>2. p.emsg # "FriendsList"
      BY <3>1
    <3> QED
      BY <1>5, <2>1, <3>1, <3>2
  <2>3. CASE ~inRoom
    BY <1>1, <1>11, <2>1, <2>3 DEF SetMember
  <2> QED
    BY <2>2, <2>3
<1>12. ASSUME NEW T \in SUBSET Notices, NEW n \in Counts, Notify(T, n)
       PROVE  RelationInv(i)'
  <2>1. UNCHANGED <<online, todo, relation, friends, groups, stale>>
    BY <1>12 DEF Notify, cacheVars, serverVars, histVars
  <2> QED
    BY <1>5, <1>12, <2>1, NotifyWire
<1>13. CASE StoreName \/ StoreChat \/ StoreCount \/ RequestFriendListInfo \/ EmitEvent
  <2>1. CASE StoreName
    BY <1>2, <2>1, NameCached DEF StoreName, serverVars, histVars
  <2>2. CASE StoreChat
    BY <1>2, <2>2 DEF StoreChat, serverVars, histVars, Cached
  <2>3. CASE StoreCount
    BY <1>2, <2>3 DEF StoreCount, serverVars, histVars, Cached
  <2>4. CASE RequestFriendListInfo
    BY <1>2, <2>4 DEF RequestFriendListInfo, cacheVars, serverVars, histVars, Cached
  <2>5. CASE EmitEvent
    BY <1>2, <2>5 DEF EmitEvent, cacheVars, serverVars, histVars, Cached
  <2> QED
    BY <1>13, <2>1, <2>2, <2>3, <2>4, <2>5
<1>14. CASE Poll \/ JoinChat \/ LeaveChat
  BY <1>1, <1>14 DEF Poll, JoinChat, LeaveChat, cacheVars, serverVars, histVars
<1>15. ASSUME NEW name, SetPersonaName(name) PROVE RelationInv(i)'
  BY <1>1, <1>15 DEF SetPersonaName, serverVars, histVars
<1>16. CASE UNCHANGED vars
  BY <1>1, <1>16 DEF vars, cacheVars, serverVars, histVars
<1> QED
  BY <1>3, <1>6, <1>7, <1>8, <1>9, <1>10, <1>11, <1>12, <1>13, <1>14, <1>15, <1>16, RelationRead
  DEF Next, ReaderStep, Ids

\* The application's view is what the caches hold once all events are taken, and the caches
\* hold the account's friends and groups once nothing is under way.
THEOREM FriendsAreKnown == Spec => []FriendsKnown
<1> DEFINE Inv == SocialTypes /\ \A i \in Related : ViewInv(i) /\ RelationInv(i)
<1>1. Init => Inv
  <2> SUFFICES ASSUME Init, NEW i \in Related PROVE ViewInv(i) /\ RelationInv(i)
    BY InitTypes
  <2>1. Len(todo) = 0 /\ Len(events) = 0 /\ view = {} /\ Cached = {} /\ online = FALSE
    BY DEF Init, Empty, Cached
  <2> QED
    BY <2>1 DEF ViewInv, ViewOK, RelationInv
<1>2. Inv /\ [Next]_vars => Inv'
  <2> SUFFICES ASSUME Inv, [Next]_vars PROVE Inv'
    OBVIOUS
  <2>1. SocialTypes'
    BY TypesStep
  <2>2. \A i \in Related : ViewInv(i)' /\ RelationInv(i)'
    BY <2>1, ViewInvStep, RelationInvStep
  <2> QED
    BY <2>1, <2>2
<1>3. Inv => FriendsKnown
  <2> SUFFICES ASSUME Inv PROVE FriendsKnown
    OBVIOUS
  <2>1. Cached \subseteq Related /\ view \subseteq Related
    BY MapsMember DEF SocialTypes, Cached, Related
  <2>2. ASSUME todo = <<>>, events = <<>>
        PROVE  view = Cached
    <3>1. \A i \in Related : i \in view <=> i \in Cached
      BY <2>2 DEF ViewInv, ViewOK
    <3> QED
      BY <2>1, <3>1
  <2>3. ASSUME Quiet
        PROVE  Friendly \subseteq Cached /\ Cached \ Friendly \subseteq stale
    <3>1. online /\ Len(wire) = 0 /\ Len(todo) = 0
      BY <2>3 DEF Quiet
    <3>2. \A i \in Related : /\ relation[i] # "None" => i \in Cached
                             /\ i \in Cached /\ relation[i] = "None" => i \in stale
      BY <3>1 DEF RelationInv, RelationOK
    <3> QED
      BY <2>1, <3>2 DEF Friendly
  <2> QED
    BY <2>2, <2>3 DEF FriendsKnown
<1> QED
  BY <1>1, <1>2, <1>3, PTL DEF Spec

-----------------------------------------------------------------------------
(* The names *)

\* An effect may go unless it adds i.
LEMMA ListedPop ==
  ASSUME NEW i, NEW td, NEW r, NEW known, NEW held, NEW now,
         ListedOK(i, td, known, held), Popped(td, r), i \in held <=> i \in now,
         ~(IsRelate(td[1], i) /\ td[1].val # "None")
  PROVE  ListedOK(i, r, known, now)
<1>1. ASSUME i \in known, i \notin now
      PROVE  \E m \in 1..Len(r) :
               IsAsk(r[m], i) /\ \E k \in 1..m-1 : IsRelate(r[k], i) /\ r[k].val # "None"
  <2>1. PICK m \in 1..Len(td) :
          IsAsk(td[m], i) /\ \E k \in 1..m-1 : IsRelate(td[k], i) /\ td[k].val # "None"
    BY <1>1 DEF ListedOK
  <2>2. PICK k \in 1..m-1 : IsRelate(td[k], i) /\ td[k].val # "None"
    BY <2>1
  <2>3. k \in 1..Len(td) /\ k # 1 /\ m # 1
    BY <2>2 DEF Popped
  <2>4. m - 1 \in 1..Len(r) /\ r[m - 1] = td[m] /\ r[k - 1] = td[k]
    BY <2>3 DEF Popped
  <2>5. k - 1 \in 1..(m - 1) - 1
    BY <2>2, <2>3
  <2> QED
    BY <2>1, <2>2, <2>4, <2>5
<1>2. \A k, m \in 1..Len(r) : ~(r[k].do = "relate" /\ r[m].do = "name")
  BY DEF ListedOK, Popped
<1> QED
  BY <1>1, <1>2 DEF ListedOK

\* What is in the cache or is not listed waits for nothing.
LEMMA ListedDone ==
  ASSUME NEW i, NEW td, NEW r, NEW known, NEW held, NEW knows, NEW now,
         ListedOK(i, td, known, held), Popped(td, r), i \in now \/ i \notin knows
  PROVE  ListedOK(i, r, knows, now)
  BY DEF ListedOK, Popped

\* The handler of a packet.
LEMMA ListedRead ==
  ASSUME SocialTypes, Read, NEW i \in Related, ListedInv(i)
  PROVE  ListedInv(i)'
<1> DEFINE p == Head(wire)
<1>1. /\ Len(todo) = 0 /\ p \in Packets /\ todo' = HandlePacket(p) /\ Len(todo') \in Nat
      /\ \A k \in 1..Len(todo') : EffectOf(todo'[k], p)
  BY ReadFacts
<1>2. Cached' = Cached
  BY DEF Read, cacheVars, Cached
<1>3. listed' = IF p.emsg = "FriendsList" /\ ~p.incremental THEN DOMAIN p.rels ELSE listed
  BY DEF Read
<1> HIDE DEF p
<1>4. PICK q, known : q = todo' /\ known = listed'
  OBVIOUS
<1>5. SUFFICES ListedOK(i, q, known, Cached)
  BY <1>2, <1>4 DEF ListedInv
<1>6. \A k, m \in 1..Len(q) : ~(q[k].do = "relate" /\ q[m].do = "name")
  BY <1>1, <1>4 DEF EffectOf
<1>7. CASE p.emsg = "FriendsList" /\ ~p.incremental
  <2>1. HasList(q, p.rels)
    BY <1>1, <1>4, <1>7, FullElements
  <2>2. ASSUME i \in known
        PROVE  \E m \in 1..Len(q) :
                 IsAsk(q[m], i) /\ \E k \in 1..m-1 : IsRelate(q[k], i) /\ q[k].val # "None"
    <3>1. i \in DOMAIN p.rels /\ p.rels[i] # "None"
      BY <1>1, <1>3, <1>4, <1>7, <2>2, PacketFields
    <3>2. PICK k \in 1..Len(q) - 2 : q[k] = Eff("relate", i, p.rels[i])
      BY <2>1, <3>1 DEF HasList
    <3>3. IsRelate(q[k], i) /\ q[k].val # "None" /\ IsAsk(q[Len(q) - 1], i)
      BY <2>1, <3>1, <3>2 DEF HasList, IsRelate, IsAsk, Eff
    <3>4. Len(q) - 1 \in 1..Len(q) /\ k \in 1..(Len(q) - 1) - 1
      BY <2>1, <3>2 DEF HasList
    <3> QED
      BY <3>3, <3>4
  <2> QED
    BY <1>6, <2>2 DEF ListedOK
<1>8. CASE ~(p.emsg = "FriendsList" /\ ~p.incremental)
  <2>1. i \in known => i \in Cached
    BY <1>1, <1>3, <1>4, <1>8 DEF ListedInv, ListedOK
  <2> QED
    BY <1>6, <2>1 DEF ListedOK
<1> QED
  BY <1>7, <1>8

LEMMA ListedInvStep ==
  ASSUME SocialTypes, [Next]_vars, NEW i \in Related, ListedInv(i)
  PROVE  ListedInv(i)'
<1>1. ASSUME UNCHANGED <<todo, listed, friends, groups>>
      PROVE  ListedInv(i)'
  BY <1>1 DEF ListedInv, ListedOK, IsAsk, IsRelate, Cached
<1>2. ASSUME NEW do \in {"name", "chat", "enter", "leave", "count", "delete", "ask", "emit"}, Now(do),
             UNCHANGED listed, Cached' = Cached
      PROVE  ListedInv(i)'
  <2>1. Popped(todo, todo') /\ todo[1].do = do
    BY <1>2, NowFacts
  <2>2. ~IsRelate(todo[1], i)
    BY <2>1 DEF IsRelate
  <2>3. ListedOK(i, todo', listed, Cached)
    BY <2>1, <2>2, ListedPop DEF ListedInv
  <2> QED
    BY <1>2, <2>3 DEF ListedInv
<1>3. CASE StoreRelation
  <2>1. /\ Popped(todo, todo') /\ E = todo[1] /\ E.do = "relate"
        /\ listed' = IF E.val = "None" THEN listed \ {E.id} ELSE listed
    BY <1>3, NowFacts DEF StoreRelation
  <2>2. IsRelate(todo[1], i) <=> E.id = i
    BY <2>1 DEF IsRelate
  <2>3. PICK now, knows : now = Cached' /\ knows = listed'
    OBVIOUS
  <2>4. /\ E.id = i => (i \in now <=> E.val # "None")
        /\ E.id # i => (i \in Cached <=> i \in now)
    BY <1>3, <2>3, RelateCached
  <2>5. ListedOK(i, todo', knows, now)
    <3>1. CASE E.id = i
      BY <2>1, <2>3, <2>4, <3>1, ListedDone DEF ListedInv
    <3>2. CASE E.id # i
      <4>1. ListedOK(i, todo', listed, now)
        BY <2>1, <2>2, <2>4, <3>2, ListedPop DEF ListedInv
      <4>2. i \in knows <=> i \in listed
        BY <2>1, <2>3, <3>2
      <4> QED
        BY <4>1, <4>2 DEF ListedOK
    <3> QED
      BY <3>1, <3>2
  <2> QED
    BY <2>3, <2>5 DEF ListedInv
<1>4. CASE LogOn
  <2>1. Len(todo') = 0 /\ listed' = {}
    BY <1>4, LogOnWire DEF LogOn
  <2>2. PICK q : q = todo'
    OBVIOUS
  <2>3. \A k \in 1..Len(q) : FALSE
    BY <2>1, <2>2
  <2>4. ListedOK(i, q, {}, Cached')
    BY <2>3 DEF ListedOK
  <2> QED
    BY <2>1, <2>2, <2>4 DEF ListedInv
<1>5. CASE StoreName \/ StoreChat \/ StoreCount \/ RequestFriendListInfo \/ EmitEvent
  <2>1. CASE StoreName
    BY <1>2, <2>1, NameCached DEF StoreName, histVars
  <2>2. CASE StoreChat
    BY <1>2, <2>2 DEF StoreChat, histVars, Cached
  <2>3. CASE StoreCount
    BY <1>2, <2>3 DEF StoreCount, histVars, Cached
  <2>4. CASE RequestFriendListInfo
    BY <1>2, <2>4 DEF RequestFriendListInfo, cacheVars, histVars, Cached
  <2>5. CASE EmitEvent
    BY <1>2, <2>5 DEF EmitEvent, cacheVars, histVars, Cached
  <2> QED
    BY <1>5, <2>1, <2>2, <2>3, <2>4, <2>5
<1>6. CASE Poll \/ Drop \/ Serve \/ JoinChat \/ LeaveChat
  BY <1>1, <1>6 DEF Poll, Drop, Serve, JoinChat, LeaveChat, cacheVars, histVars
<1>7. ASSUME NEW name, SetPersonaName(name) PROVE ListedInv(i)'
  BY <1>1, <1>7 DEF SetPersonaName, histVars
<1>8. ASSUME NEW j, NEW r, SetRelation(j, r) PROVE ListedInv(i)'
  BY <1>1, <1>8 DEF SetRelation, cacheVars
<1>9. ASSUME NEW j, NEW name, SetPersona(j, name) PROVE ListedInv(i)'
  BY <1>1, <1>9 DEF SetPersona, cacheVars, histVars
<1>10. ASSUME NEW u, NEW state, SetMember(u, state) PROVE ListedInv(i)'
  BY <1>1, <1>10 DEF SetMember, cacheVars
<1>11. ASSUME NEW T, NEW n, Notify(T, n) PROVE ListedInv(i)'
  BY <1>1, <1>11 DEF Notify, cacheVars, histVars
<1>12. CASE UNCHANGED vars
  BY <1>1, <1>12 DEF vars, cacheVars, histVars
<1> QED
  BY <1>3, <1>4, <1>5, <1>6, <1>7, <1>8, <1>9, <1>10, <1>11, <1>12, ListedRead
  DEF Next, ReaderStep


\* An effect that is not about the name of i may go, if what i has been listed for is still there.
LEMMA NamePop ==
  ASSUME NEW i, NEW w, NEW td, NEW r, NEW o, NEW truth, NEW known, NEW kept, NEW knows, NEW keeps,
         NameOK(i, w, td, o, truth, known, kept), Popped(td, r),
         ~IsName(td[1], i), ~IsAsk(td[1], i),
         i \in knows /\ ~Awaits(i, w, r, o) => i \in known /\ keeps = kept
  PROVE  NameOK(i, w, r, o, truth, knows, keeps)
<1>1. (\A k \in 1..Len(r) : ~IsName(r[k], i)) => \A k \in 1..Len(td) : ~IsName(td[k], i)
  BY DEF Popped
<1>2. (\A k \in 1..Len(td) : IsName(td[k], i) => td[k].val = truth)
        => \A k \in 1..Len(r) : IsName(r[k], i) => r[k].val = truth
  BY DEF Popped
<1>3. (\E k \in 1..Len(td) : IsAsk(td[k], i)) => \E k \in 1..Len(r) : IsAsk(r[k], i)
  BY DEF Popped
<1>4. Awaits(i, w, td, o) => Awaits(i, w, r, o)
  BY <1>3 DEF Awaits
<1> QED
  BY <1>1, <1>2, <1>4 DEF NameOK

\* The name of i is stored.
LEMMA NameStore ==
  ASSUME NEW i, NEW w, NEW td, NEW r, NEW o, NEW truth, NEW known, NEW kept, NEW keeps,
         NameOK(i, w, td, o, truth, known, kept), Popped(td, r), IsName(td[1], i),
         i \in known => keeps = td[1].val
  PROVE  NameOK(i, w, r, o, truth, known, keeps)
<1>1. (\A k \in 1..Len(td) : IsName(td[k], i) => td[k].val = truth) => td[1].val = truth
  <2>1. 1 \in 1..Len(td)
    BY DEF Popped
  <2> QED
    BY <2>1
<1>2. (\A k \in 1..Len(td) : IsName(td[k], i) => td[k].val = truth)
        => \A k \in 1..Len(r) : IsName(r[k], i) => r[k].val = truth
  BY DEF Popped
<1> QED
  BY <1>1, <1>2 DEF NameOK

\* An effect becomes a message.
LEMMA NameAsk ==
  ASSUME NEW i, NEW w, NEW td, NEW r, NEW o, NEW m, NEW oo, NEW truth, NEW known, NEW kept,
         NameOK(i, w, td, o, truth, known, kept), Popped(td, r), Pushed(o, m, oo),
         ~IsName(td[1], i), IsAsk(td[1], i) => Asking(m, i)
  PROVE  NameOK(i, w, r, oo, truth, known, kept)
<1>1. (\A k \in 1..Len(r) : ~IsName(r[k], i)) => \A k \in 1..Len(td) : ~IsName(td[k], i)
  BY DEF Popped
<1>2. (\A k \in 1..Len(td) : IsName(td[k], i) => td[k].val = truth)
        => \A k \in 1..Len(r) : IsName(r[k], i) => r[k].val = truth
  BY DEF Popped
<1>3. Asking(m, i) => \E k \in 1..Len(oo) : Asking(oo[k], i)
  BY DEF Pushed
<1>4. (\E k \in 1..Len(o) : Asking(o[k], i)) => \E k \in 1..Len(oo) : Asking(oo[k], i)
  BY DEF Pushed
<1>5. ASSUME NEW k \in 1..Len(td), IsAsk(td[k], i)
      PROVE  Asking(m, i) \/ \E n \in 1..Len(r) : IsAsk(r[n], i)
  BY <1>5 DEF Popped
<1>6. Awaits(i, w, td, o) => Awaits(i, w, r, oo)
  BY <1>3, <1>4, <1>5 DEF Awaits
<1> QED
  BY <1>1, <1>2, <1>6 DEF NameOK

\* A message that is no request for the name of i, or one that may change what is kept of it.
LEMMA NameMessage ==
  ASSUME NEW i, NEW w, NEW td, NEW o, NEW m, NEW oo, NEW truth, NEW known, NEW kept, NEW keeps,
         NameOK(i, w, td, o, truth, known, kept), Pushed(o, m, oo), Asking(m, i) \/ keeps = kept
  PROVE  NameOK(i, w, td, oo, truth, known, keeps)
<1>1. Asking(m, i) => \E k \in 1..Len(oo) : Asking(oo[k], i)
  BY DEF Pushed
<1>2. (\E k \in 1..Len(o) : Asking(o[k], i)) => \E k \in 1..Len(oo) : Asking(oo[k], i)
  BY DEF Pushed
<1>3. Awaits(i, w, td, o) \/ Asking(m, i) => Awaits(i, w, td, oo)
  BY <1>1, <1>2 DEF Awaits
<1> QED
  BY <1>3 DEF NameOK

\* Packets with the name of i.
LEMMA NameNews ==
  ASSUME NEW i, NEW w, NEW v, NEW td, NEW o, NEW truth, NEW known, NEW kept, Extends(w, v),
         \A k \in Len(w)+1..Len(v) : Naming(v[k], i) => v[k].name = truth,
         \E k \in Len(w)+1..Len(v) : Naming(v[k], i)
  PROVE  NameOK(i, v, td, o, truth, known, kept)
<1>1. PICK n \in Len(w)+1..Len(v) : Naming(v[n], i)
  OBVIOUS
<1>2. n \in 1..Len(v) /\ \A k \in 1..Len(w) : n \in k+1..Len(v)
  BY DEF Extends
<1>3. ASSUME NEW k \in 1..Len(v), Naming(v[k], i), \A j \in k+1..Len(v) : ~Naming(v[j], i)
      PROVE  v[k].name = truth
  <2>1. k \notin 1..Len(w)
    BY <1>1, <1>2, <1>3
  <2>2. k \in Len(w)+1..Len(v)
    BY <2>1 DEF Extends
  <2> QED
    BY <1>3, <2>2
<1> QED
  BY <1>1, <1>2, <1>3 DEF NameOK

\* Packets without the name of i, and messages without a request for it.
LEMMA NameMore ==
  ASSUME NEW i, NEW w, NEW v, NEW td, NEW o, NEW oo, NEW truth, NEW known, NEW kept,
         NameOK(i, w, td, o, truth, known, kept), Extends(w, v),
         \A k \in Len(w)+1..Len(v) : ~Naming(v[k], i),
         (\E k \in 1..Len(o) : Asking(o[k], i)) => \E k \in 1..Len(oo) : Asking(oo[k], i)
  PROVE  NameOK(i, v, td, oo, truth, known, kept)
<1>1. ASSUME NEW k \in 1..Len(v), Naming(v[k], i), \A j \in k+1..Len(v) : ~Naming(v[j], i)
      PROVE  v[k].name = truth
  <2>1. k \in 1..Len(w) /\ v[k] = w[k]
    BY <1>1 DEF Extends
  <2>2. \A j \in k+1..Len(w) : j \in k+1..Len(v) /\ v[j] = w[j]
    BY <2>1 DEF Extends
  <2> QED
    BY <1>1, <2>1, <2>2 DEF NameOK
<1>2. (\A k \in 1..Len(v) : ~Naming(v[k], i)) => \A k \in 1..Len(w) : ~Naming(w[k], i)
  BY DEF Extends
<1>3. (\E k \in 1..Len(w) : w[k].emsg = "AccountInfo") => \E k \in 1..Len(v) : v[k].emsg = "AccountInfo"
  BY DEF Extends
<1>4. Awaits(i, w, td, o) => Awaits(i, v, td, oo)
  BY <1>3 DEF Awaits
<1> QED
  BY <1>1, <1>2, <1>4 DEF NameOK

\* The first packet becomes the effects q.
LEMMA NameHandled ==
  ASSUME NEW i, NEW w, NEW v, NEW p, NEW td, NEW q, NEW o, NEW truth, NEW known, NEW knows, NEW kept,
         NameOK(i, w, td, o, truth, known, kept), Len(td) = 0, Popped(w, v), p = w[1],
         \A k \in 1..Len(q) : IsName(q[k], i) => Naming(p, i) /\ q[k].val = p.name,
         Naming(p, i) => \E k \in 1..Len(q) : IsName(q[k], i),
         p.emsg = "AccountInfo" /\ i = Own => \E k \in 1..Len(q) : IsAsk(q[k], i),
         i \in knows => i \in known \/ \E k \in 1..Len(q) : IsAsk(q[k], i)
  PROVE  NameOK(i, v, q, o, truth, knows, kept)
<1>1. \A k \in 1..Len(td) : FALSE
  OBVIOUS
<1>2. ASSUME NEW k \in 1..Len(v), Naming(v[k], i), \A j \in k+1..Len(v) : ~Naming(v[j], i)
      PROVE  v[k].name = truth
  <2>1. k + 1 \in 1..Len(w) /\ v[k] = w[k + 1]
    BY DEF Popped
  <2>2. \A j \in (k + 1)+1..Len(w) : j - 1 \in k+1..Len(v) /\ w[j] = v[j - 1]
    BY DEF Popped
  <2> QED
    BY <1>2, <2>1, <2>2 DEF NameOK
<1>3. ASSUME \A k \in 1..Len(v) : ~Naming(v[k], i)
      PROVE  /\ Naming(p, i) => p.name = truth
             /\ ~Naming(p, i) => \A k \in 1..Len(w) : ~Naming(w[k], i)
  <2>1. 1 \in 1..Len(w) /\ \A j \in 1+1..Len(w) : ~Naming(w[j], i)
    BY <1>3 DEF Popped
  <2>2. \A k \in 1..Len(w) : k = 1 \/ k \in 1+1..Len(w)
    BY DEF Popped
  <2> QED
    BY <2>1, <2>2 DEF NameOK
<1>4. ASSUME Awaits(i, w, td, o)
      PROVE  Awaits(i, v, q, o)
  <2>1. CASE \E k \in 1..Len(o) : Asking(o[k], i)
    BY <2>1 DEF Awaits
  <2>2. ASSUME NEW k \in 1..Len(w), i = Own, w[k].emsg = "AccountInfo"
        PROVE  Awaits(i, v, q, o)
    <3>1. CASE k = 1
      BY <2>2, <3>1 DEF Awaits
    <3>2. CASE k # 1
      <4>1. k - 1 \in 1..Len(v) /\ v[k - 1].emsg = "AccountInfo"
        BY <2>2, <3>2 DEF Popped
      <4> QED
        BY <2>2, <4>1 DEF Awaits
    <3> QED
      BY <3>1, <3>2
  <2> QED
    BY <1>1, <1>4, <2>1, <2>2 DEF Awaits
<1>5. (\E k \in 1..Len(q) : IsAsk(q[k], i)) => Awaits(i, v, q, o)
  BY DEF Awaits
<1> QED
  BY <1>1, <1>2, <1>3, <1>4, <1>5 DEF NameOK

\* The name the caches hold of i, when a relationship is stored.
LEMMA RelateName ==
  ASSUME SocialTypes, StoreRelation, NEW i \in Ids,
         i = Own \/ (i \in Cached /\ ~(i = E.id /\ E.val = "None"))
  PROVE  NameOf(i)' = NameOf(i)
<1>1. E.id \in Related /\ DOMAIN friends \subseteq Users /\ DOMAIN groups \subseteq {Clan}
  BY RelateCached, MapsMember DEF SocialTypes
<1>2. PICK x, r : x = E.id /\ r = E.val
  OBVIOUS
<1>3. \A c : i \in DOMAIN c /\ ~(i = x /\ r = "None") => Relate(c, x, r)[i] = c[i]
  BY DEF Relate, Added, With, Without
<1>4. ownName' = ownName
  BY DEF StoreRelation
<1>5. CASE i = Own
  BY <1>4, <1>5 DEF NameOf
<1>6. CASE i = Clan
  <2>1. i \in DOMAIN groups
    BY <1>1, <1>6, IdsDiffer DEF Cached
  <2>2. groups' = Relate(groups, x, r) \/ groups' = groups
    BY <1>2 DEF StoreRelation
  <2>3. groups'[i] = groups[i]
    BY <1>2, <1>3, <1>6, <2>1, <2>2, IdsDiffer
  <2> QED
    BY <1>6, <2>3, IdsDiffer DEF NameOf
<1>7. CASE i \in Users
  <2>1. i \in DOMAIN friends
    BY <1>1, <1>7, IdsDiffer DEF Cached
  <2>2. friends' = Relate(friends, x, r) \/ friends' = friends
    BY <1>2 DEF StoreRelation
  <2>3. friends'[i] = friends[i]
    BY <1>2, <1>3, <1>7, <2>1, <2>2, IdsDiffer
  <2> QED
    BY <1>7, <2>3, IdsDiffer DEF NameOf
<1> QED
  BY <1>5, <1>6, <1>7 DEF Ids, Related

\* The name the caches hold of i, when a name is stored.
LEMMA StoredName ==
  ASSUME SocialTypes, StoreName, NEW i \in Ids, i = Own \/ i \in Cached
  PROVE  NameOf(i)' = IF i = E.id THEN E.val ELSE NameOf(i)
<1>1. DOMAIN friends \subseteq Users /\ DOMAIN groups \subseteq {Clan}
  BY MapsMember DEF SocialTypes
<1>2. E \in Effects /\ E.do = "name"
  BY NowFacts DEF StoreName
<1>3. E.id \in Ids
  BY <1>2, EffectFields
<1>4. PICK x, n : x = E.id /\ n = E.val
  OBVIOUS
<1>5. /\ friends \in [DOMAIN friends -> Entries] /\ groups \in [DOMAIN groups -> Entries]
  BY MapsMember DEF SocialTypes
<1>6. ASSUME NEW c, c \in [DOMAIN c -> Entries], i \in DOMAIN c
      PROVE  Named(c, x, n)[i].name = IF i = x THEN n ELSE c[i].name
  <2>1. CASE x \in DOMAIN c
    <3>1. Named(c, x, n) = [c EXCEPT ![x].name = n]
      BY <2>1 DEF Named
    <3>2. c[i] \in Entries
      BY <1>6
    <3>3. [c EXCEPT ![x].name = n][i] = IF i = x THEN [c[x] EXCEPT !.name = n] ELSE c[i]
      BY <1>6
    <3>4. [c[i] EXCEPT !.name = n].name = n
      BY <3>2 DEF Entries
    <3> QED
      BY <3>1, <3>3, <3>4
  <2>2. CASE x \notin DOMAIN c
    BY <1>6, <2>2 DEF Named
  <2> QED
    BY <2>1, <2>2
<1>7. CASE i = Own
  <2>1. IF x = Own THEN ownName' = n ELSE ownName' = ownName
    BY <1>4 DEF StoreName
  <2> QED
    BY <1>4, <1>7, <2>1 DEF NameOf
<1>8. CASE i = Clan
  <2>1. i \in DOMAIN groups /\ i # Own
    BY <1>1, <1>8, IdsDiffer DEF Cached
  <2>2. IF x = Clan THEN groups' = Named(groups, x, n) ELSE i # x /\ groups'[i].name = groups[i].name
    <3>1. CASE x = Clan
      BY <1>4, <3>1, IdsDiffer DEF StoreName
    <3>2. CASE x # Clan
      BY <1>3, <1>4, <1>8, <3>2, IdsDiffer DEF StoreName, Ids, Related
    <3> QED
      BY <3>1, <3>2
  <2>3. groups'[i].name = IF i = x THEN n ELSE groups[i].name
    BY <1>5, <1>6, <1>8, <2>1, <2>2
  <2> QED
    BY <1>4, <1>8, <2>1, <2>3 DEF NameOf
<1>9. CASE i \in Users
  <2>1. i \in DOMAIN friends /\ i # Own /\ i # Clan
    BY <1>1, <1>9, IdsDiffer DEF Cached
  <2>2. IF x \in Users THEN friends' = Named(friends, x, n)
        ELSE i # x /\ friends'[i].name = friends[i].name
    <3>1. CASE x \in Users
      BY <1>4, <3>1, IdsDiffer DEF StoreName
    <3>2. CASE x \notin Users
      BY <1>3, <1>4, <1>9, <3>2, IdsDiffer DEF StoreName, Ids, Related
    <3> QED
      BY <3>1, <3>2
  <2>3. friends'[i].name = IF i = x THEN n ELSE friends[i].name
    BY <1>5, <1>6, <1>9, <2>1, <2>2
  <2> QED
    BY <1>4, <2>1, <2>3 DEF NameOf
<1> QED
  BY <1>7, <1>8, <1>9 DEF Ids, Related

\* The handler of a packet.
LEMMA NameRead ==
  ASSUME SocialTypes, Read, NEW i \in Ids, NameInv(i)
  PROVE  NameInv(i)'
<1> DEFINE p == Head(wire)
<1>1. /\ online /\ Len(todo) = 0 /\ p \in Packets /\ p = wire[1] /\ Popped(wire, wire')
      /\ todo' = HandlePacket(p) /\ Len(todo') \in Nat
      /\ \A k \in 1..Len(todo') : EffectOf(todo'[k], p)
  BY ReadFacts
<1>2. /\ UNCHANGED <<persona, out, friends, groups, ownName>>
      /\ listed' = IF p.emsg = "FriendsList" /\ ~p.incremental THEN DOMAIN p.rels ELSE listed
  BY DEF Read, cacheVars, serverVars
<1> HIDE DEF p
<1>3. PICK q, v, knows : q = todo' /\ v = wire' /\ knows = listed'
  OBVIOUS
<1>4. SUFFICES NameOK(i, v, q, out, persona[i], knows \cup {Own}, NameOf(i))
  BY <1>2, <1>3 DEF NameInv, NameOf
<1>5. \A k \in 1..Len(q) : IsName(q[k], i) => Naming(p, i) /\ q[k].val = p.name
  BY <1>1, <1>3 DEF EffectOf, IsName, Naming
<1>6. ASSUME Naming(p, i)
      PROVE  \E k \in 1..Len(q) : IsName(q[k], i)
  <2>1. Len(q) = 2 /\ q[1] = Eff("name", p.id, p.name)
    BY <1>1, <1>3, <1>6, PersonaElements DEF Naming
  <2>2. 1 \in 1..Len(q) /\ IsName(q[1], i)
    BY <1>6, <2>1 DEF Naming, IsName, Eff
  <2> QED
    BY <2>2
<1>7. ASSUME p.emsg = "AccountInfo", i = Own
      PROVE  \E k \in 1..Len(q) : IsAsk(q[k], i)
  <2>1. Len(q) = 1 /\ q[1] = Eff("ask", {Own}, Blank)
    BY <1>1, <1>3, <1>7, AccountElements
  <2>2. 1 \in 1..Len(q) /\ IsAsk(q[1], i)
    BY <1>7, <2>1 DEF IsAsk, Eff
  <2> QED
    BY <2>2
<1>8. ASSUME i \in knows \cup {Own}
      PROVE  i \in listed \cup {Own} \/ \E k \in 1..Len(q) : IsAsk(q[k], i)
  <2>1. CASE p.emsg = "FriendsList" /\ ~p.incremental
    <3>1. HasList(q, p.rels)
      BY <1>1, <1>3, <2>1, FullElements
    <3>2. i \in DOMAIN p.rels => IsAsk(q[Len(q) - 1], i) /\ Len(q) - 1 \in 1..Len(q)
      BY <3>1 DEF HasList, IsAsk, Eff
    <3> QED
      BY <1>2, <1>3, <1>8, <2>1, <3>2
  <2>2. CASE ~(p.emsg = "FriendsList" /\ ~p.incremental)
    BY <1>2, <1>3, <1>8, <2>2
  <2> QED
    BY <2>1, <2>2
<1>9. NameOK(i, wire, todo, out, persona[i], listed \cup {Own}, NameOf(i)) /\ Popped(wire, v)
  BY <1>1, <1>3 DEF NameInv
<1>10. PICK known, news : known = listed \cup {Own} /\ news = knows \cup {Own}
  OBVIOUS
<1> QED
  BY <1>1, <1>5, <1>6, <1>7, <1>8, <1>9, <1>10, NameHandled

LEMMA NameInvStep ==
  ASSUME SocialTypes, SocialTypes', [Next]_vars, NEW i \in Ids, NameInv(i),
         i \in Related => ListedInv(i)
  PROVE  NameInv(i)'
<1> DEFINE known == listed \cup {Own}
<1>1. ASSUME UNCHANGED <<online, wire, todo, out, persona, listed, friends, groups, ownName>>
      PROVE  NameInv(i)'
  BY <1>1 DEF NameInv, NameOK, Awaits, Naming, IsName, IsAsk, Asking, NameOf
<1>2. listed \subseteq Related /\ Own \notin Related
  BY IdsDiffer DEF SocialTypes
<1>3. ASSUME i \in listed, i \notin Cached
      PROVE  /\ \E m \in 1..Len(todo) :
                  IsAsk(todo[m], i) /\ \E k \in 1..m-1 : todo[k].do = "relate"
             /\ \A k \in 1..Len(todo) : todo[k].do # "name"
  <2>1. ListedOK(i, todo, listed, Cached)
    BY <1>2, <1>3 DEF ListedInv
  <2>2. PICK m \in 1..Len(todo) : IsAsk(todo[m], i) /\ \E k \in 1..m-1 : IsRelate(todo[k], i)
    BY <1>3, <2>1 DEF ListedOK
  <2>3. PICK k \in 1..m-1 : todo[k].do = "relate"
    BY <2>2 DEF IsRelate
  <2>4. todo \in Seq(Effects)
    BY DEF SocialTypes
  <2>5. k \in 1..Len(todo)
    BY <2>4, LenProperties
  <2> QED
    BY <2>1, <2>2, <2>3, <2>5 DEF ListedOK
<1>4. ASSUME NEW do \in {"chat", "enter", "leave", "count", "delete", "emit"}, Now(do),
             UNCHANGED <<online, wire, out, persona, listed, friends, groups, ownName>>
      PROVE  NameInv(i)'
  <2>1. Popped(todo, todo') /\ todo[1].do = do
    BY <1>4, NowFacts
  <2>2. ~IsName(todo[1], i) /\ ~IsAsk(todo[1], i)
    BY <2>1 DEF IsName, IsAsk
  <2>3. PICK n, k : n = NameOf(i) /\ k = known
    OBVIOUS
  <2>4. online => NameOK(i, wire, todo', out, persona[i], k, n)
    BY <2>1, <2>2, <2>3, NamePop DEF NameInv
  <2> QED
    BY <1>4, <2>3, <2>4 DEF NameInv, NameOf
<1>5. CASE StoreRelation
  <2>1. /\ Popped(todo, todo') /\ E = todo[1] /\ E.do = "relate" /\ E \in Effects
        /\ UNCHANGED <<online, wire, out, persona>>
        /\ listed' = IF E.val = "None" THEN listed \ {E.id} ELSE listed
    BY <1>5, NowFacts DEF StoreRelation, serverVars
  <2>2. ~IsName(todo[1], i) /\ ~IsAsk(todo[1], i) /\ E.id \in Related
    BY <2>1, EffectFields DEF IsName, IsAsk
  <2>3. PICK r, knows, n, m : r = todo' /\ knows = (listed \cup {Own})' /\ n = NameOf(i) /\ m = NameOf(i)'
    OBVIOUS
  <2>4. ASSUME i \in knows, ~Awaits(i, wire, r, out)
        PROVE  i \in known /\ m = n
    <3>1. i \in known /\ (i # Own => ~(i = E.id /\ E.val = "None"))
      BY <2>1, <2>3, <2>4
    <3>2. i # Own => i \in Cached
      <4> SUFFICES ASSUME i # Own, i \notin Cached PROVE FALSE
        OBVIOUS
      <4>1. PICK k \in 1..Len(todo) : IsAsk(todo[k], i)
        BY <1>3, <3>1
      <4>2. k # 1
        BY <2>2, <4>1
      <4>3. k - 1 \in 1..Len(r) /\ IsAsk(r[k - 1], i)
        BY <2>1, <2>3, <4>1, <4>2 DEF Popped
      <4> QED
        BY <2>4, <4>3 DEF Awaits
    <3> QED
      BY <1>5, <2>3, <3>1, <3>2, RelateName
  <2>5. online => NameOK(i, wire, r, out, persona[i], knows, m)
    <3>1. PICK k : k = known
      OBVIOUS
    <3>2. online => NameOK(i, wire, todo, out, persona[i], k, n)
      BY <2>3, <3>1 DEF NameInv
    <3>3. i \in knows /\ ~Awaits(i, wire, r, out) => i \in k /\ m = n
      BY <2>4, <3>1
    <3> QED
      BY <2>1, <2>2, <2>3, <3>2, <3>3, NamePop
  <2> QED
    BY <2>1, <2>3, <2>5 DEF NameInv
<1>6. CASE StoreName
  <2>1. /\ Popped(todo, todo') /\ E = todo[1] /\ E.do = "name"
        /\ UNCHANGED <<online, wire, out, persona, listed>>
    BY <1>6, NowFacts DEF StoreName, serverVars, histVars
  <2>2. ~IsAsk(todo[1], i) /\ (IsName(todo[1], i) <=> E.id = i)
    BY <2>1 DEF IsName, IsAsk
  <2>3. ASSUME i \in known
        PROVE  NameOf(i)' = IF i = E.id THEN E.val ELSE NameOf(i)
    <3>1. i = Own \/ i \in Cached
      <4> SUFFICES ASSUME i # Own, i \notin Cached PROVE FALSE
        OBVIOUS
      <4>1. todo[1].do # "name"
        BY <1>3, <2>1, <2>3 DEF Popped
      <4> QED
        BY <2>1, <4>1
    <3> QED
      BY <1>6, <3>1, StoredName
  <2>4. PICK r, k, n, m : r = todo' /\ k = known /\ n = NameOf(i) /\ m = NameOf(i)'
    OBVIOUS
  <2>5. online => NameOK(i, wire, todo, out, persona[i], k, n)
    BY <2>4 DEF NameInv
  <2>6. online => NameOK(i, wire, r, out, persona[i], k, m)
    <3>1. CASE E.id = i
      <4>1. IsName(todo[1], i) /\ (i \in k => m = todo[1].val)
        BY <2>1, <2>2, <2>3, <2>4, <3>1
      <4> QED
        BY <2>1, <2>4, <2>5, <4>1, NameStore
    <3>2. CASE E.id # i
      <4>1. ~IsName(todo[1], i) /\ (i \in k => m = n)
        BY <2>2, <2>3, <2>4, <3>2
      <4> QED
        BY <2>1, <2>2, <2>4, <2>5, <4>1, NamePop
    <3> QED
      BY <3>1, <3>2
  <2> QED
    BY <2>1, <2>4, <2>6 DEF NameInv
<1>7. CASE RequestFriendListInfo
  <2>1. /\ Popped(todo, todo') /\ E = todo[1] /\ E.do = "ask" /\ E \in Effects
        /\ UNCHANGED <<online, wire, persona, listed, friends, groups, ownName>>
    BY <1>7, NowFacts DEF RequestFriendListInfo, cacheVars, serverVars, histVars
  <2>2. PICK m : m = [emsg |-> "Ask", ids |-> E.id]
    OBVIOUS
  <2>3. m \in Messages /\ ~IsName(todo[1], i) /\ (IsAsk(todo[1], i) => Asking(m, i))
    <3>1. E.id \in SUBSET Ids
      BY <2>1, EffectFields
    <3>2. m \in Messages
      BY <2>2, <3>1 DEF Messages
    <3> QED
      BY <2>1, <2>2, <3>2 DEF IsName, IsAsk, Asking
  <2>4. online => Pushed(out, m, out')
    BY <1>7, <2>2, <2>3, AppendPushes DEF RequestFriendListInfo, Write, SocialTypes
  <2>5. PICK n, k, r, o : n = NameOf(i) /\ k = known /\ r = todo' /\ o = out'
    OBVIOUS
  <2>6. online => NameOK(i, wire, r, o, persona[i], k, n)
    BY <2>1, <2>3, <2>4, <2>5, NameAsk DEF NameInv
  <2> QED
    BY <2>1, <2>5, <2>6 DEF NameInv, NameOf
<1>8. ASSUME NEW m \in Messages, Write(m), Asking(m, i) \/ NameOf(i)' = NameOf(i),
             UNCHANGED <<online, wire, todo, persona, listed>>
      PROVE  NameInv(i)'
  <2>1. online => Pushed(out, m, out')
    BY <1>8, AppendPushes DEF Write, SocialTypes
  <2>2. PICK n, nn, k, o : n = NameOf(i) /\ nn = NameOf(i)' /\ k = known /\ o = out'
    OBVIOUS
  <2>3. online => NameOK(i, wire, todo, o, persona[i], k, nn)
    BY <1>8, <2>1, <2>2, NameMessage DEF NameInv
  <2> QED
    BY <1>8, <2>2, <2>3 DEF NameInv
<1>9. ASSUME Extends(wire, wire'), \A k \in Len(wire)+1..Len(wire') : ~Naming(wire'[k], i),
             (\E k \in 1..Len(out) : Asking(out[k], i)) => \E k \in 1..Len(out') : Asking(out'[k], i),
             UNCHANGED <<online, todo, listed, friends, groups, ownName>>, persona'[i] = persona[i]
      PROVE  NameInv(i)'
  <2>1. PICK n, k, v, o : n = NameOf(i) /\ k = known /\ v = wire' /\ o = out'
    OBVIOUS
  <2>2. online => NameOK(i, v, todo, o, persona[i], k, n)
    BY <1>9, <2>1, NameMore DEF NameInv
  <2> QED
    BY <1>9, <2>1, <2>2 DEF NameInv, NameOf
<1>10. ASSUME NEW p, Pushed(wire, p, wire'), ~Naming(p, i),
              (\E k \in 1..Len(out) : Asking(out[k], i)) => \E k \in 1..Len(out') : Asking(out'[k], i),
              UNCHANGED <<online, todo, listed, friends, groups, ownName>>, persona'[i] = persona[i]
       PROVE  NameInv(i)'
  <2>1. Extends(wire, wire') /\ \A k \in Len(wire)+1..Len(wire') : wire'[k] = p
    BY <1>10, PushExtends
  <2>2. \A k \in Len(wire)+1..Len(wire') : ~Naming(wire'[k], i)
    BY <1>10, <2>1
  <2> QED
    BY <1>9, <1>10, <2>1, <2>2
<1>11. ASSUME NEW p, Pushed(wire, p, wire'), Naming(p, i), p.name = persona'[i],
              UNCHANGED <<online, todo, listed, friends, groups, ownName>>
       PROVE  NameInv(i)'
  <2>1. Extends(wire, wire') /\ (\A k \in Len(wire)+1..Len(wire') : wire'[k] = p)
        /\ Len(wire') \in Len(wire)+1..Len(wire')
    BY <1>11, PushExtends DEF Pushed
  <2>2. PICK n, k, v, o, t : n = NameOf(i) /\ k = known /\ v = wire' /\ o = out' /\ t = persona'[i]
    OBVIOUS
  <2>3. /\ Extends(wire, v) /\ \A j \in Len(wire)+1..Len(v) : Naming(v[j], i) => v[j].name = t
        /\ \E j \in Len(wire)+1..Len(v) : Naming(v[j], i)
    BY <1>11, <2>1, <2>2
  <2>4. NameOK(i, v, todo, o, t, k, n)
    BY <2>3, NameNews
  <2> QED
    BY <1>11, <2>2, <2>4 DEF NameInv, NameOf
<1>12. CASE LogOn
  <2>1. /\ Len(wire') = 2 /\ wire'[1].emsg = "AccountInfo" /\ wire'[2].emsg = "FriendsList"
        /\ Len(todo') = 0 /\ listed' = {}
    BY <1>12, LogOnWire DEF LogOn
  <2>2. PICK w, q, o, n, t : w = wire' /\ q = todo' /\ o = out' /\ n = NameOf(i)' /\ t = persona'[i]
    OBVIOUS
  <2>3. 1 \in 1..Len(w) /\ \A k \in 1..Len(w) : k = 1 \/ k = 2
    <3>1. PICK k \in Nat : k = 2
      OBVIOUS
    <3>2. 1 \in 1..k /\ \A j \in 1..k : j = 1 \/ j = 2
      BY <3>1
    <3> QED
      BY <2>1, <2>2, <3>1, <3>2
  <2>4. \A k \in 1..Len(q) : FALSE
    BY <2>1, <2>2
  <2>5. \A k \in 1..Len(w) : ~Naming(w[k], i)
    BY <2>1, <2>2, <2>3 DEF Naming
  <2>6. i = Own => Awaits(i, w, q, o)
    BY <2>1, <2>2, <2>3 DEF Awaits
  <2>7. NameOK(i, w, q, o, t, {} \cup {Own}, n)
    BY <2>4, <2>5, <2>6 DEF NameOK
  <2> QED
    BY <2>1, <2>2, <2>7 DEF NameInv
<1>13. CASE Drop
  BY <1>13 DEF Drop, NameInv
<1>14. CASE Serve
  <2>1. /\ UNCHANGED <<online, todo, listed, friends, groups, ownName>> /\ Popped(out, out')
        /\ Head(out) = out[1] /\ persona \in [Ids -> Names] /\ Own \in Ids
    BY <1>14, ServeFacts DEF Serve, cacheVars, SocialTypes, Ids
  <2>2. ASSUME ~Asking(Head(out), i)
        PROVE  (\E k \in 1..Len(out) : Asking(out[k], i)) => \E k \in 1..Len(out') : Asking(out'[k], i)
    BY <2>1, <2>2 DEF Popped
  <2>3. CASE /\ Head(out).emsg = "Ask" /\ Extends(wire, wire')
             /\ \A k \in Len(wire)+1..Len(wire') :
                  \E j \in Head(out).ids : wire'[k] = PersonaOf(j, persona[j])
             /\ \A j \in Head(out).ids :
                  \E k \in Len(wire)+1..Len(wire') : wire'[k] = PersonaOf(j, persona[j])
             /\ UNCHANGED persona
    <3>1. \A j : Naming(PersonaOf(j, persona[j]), i) => j = i /\ PersonaOf(j, persona[j]).name = persona[i]
      BY DEF Naming, PersonaOf
    <3>2. Naming(PersonaOf(i, persona[i]), i)
      BY <2>1 DEF Naming, PersonaOf, Names, Blank
    <3>3. CASE i \in Head(out).ids
      <4>1. PICK n, k, v, o : n = NameOf(i) /\ k = known /\ v = wire' /\ o = out'
        OBVIOUS
      <4>2. /\ Extends(wire, v)
            /\ \A j \in Len(wire)+1..Len(v) : Naming(v[j], i) => v[j].name = persona[i]
            /\ \E j \in Len(wire)+1..Len(v) : Naming(v[j], i)
        BY <2>3, <3>1, <3>2, <3>3, <4>1
      <4>3. NameOK(i, v, todo, o, persona[i], k, n)
        BY <4>2, NameNews
      <4> QED
        BY <2>1, <2>3, <4>1, <4>3 DEF NameInv, NameOf
    <3>4. CASE i \notin Head(out).ids
      <4>1. ~Asking(Head(out), i)
        BY <2>3, <3>4 DEF Asking
      <4>2. \A k \in Len(wire)+1..Len(wire') : ~Naming(wire'[k], i)
        BY <2>3, <3>1, <3>4
      <4> QED
        BY <1>9, <2>1, <2>2, <2>3, <4>1, <4>2
    <3> QED
      BY <3>3, <3>4
  <2>4. CASE /\ Head(out).emsg = "ChangeStatus" /\ Head(out).name \in Names
             /\ Pushed(wire, PersonaOf(Own, Head(out).name), wire')
             /\ persona' = [persona EXCEPT ![Own] = Head(out).name]
    <3>1. PICK p : p = PersonaOf(Own, Head(out).name)
      OBVIOUS
    <3>2. p.emsg = "PersonaState" /\ p.id = Own /\ p.name = Head(out).name /\ p.name # Blank
      BY <2>4, <3>1 DEF PersonaOf, Names, Blank
    <3>3. CASE i = Own
      <4>1. Naming(p, i) /\ p.name = persona'[i]
        BY <2>1, <2>4, <3>2, <3>3 DEF Naming
      <4> QED
        BY <1>11, <2>1, <2>4, <3>1, <4>1
    <3>4. CASE i # Own
      <4>1. ~Naming(p, i) /\ ~Asking(Head(out), i) /\ persona'[i] = persona[i]
        BY <2>1, <2>4, <3>2, <3>4 DEF Naming, Asking
      <4> QED
        BY <1>10, <2>1, <2>2, <2>4, <3>1, <4>1
    <3> QED
      BY <3>3, <3>4
  <2>5. CASE /\ Head(out).emsg = "Join" /\ UNCHANGED persona
             /\ Pushed(wire, [emsg |-> "ChatEnter", room |-> Room, clan |-> Clan,
                              members |-> members], wire')
    <3>1. PICK p : p = [emsg |-> "ChatEnter", room |-> Room, clan |-> Clan, members |-> members]
      OBVIOUS
    <3>2. ~Naming(p, i) /\ ~Asking(Head(out), i)
      BY <2>5, <3>1 DEF Naming, Asking
    <3> QED
      BY <1>10, <2>1, <2>2, <2>5, <3>1, <3>2
  <2>6. CASE Head(out).emsg = "Leave" /\ UNCHANGED <<persona, wire>>
    <3>1. ~Asking(Head(out), i)
      BY <2>6 DEF Asking
    <3>2. Extends(wire, wire') /\ \A k \in Len(wire)+1..Len(wire') : ~Naming(wire'[k], i)
      <4>1. wire \in Seq(Packets) /\ wire' = wire
        BY <2>6 DEF SocialTypes
      <4>2. PICK n \in Nat : n = Len(wire)
        BY <4>1, LenProperties
      <4> QED
        BY <4>1, <4>2 DEF Extends
    <3> QED
      BY <1>9, <2>1, <2>2, <2>6, <3>1, <3>2
  <2> QED
    BY <1>14, <2>3, <2>4, <2>5, <2>6, ServeWire
<1>15. ASSUME NEW j \in Related, NEW r \in Rels, SetRelation(j, r)
       PROVE  NameInv(i)'
  <2>1. UNCHANGED <<online, todo, out, persona, listed, friends, groups, ownName>>
    BY <1>15 DEF SetRelation, cacheVars
  <2>2. CASE online
    <3>1. PICK p : p = [emsg |-> "FriendsList", incremental |-> TRUE, rels |-> [l \in {j} |-> r]]
      OBVIOUS
    <3>2. Pushed(wire, p, wire') /\ ~Naming(p, i)
      BY <1>15, <2>2, <3>1, SetRelationWire DEF Naming
    <3> QED
      BY <1>10, <2>1, <3>2
  <2>3. CASE ~online
    BY <2>1, <2>3 DEF NameInv
  <2> QED
    BY <2>2, <2>3
<1>16. ASSUME NEW j \in Ids, NEW name \in Names \cup {Blank}, SetPersona(j, name)
       PROVE  NameInv(i)'
  <2>1. /\ UNCHANGED <<online, todo, out, listed, friends, groups, ownName>>
        /\ persona' = IF name = Blank THEN persona ELSE [persona EXCEPT ![j] = name]
    BY <1>16 DEF SetPersona, cacheVars, histVars
  <2>2. ASSUME online
        PROVE  NameInv(i)'
    <3>1. PICK p : /\ Pushed(wire, p, wire') /\ p.emsg \in {"PersonaState", "ClanState"}
                   /\ p.id = j /\ p.name = name
      BY <1>16, <2>2, SetPersonaWire
    <3>2. Naming(p, i) <=> i = j /\ name # Blank
      BY <3>1 DEF Naming
    <3>3. CASE i = j /\ name # Blank
      <4>1. persona'[i] = name
        BY <2>1, <3>3 DEF SocialTypes
      <4> QED
        BY <1>11, <2>1, <3>1, <3>2, <3>3, <4>1
    <3>4. CASE ~(i = j /\ name # Blank)
      <4>1. persona'[i] = persona[i]
        BY <2>1, <3>4 DEF SocialTypes
      <4> QED
        BY <1>10, <2>1, <3>1, <3>2, <3>4, <4>1
    <3> QED
      BY <3>3, <3>4
  <2>3. CASE ~online
    BY <2>1, <2>3 DEF NameInv
  <2> QED
    BY <2>2, <2>3
<1>17. ASSUME NEW u \in Users, NEW state \in StateChanges, SetMember(u, state)
       PROVE  NameInv(i)'
  <2>1. UNCHANGED <<online, todo, out, persona, listed, friends, groups, ownName>>
    BY <1>17 DEF SetMember, cacheVars
  <2>2. CASE inRoom
    <3>1. PICK p : p = [emsg |-> "ChatMember", room |-> Room, id |-> u, state |-> state]
      OBVIOUS
    <3>2. Pushed(wire, p, wire') /\ ~Naming(p, i)
      BY <1>17, <2>2, <3>1, SetMemberWire DEF Naming
    <3> QED
      BY <1>10, <2>1, <3>2
  <2>3. CASE ~inRoom
    BY <1>1, <1>17, <2>1, <2>3 DEF SetMember
  <2> QED
    BY <2>2, <2>3
<1>18. ASSUME NEW T \in SUBSET Notices, NEW n \in Counts, Notify(T, n)
       PROVE  NameInv(i)'
  <2>1. UNCHANGED <<online, todo, out, persona, listed, friends, groups, ownName>>
    BY <1>18 DEF Notify, cacheVars, serverVars, histVars
  <2>2. PICK p : Pushed(wire, p, wire') /\ p.emsg = "Notifications"
    BY <1>18, NotifyWire
  <2>3. ~Naming(p, i)
    BY <2>2 DEF Naming
  <2> QED
    BY <1>10, <2>1, <2>2, <2>3
<1>19. CASE StoreChat \/ StoreCount \/ EmitEvent
  <2>1. CASE StoreChat
    BY <1>4, <2>1 DEF StoreChat, serverVars, histVars
  <2>2. CASE StoreCount
    BY <1>4, <2>2 DEF StoreCount, serverVars, histVars
  <2>3. CASE EmitEvent
    BY <1>4, <2>3 DEF EmitEvent, cacheVars, serverVars, histVars
  <2> QED
    BY <1>19, <2>1, <2>2, <2>3
<1>20. CASE Poll
  BY <1>1, <1>20 DEF Poll, cacheVars, serverVars, histVars
<1>21. CASE JoinChat \/ LeaveChat
  <2>1. /\ Write([emsg |-> "Join", room |-> Room]) \/ Write([emsg |-> "Leave", room |-> Room])
        /\ UNCHANGED <<online, wire, todo, persona, listed, friends, groups, ownName>>
    BY <1>21 DEF JoinChat, LeaveChat, cacheVars, serverVars, histVars, Room
  <2>2. [emsg |-> "Join", room |-> Room] \in Messages /\ [emsg |-> "Leave", room |-> Room] \in Messages
    BY DEF Messages
  <2>3. NameOf(i)' = NameOf(i)
    BY <2>1 DEF NameOf
  <2> QED
    BY <1>8, <2>1, <2>2, <2>3
<1>22. ASSUME NEW name \in Names, SetPersonaName(name) PROVE NameInv(i)'
  <2>1. PICK m : m = [emsg |-> "ChangeStatus", name |-> name]
    OBVIOUS
  <2>2. /\ Write(m) /\ m \in Messages
        /\ UNCHANGED <<online, wire, todo, persona, listed, friends, groups>>
    BY <1>22, <2>1 DEF SetPersonaName, serverVars, histVars, Messages
  <2>3. Asking(m, i) \/ NameOf(i)' = NameOf(i)
    BY <2>1, <2>2 DEF Asking, NameOf
  <2> QED
    BY <1>8, <2>2, <2>3
<1>23. CASE UNCHANGED vars
  BY <1>1, <1>23 DEF vars, cacheVars, serverVars, histVars
<1> QED
  BY <1>5, <1>6, <1>7, <1>12, <1>13, <1>14, <1>15, <1>16, <1>17, <1>18, <1>19, <1>20, <1>21, <1>22,
     <1>23, NameRead
  DEF Next, ReaderStep, Ids

\* The names of the client and of all it has listed are the server's once nothing is under way.
THEOREM NamesAreKnown == Spec => []NamesKnown
<1> DEFINE Inv == /\ SocialTypes /\ \A i \in Related : ListedInv(i)
                  /\ \A i \in Ids : NameInv(i)
<1>1. Init => Inv
  <2> SUFFICES ASSUME Init
               PROVE  (\A i \in Related : ListedInv(i)) /\ \A i \in Ids : NameInv(i)
    BY InitTypes
  <2>1. Len(todo) = 0 /\ listed = {} /\ online = FALSE
    BY DEF Init
  <2> QED
    BY <2>1 DEF ListedInv, ListedOK, NameInv
<1>2. Inv /\ [Next]_vars => Inv'
  <2> SUFFICES ASSUME Inv, [Next]_vars PROVE Inv'
    OBVIOUS
  <2>1. SocialTypes'
    BY TypesStep
  <2>2. \A i \in Related : ListedInv(i)'
    BY ListedInvStep
  <2>3. \A i \in Ids : NameInv(i)'
    BY <2>1, NameInvStep
  <2> QED
    BY <2>1, <2>2, <2>3
<1>3. Inv => NamesKnown
  <2> SUFFICES ASSUME Inv, Quiet
               PROVE  /\ ownName = persona[Own]
                      /\ \A i \in listed : (IF i = Clan THEN groups ELSE friends)[i].name = persona[i]
    BY DEF NamesKnown
  <2>1. online /\ Len(wire) = 0 /\ Len(todo) = 0 /\ Len(out) = 0
    BY DEF Quiet
  <2>2. listed \subseteq Related /\ Own \notin Related
    BY IdsDiffer DEF SocialTypes
  <2>3. ASSUME NEW i \in listed \cup {Own}
        PROVE  NameOf(i) = persona[i]
    <3>1. i \in Ids
      BY <2>2 DEF Ids
    <3>2. NameOK(i, wire, todo, out, persona[i], listed \cup {Own}, NameOf(i))
      BY <2>1, <3>1 DEF NameInv
    <3>3. ~Awaits(i, wire, todo, out)
      BY <2>1 DEF Awaits
    <3> QED
      BY <2>1, <2>3, <3>2, <3>3 DEF NameOK
  <2>4. \A i \in listed : NameOf(i) = (IF i = Clan THEN groups ELSE friends)[i].name
    BY <2>2 DEF NameOf
  <2> QED
    BY <2>3, <2>4 DEF NameOf
<1> QED
  BY <1>1, <1>2, <1>3, PTL DEF Spec

-----------------------------------------------------------------------------
(* A chat room and its group *)

\* A product grows with its factors.
LEMMA Products ==
  ASSUME NEW x \in Nat, NEW d \in Nat
  PROVE  /\ x * d \in Nat /\ \A y \in Nat : x + 1 <= y => x * d + d <= y * d
<1>1. x * d \in Nat
  OBVIOUS
<1>2. ASSUME NEW y \in Nat, x + 1 <= y
      PROVE  x * d + d <= y * d
  <2>1. PICK z \in Nat : y = x + 1 + z
    <3>1. y - (x + 1) \in Nat /\ y = x + 1 + (y - (x + 1))
      BY <1>2
    <3> QED
      BY <3>1
  <2>2. (x + 1 + z) * d = x * d + d + z * d /\ z * d \in Nat
    OBVIOUS
  <2> QED
    BY <1>1, <2>1, <2>2
<1> QED
  BY <1>1, <1>2

\* Division by d: the quotient and the remainder are the only ones.
LEMMA DivMod ==
  ASSUME NEW d \in Nat \ {0}, NEW q \in Nat, NEW r \in Nat, r < d
  PROVE  (q * d + r) \div d = q /\ (q * d + r) % d = r
<1>1. PICK n \in Nat : n = q * d + r
  OBVIOUS
<1>2. PICK p \in Nat, m \in Nat : p = n \div d /\ m = n % d
  OBVIOUS
<1>3. n = p * d + m /\ m < d
  BY <1>2
<1>4. ~(p + 1 <= q)
  BY <1>1, <1>3, Products
<1>5. ~(q + 1 <= p)
  BY <1>1, <1>3, Products
<1>6. p = q
  BY <1>4, <1>5
<1>7. m = r
  BY <1>1, <1>3, <1>6
<1> QED
  BY <1>1, <1>2, <1>6, <1>7

\* The fields of a SteamId are read where they were composed, whatever the fields above them.
LEMMA FieldsGet ==
  ASSUME NEW n \in Nat, NEW f \in Nat, f < InstanceSize, NEW r \in Nat, r < AccountSize,
         NEW s, s = n * TypeUnit + f * AccountSize + r
  PROVE  s \in Nat /\ GetAccountInstance(s) = f /\ GetAccountType(s) = n % 16
<1> DEFINE a == AccountSize
           b == InstanceSize
<1>1. a \in Nat \ {0} /\ b \in Nat \ {0} /\ TypeUnit = a * b
  BY SizesAssumption DEF TypeUnit
<1> HIDE DEF a, b
<1>2. f < b /\ r < a /\ s = n * (a * b) + f * a + r /\ AccountSize = a /\ InstanceSize = b
  BY <1>1 DEF a, b
<1>3. PICK c \in Nat \ {0}, g \in Nat, h \in Nat : c = a * b /\ g = f * a /\ h = n * b
  BY <1>1
<1>4. g + a <= c
  <2>1. f + 1 <= b
    BY <1>1, <1>2
  <2>2. f * a + a <= b * a /\ b * a = a * b
    BY <1>1, <2>1, Products
  <2> QED
    BY <1>3, <2>2
<1>5. s = n * c + (g + r) /\ g + r \in Nat /\ g + r < c
  BY <1>1, <1>2, <1>3, <1>4
<1>6. s \div c = n
  BY <1>3, <1>5, DivMod
<1>7. s = (h + f) * a + r
  <2>1. (n * b + f) * a + r = n * (a * b) + f * a + r
    BY <1>1
  <2> QED
    BY <1>2, <1>3, <2>1
<1>8. s \div a = n * b + f
  BY <1>1, <1>2, <1>3, <1>7, DivMod
<1>9. (s \div a) % b = f
  <2>1. (n * b + f) % b = f
    BY <1>1, <1>2, DivMod
  <2> QED
    BY <1>8, <2>1
<1>10. s \in Nat
  BY <1>3, <1>5
<1>11. TypeUnit = c
  BY <1>1, <1>3
<1>12. GetAccountInstance(s) = f
  <2>1. (s \div AccountSize) % InstanceSize = f
    BY <1>2, <1>9
  <2> QED
    BY <2>1 DEF GetAccountInstance, get
<1>13. GetAccountType(s) = n % 16
  <2>1. s \div TypeUnit = n
    BY <1>6, <1>11
  <2> QED
    BY <2>1 DEF GetAccountType, get
<1> QED
  BY <1>10, <1>12, <1>13

\* A SteamId of the instance 0 by its fields.
LEMMA FieldsOf ==
  ASSUME NEW s \in Nat, GetAccountInstance(s) = 0
  PROVE  \E n \in Nat, r \in Nat : r < AccountSize /\ s = n * TypeUnit + r
<1> DEFINE a == AccountSize
           b == InstanceSize
<1>1. a \in Nat \ {0} /\ b \in Nat \ {0} /\ TypeUnit = a * b
  BY SizesAssumption DEF TypeUnit
<1> HIDE DEF a, b
<1>2. PICK m \in Nat, r \in Nat : m = s \div a /\ r = s % a
  BY <1>1
<1>3. s = m * a + r /\ r < a
  BY <1>1, <1>2
<1>4. m % b = 0
  BY <1>2 DEF GetAccountInstance, get, a, b
<1>5. PICK n \in Nat : n = m \div b
  BY <1>1
<1>6. m = n * b
  BY <1>1, <1>4, <1>5
<1>7. (n * b) * a + r = n * (a * b) + r
  BY <1>1
<1>8. s = n * TypeUnit + r /\ r < AccountSize
  BY <1>1, <1>3, <1>6, <1>7 DEF a
<1> QED
  BY <1>8

\* The chat room of a group leads back to the group, whatever its account id and universe
\* (steamid.go:121-136).
THEOREM ChatToClanInverse ==
  ASSUME NEW s \in Nat, GetAccountType(s) = ClanType, GetAccountInstance(s) = 0
  PROVE  ChatToClan(ClanToChat(s)) = s
<1>1. PICK n \in Nat, r \in Nat : r < AccountSize /\ s = n * TypeUnit + r
  BY FieldsOf
<1>2. PICK f \in Nat : f = ClanFlag /\ f < InstanceSize /\ f % InstanceSize = f
  <2>1. ClanFlag \in Nat /\ ClanFlag < InstanceSize
    BY SizesAssumption DEF ClanFlag
  <2> QED
    BY <2>1, SizesAssumption
<1>3. PICK u \in Nat, g \in Nat, z \in Nat : u = TypeUnit /\ g = f * AccountSize /\ z = n * u
  BY SizesAssumption DEF TypeUnit
<1>4. (n + 1) * TypeUnit = z + u /\ 0 * AccountSize = 0
  BY <1>3, SizesAssumption
<1>5. n % 16 = 7
  <2>1. s = n * TypeUnit + 0 * AccountSize + r /\ 0 < InstanceSize
    BY <1>1, <1>3, <1>4, SizesAssumption
  <2> QED
    BY <1>1, <2>1, FieldsGet DEF ClanType
<1>6. (n + 1) % 16 = 8
  BY <1>5
<1>7. PICK s1 \in Nat, s2 \in Nat, s3 \in Nat : s1 = z + g + r /\ s2 = z + u + g + r /\ s3 = z + u + r
  BY <1>3
<1>8. GetAccountType(s1) = 7
  <2>1. s1 = n * TypeUnit + f * AccountSize + r
    BY <1>3, <1>7
  <2> QED
    BY <1>1, <1>2, <1>5, <2>1, FieldsGet
<1>9. GetAccountType(s2) = 8 /\ GetAccountInstance(s2) = f
  <2>1. s2 = (n + 1) * TypeUnit + f * AccountSize + r
    BY <1>3, <1>4, <1>7
  <2> QED
    BY <1>1, <1>2, <1>6, <2>1, FieldsGet
<1>10. GetAccountType(s3) = 8
  <2>1. s3 = (n + 1) * TypeUnit + 0 * AccountSize + r /\ 0 < InstanceSize
    BY <1>3, <1>4, <1>7, SizesAssumption
  <2> QED
    BY <1>1, <1>6, <2>1, FieldsGet
<1>11. set(s, AccountSize, InstanceSize, ClanFlag) = s1
  BY <1>1, <1>2, <1>3, <1>7 DEF set, GetAccountInstance
<1>12. ClanToChat(s) = s2
  <2>1. set(s1, TypeUnit, 16, ChatType) = s1 + (8 - 7) * TypeUnit
    BY <1>8 DEF set, GetAccountType, ChatType
  <2> QED
    BY <1>3, <1>7, <1>11, <2>1 DEF ClanToChat
<1>13. set(s2, AccountSize, InstanceSize, 0) = s3
  <2>1. 0 % InstanceSize = 0
    BY SizesAssumption
  <2>2. set(s2, AccountSize, InstanceSize, 0) = s2 + (0 - f) * AccountSize
    BY <1>9, <2>1 DEF set, GetAccountInstance
  <2>3. (0 - f) * AccountSize = 0 - g
    BY <1>3, SizesAssumption
  <2> QED
    BY <1>7, <1>3, <2>2, <2>3
<1>14. set(s3, TypeUnit, 16, ClanType) = s3 + (7 - 8) * TypeUnit
  BY <1>10 DEF set, GetAccountType, ClanType
<1> QED
  BY <1>1, <1>3, <1>7, <1>9, <1>12, <1>13, <1>14 DEF ChatToClan, ChatType

-----------------------------------------------------------------------------
(* The members of the room *)

\* An effect on another member may go.
LEMMA MemberPop ==
  ASSUME NEW u, NEW w, NEW td, NEW r, NEW here, NEW old, NEW held, NEW now,
         MemberOK(u, w, td, here, old, held), Popped(td, r),
         ~IsEnter(td[1], u), ~IsLeave(td[1], u), u \in held <=> u \in now
  PROVE  MemberOK(u, w, r, here, old, now)
<1>1. (\A k \in 1..Len(r) : ~IsEnter(r[k], u) /\ ~IsLeave(r[k], u))
        => \A k \in 1..Len(td) : ~IsEnter(td[k], u) /\ ~IsLeave(td[k], u)
  BY DEF Popped
<1>2. (\A k \in 1..Len(td) : /\ IsEnter(td[k], u) => u \in here \cup old
                             /\ IsLeave(td[k], u) => u \notin here)
        => \A k \in 1..Len(r) : /\ IsEnter(r[k], u) => u \in here \cup old
                                /\ IsLeave(r[k], u) => u \notin here
  BY DEF Popped
<1> QED
  BY <1>1, <1>2 DEF MemberOK

\* The member enters, or leaves, the cached room.
LEMMA MemberStore ==
  ASSUME NEW u, NEW w, NEW td, NEW r, NEW here, NEW old, NEW held, NEW now,
         MemberOK(u, w, td, here, old, held), Popped(td, r),
         \/ IsEnter(td[1], u) /\ u \in now
         \/ IsLeave(td[1], u) /\ u \notin now
  PROVE  MemberOK(u, w, r, here, old, now)
<1>1. (\A k \in 1..Len(td) : /\ IsEnter(td[k], u) => u \in here \cup old
                             /\ IsLeave(td[k], u) => u \notin here)
        => \A k \in 1..Len(r) : /\ IsEnter(r[k], u) => u \in here \cup old
                                /\ IsLeave(r[k], u) => u \notin here
  BY DEF Popped
<1>2. 1 \in 1..Len(td)
  BY DEF Popped
<1> QED
  BY <1>1, <1>2 DEF MemberOK

\* A packet that brings or takes the member.
LEMMA MemberNews ==
  ASSUME NEW u, NEW w, NEW v, NEW p, NEW td, NEW here, NEW old, NEW held, Pushed(w, p, v),
         Brings(p, u) \/ Takes(p, u),
         Brings(p, u) => u \in here, Takes(p, u) => u \notin here
  PROVE  MemberOK(u, v, td, here, old, held)
<1>1. Len(v) \in 1..Len(v) /\ v[Len(v)] = p
  BY DEF Pushed
<1>2. \A k \in 1..Len(v) : k # Len(v) => Len(v) \in k+1..Len(v)
  BY DEF Pushed
<1> QED
  BY <1>1, <1>2 DEF MemberOK

\* Packets that do neither, when the member stays where she is or is counted as left over.
LEMMA MemberMore ==
  ASSUME NEW u, NEW w, NEW v, NEW td, NEW here, NEW old, NEW held, NEW hence, NEW older,
         MemberOK(u, w, td, here, old, held), Extends(w, v),
         \A k \in Len(w)+1..Len(v) : ~Brings(v[k], u) /\ ~Takes(v[k], u),
         u \in hence => u \in here, u \in here \cup old => u \in hence \cup older
  PROVE  MemberOK(u, v, td, hence, older, held)
<1>1. ASSUME NEW k \in 1..Len(v), \A j \in k+1..Len(v) : ~Brings(v[j], u) /\ ~Takes(v[j], u),
             Brings(v[k], u) \/ Takes(v[k], u)
      PROVE  /\ Brings(v[k], u) => u \in hence \cup older
             /\ Takes(v[k], u) => u \notin hence
  <2>1. k \in 1..Len(w) /\ v[k] = w[k]
    BY <1>1 DEF Extends
  <2>2. \A j \in k+1..Len(w) : j \in k+1..Len(v) /\ v[j] = w[j]
    BY <2>1 DEF Extends
  <2> QED
    BY <1>1, <2>1, <2>2 DEF MemberOK
<1>2. (\A k \in 1..Len(v) : ~Brings(v[k], u) /\ ~Takes(v[k], u))
        => \A k \in 1..Len(w) : ~Brings(w[k], u) /\ ~Takes(w[k], u)
  BY DEF Extends
<1> QED
  BY <1>1, <1>2 DEF MemberOK

\* The first packet becomes the effects q.
LEMMA MemberHandled ==
  ASSUME NEW u, NEW w, NEW v, NEW p, NEW td, NEW q, NEW here, NEW old, NEW held,
         MemberOK(u, w, td, here, old, held), Len(td) = 0, Popped(w, v), p = w[1],
         \A k \in 1..Len(q) : /\ IsEnter(q[k], u) => Brings(p, u)
                              /\ IsLeave(q[k], u) => Takes(p, u),
         Brings(p, u) \/ Takes(p, u) => \E k \in 1..Len(q) : IsEnter(q[k], u) \/ IsLeave(q[k], u)
  PROVE  MemberOK(u, v, q, here, old, held)
<1>1. \A k \in 1..Len(td) : FALSE
  OBVIOUS
<1>2. ASSUME NEW k \in 1..Len(v), \A j \in k+1..Len(v) : ~Brings(v[j], u) /\ ~Takes(v[j], u)
      PROVE  /\ Brings(v[k], u) => u \in here \cup old
             /\ Takes(v[k], u) => u \notin here
  <2>1. k + 1 \in 1..Len(w) /\ v[k] = w[k + 1]
    BY DEF Popped
  <2>2. \A j \in (k + 1)+1..Len(w) : j - 1 \in k+1..Len(v) /\ w[j] = v[j - 1]
    BY DEF Popped
  <2> QED
    BY <1>2, <2>1, <2>2 DEF MemberOK
<1>3. ASSUME \A k \in 1..Len(v) : ~Brings(v[k], u) /\ ~Takes(v[k], u)
      PROVE  /\ Brings(p, u) => u \in here \cup old
             /\ Takes(p, u) => u \notin here
             /\ ~Brings(p, u) /\ ~Takes(p, u) =>
                  \A k \in 1..Len(w) : ~Brings(w[k], u) /\ ~Takes(w[k], u)
  <2>1. 1 \in 1..Len(w) /\ \A j \in 1+1..Len(w) : ~Brings(w[j], u) /\ ~Takes(w[j], u)
    BY <1>3 DEF Popped
  <2>2. \A k \in 1..Len(w) : k = 1 \/ k \in 1+1..Len(w)
    BY DEF Popped
  <2> QED
    BY <2>1, <2>2 DEF MemberOK
<1> QED
  BY <1>1, <1>2, <1>3 DEF MemberOK

\* What a chat effect does to the room in the cache.
LEMMA StoredChat ==
  ASSUME SocialTypes, StoreChat
  PROVE  /\ E.do \in {"chat", "enter", "leave"}
         /\ E.do = "chat" => CachedMembers' = CachedMembers
         /\ E.do = "enter" => CachedMembers' = CachedMembers \cup {E.val}
         /\ E.do = "leave" => CachedMembers' = CachedMembers \ {E.val}
         /\ E.do # "leave" => Room \in DOMAIN chats'
         /\ Room \in DOMAIN chats => Room \in DOMAIN chats' /\ chats'[Room].group = chats[Room].group
         /\ Room \notin DOMAIN chats /\ Room \in DOMAIN chats' /\ E.do # "enter" =>
              chats'[Room].group = Clan
<1> DEFINE C == [group : {Clan, 0}, members : SUBSET Users]
<1>1. /\ E \in Effects /\ E.do \in {"chat", "enter", "leave"}
      /\ \/ E.do = "chat" /\ chats' = AddChat(E.id, E.val)
         \/ E.do = "enter" /\ chats' = AddChatMember(E.id, E.val)
         \/ E.do = "leave" /\ chats' = RemoveChatMember(E.id, E.val)
  BY NowFacts DEF StoreChat
<1>2. E.id = Room /\ (E.do = "chat" => E.val = Clan)
  BY <1>1, EffectFields
<1>3. PICK val : val = E.val
  OBVIOUS
<1>4. PICK cs : cs = chats'
  OBVIOUS
<1>5. chats \in [DOMAIN chats -> C]
  <2>1. chats \in Maps({Room}, C)
    BY DEF SocialTypes
  <2> QED
    BY <2>1, MapsMember
<1>6. \A v : /\ Room \in DOMAIN chats => Added(chats, Room, v) = chats
             /\ Room \notin DOMAIN chats => Added(chats, Room, v) = With(chats, Room, v)
             /\ DOMAIN With(chats, Room, v) = DOMAIN chats \cup {Room} /\ With(chats, Room, v)[Room] = v
  BY DEF Added, With
<1>7. Room \in DOMAIN chats => chats[Room] \in C
  BY <1>5
<1>8. CASE E.do = "chat"
  <2>1. cs = Added(chats, Room, [group |-> Clan, members |-> {}])
    BY <1>1, <1>2, <1>4, <1>8 DEF AddChat
  <2>2. CASE Room \in DOMAIN chats
    <3>1. cs = chats
      BY <1>6, <2>1, <2>2
    <3> QED
      BY <1>4, <1>8, <2>2, <3>1 DEF CachedMembers
  <2>3. CASE Room \notin DOMAIN chats
    <3>1. Room \in DOMAIN cs /\ cs[Room] = [group |-> Clan, members |-> {}]
      BY <1>6, <2>1, <2>3
    <3>2. cs[Room].group = Clan /\ cs[Room].members = {}
      BY <3>1
    <3> QED
      BY <1>4, <1>8, <2>3, <3>1, <3>2 DEF CachedMembers
  <2> QED
    BY <2>2, <2>3
<1>9. CASE E.do = "enter"
  <2>1. PICK c, z : c = Added(chats, Room, z) /\ z = [group |-> 0, members |-> {}]
    OBVIOUS
  <2>2. cs = [c EXCEPT ![Room].members = @ \cup {val}]
    BY <1>1, <1>2, <1>3, <1>4, <1>9, <2>1 DEF AddChatMember
  <2>3. /\ Room \in DOMAIN c /\ (Room \in DOMAIN chats => c[Room] = chats[Room])
        /\ (Room \notin DOMAIN chats => c[Room] = z)
    BY <1>6, <2>1
  <2>4. c[Room] \in [group : {Clan, 0}, members : SUBSET Users]
    BY <1>7, <2>1, <2>3
  <2>5. cs[Room] = [c[Room] EXCEPT !.members = c[Room].members \cup {val}] /\ Room \in DOMAIN cs
    BY <2>2, <2>3
  <2>6. cs[Room].members = c[Room].members \cup {val} /\ cs[Room].group = c[Room].group
    BY <2>4, <2>5
  <2>7. Room \notin DOMAIN chats => c[Room].members = {}
    BY <2>1, <2>3
  <2> QED
    BY <1>3, <1>4, <1>9, <2>3, <2>5, <2>6, <2>7 DEF CachedMembers
<1>10. CASE E.do = "leave"
  <2>1. CASE Room \in DOMAIN chats
    <3>1. cs = [chats EXCEPT ![Room].members = @ \ {val}]
      BY <1>1, <1>2, <1>3, <1>4, <1>10, <2>1 DEF RemoveChatMember
    <3>2. cs[Room] = [chats[Room] EXCEPT !.members = chats[Room].members \ {val}] /\ Room \in DOMAIN cs
      BY <2>1, <3>1
    <3>3. cs[Room].members = chats[Room].members \ {val} /\ cs[Room].group = chats[Room].group
      BY <1>7, <2>1, <3>2
    <3> QED
      BY <1>3, <1>4, <1>10, <2>1, <3>2, <3>3 DEF CachedMembers
  <2>2. CASE Room \notin DOMAIN chats
    <3>1. cs = chats
      BY <1>1, <1>2, <1>4, <1>10, <2>2 DEF RemoveChatMember
    <3> QED
      BY <1>4, <1>10, <2>2, <3>1 DEF CachedMembers
  <2> QED
    BY <2>1, <2>2
<1> QED
  BY <1>1, <1>8, <1>9, <1>10

\* The handler of a packet.
LEMMA MemberRead ==
  ASSUME SocialTypes, Read, NEW u \in Users, MemberInv(u)
  PROVE  MemberInv(u)'
<1> DEFINE p == Head(wire)
<1>1. /\ online /\ Len(todo) = 0 /\ p \in Packets /\ p = wire[1] /\ Popped(wire, wire')
      /\ todo' = HandlePacket(p) /\ Len(todo') \in Nat
      /\ \A k \in 1..Len(todo') : EffectOf(todo'[k], p)
  BY ReadFacts
<1>2. UNCHANGED <<online, inRoom, members, staleRoom, chats>>
  BY DEF Read, cacheVars, serverVars
<1> HIDE DEF p
<1>3. PICK q, v, here, held : q = todo' /\ v = wire' /\ here = Present /\ held = CachedMembers
  OBVIOUS
<1>4. SUFFICES MemberOK(u, v, q, here, staleRoom, held)
  BY <1>2, <1>3 DEF MemberInv, Present, CachedMembers
<1>5. \A k \in 1..Len(q) : EffectOf(q[k], p)
  BY <1>1, <1>3
<1>6. \A k \in 1..Len(q) : /\ IsEnter(q[k], u) => Brings(p, u)
                           /\ IsLeave(q[k], u) => Takes(p, u)
  BY <1>5 DEF EffectOf, IsEnter, IsLeave, Brings, Takes
<1>7. ASSUME Brings(p, u) \/ Takes(p, u)
      PROVE  \E k \in 1..Len(q) : IsEnter(q[k], u) \/ IsLeave(q[k], u)
  <2>1. CASE p.emsg = "ChatEnter"
    <3>1. u \in p.members
      BY <1>7, <2>1 DEF Brings, Takes
    <3>2. /\ Len(q) \in Nat
          /\ \E k \in 2..Len(q) - 1 : q[k] = Eff("enter", Room, u)
      BY <1>1, <1>3, <2>1, <3>1, EnterElements
    <3>3. PICK k \in 2..Len(q) - 1 : q[k] = Eff("enter", Room, u)
      BY <3>2
    <3>4. k \in 1..Len(q) /\ IsEnter(q[k], u)
      BY <3>2, <3>3 DEF IsEnter, Eff
    <3> QED
      BY <3>4
  <2>2. CASE p.emsg = "ChatMember"
    <3>1. p.id = u /\ p.state \in Removals \cup {"Entered"}
      BY <1>7, <2>2 DEF Brings, Takes
    <3>2. Len(q) = 2 /\ q[1] = (IF p.state = "Entered" THEN Eff("enter", Room, p.id)
                                ELSE Eff("leave", Room, p.id))
      BY <1>1, <1>3, <2>2, <3>1, MemberElements
    <3>3. 1 \in 1..Len(q) /\ (IsEnter(q[1], u) \/ IsLeave(q[1], u))
      BY <3>1, <3>2 DEF IsEnter, IsLeave, Eff
    <3> QED
      BY <3>3
  <2> QED
    BY <1>7, <2>1, <2>2 DEF Brings, Takes
<1>8. MemberOK(u, wire, todo, here, staleRoom, held) /\ Popped(wire, v)
  BY <1>1, <1>3 DEF MemberInv
<1> QED
  BY <1>1, <1>6, <1>7, <1>8, MemberHandled

LEMMA MemberInvStep ==
  ASSUME SocialTypes, SocialTypes', [Next]_vars, NEW u \in Users, MemberInv(u)
  PROVE  MemberInv(u)'
<1>1. ASSUME UNCHANGED <<online, wire, todo, inRoom, members, staleRoom, chats>>
      PROVE  MemberInv(u)'
  BY <1>1 DEF MemberInv, MemberOK, Brings, Takes, IsEnter, IsLeave, Present, CachedMembers
<1>2. ASSUME NEW do \in {"relate", "name", "count", "delete", "ask", "emit"}, Now(do),
             UNCHANGED <<online, wire, inRoom, members, staleRoom, chats>>
      PROVE  MemberInv(u)'
  <2>1. Popped(todo, todo') /\ todo[1].do = do
    BY <1>2, NowFacts
  <2>2. ~IsEnter(todo[1], u) /\ ~IsLeave(todo[1], u)
    BY <2>1 DEF IsEnter, IsLeave
  <2>3. PICK here, held, r : here = Present /\ held = CachedMembers /\ r = todo'
    OBVIOUS
  <2>4. online => MemberOK(u, wire, r, here, staleRoom, held)
    BY <2>1, <2>2, <2>3, MemberPop DEF MemberInv
  <2> QED
    BY <1>2, <2>3, <2>4 DEF MemberInv, Present, CachedMembers
<1>3. CASE StoreChat
  <2>1. /\ Popped(todo, todo') /\ E = todo[1] /\ E \in Effects /\ E.do \in {"chat", "enter", "leave"}
        /\ UNCHANGED <<online, wire, inRoom, members, staleRoom>>
    BY <1>3, NowFacts DEF StoreChat, serverVars, histVars
  <2>2. PICK here, held, now, r : here = Present /\ held = CachedMembers /\ now = CachedMembers' /\ r = todo'
    OBVIOUS
  <2>3. /\ E.do = "chat" => now = held
        /\ E.do = "enter" => now = held \cup {E.val}
        /\ E.do = "leave" => now = held \ {E.val}
    BY <1>3, <2>2, StoredChat
  <2>4. online => MemberOK(u, wire, todo, here, staleRoom, held)
    BY <2>2 DEF MemberInv
  <2>5. online => MemberOK(u, wire, r, here, staleRoom, now)
    <3>1. CASE E.do = "chat" \/ E.val # u
      <4>1. ~IsEnter(todo[1], u) /\ ~IsLeave(todo[1], u)
        BY <2>1, <3>1 DEF IsEnter, IsLeave
      <4>2. u \in held <=> u \in now
        BY <2>1, <2>3, <3>1
      <4> QED
        BY <2>1, <2>2, <2>4, <4>1, <4>2, MemberPop
    <3>2. CASE E.do # "chat" /\ E.val = u
      <4>1. \/ IsEnter(todo[1], u) /\ u \in now
            \/ IsLeave(todo[1], u) /\ u \notin now
        BY <2>1, <2>3, <3>2 DEF IsEnter, IsLeave
      <4> QED
        BY <2>1, <2>2, <2>4, <4>1, MemberStore
    <3> QED
      BY <3>1, <3>2
  <2> QED
    BY <2>1, <2>2, <2>5 DEF MemberInv, Present
<1>4. ASSUME Extends(wire, wire'),
             \A k \in Len(wire)+1..Len(wire') : ~Brings(wire'[k], u) /\ ~Takes(wire'[k], u),
             u \in Present' => u \in Present,
             u \in Present \cup staleRoom => u \in Present' \cup staleRoom',
             UNCHANGED <<online, todo, chats>>
      PROVE  MemberInv(u)'
  <2>1. PICK here, hence, older, held, v :
          here = Present /\ hence = Present' /\ older = staleRoom' /\ held = CachedMembers /\ v = wire'
    OBVIOUS
  <2>2. online => MemberOK(u, v, todo, hence, older, held)
    BY <1>4, <2>1, MemberMore DEF MemberInv
  <2> QED
    BY <1>4, <2>1, <2>2 DEF MemberInv, CachedMembers
<1>5. ASSUME NEW p, Pushed(wire, p, wire'), ~Brings(p, u), ~Takes(p, u),
             u \in Present' => u \in Present,
             u \in Present \cup staleRoom => u \in Present' \cup staleRoom',
             UNCHANGED <<online, todo, chats>>
      PROVE  MemberInv(u)'
  <2>1. Extends(wire, wire') /\ \A k \in Len(wire)+1..Len(wire') : wire'[k] = p
    BY <1>5, PushExtends
  <2>2. \A k \in Len(wire)+1..Len(wire') : ~Brings(wire'[k], u) /\ ~Takes(wire'[k], u)
    BY <1>5, <2>1
  <2> QED
    BY <1>4, <1>5, <2>1, <2>2
<1>6. ASSUME NEW p, Pushed(wire, p, wire'), Brings(p, u) \/ Takes(p, u),
             Brings(p, u) => u \in Present', Takes(p, u) => u \notin Present',
             UNCHANGED <<online, todo, chats>>
      PROVE  MemberInv(u)'
  <2>1. PICK hence, older, held, v :
          hence = Present' /\ older = staleRoom' /\ held = CachedMembers /\ v = wire'
    OBVIOUS
  <2>2. MemberOK(u, v, todo, hence, older, held)
    BY <1>6, <2>1, MemberNews
  <2> QED
    BY <1>6, <2>1, <2>2 DEF MemberInv, CachedMembers
<1>7. ASSUME NEW p, Pushed(wire, p, wire'), p.emsg \notin {"ChatEnter", "ChatMember"},
             UNCHANGED <<online, todo, inRoom, members, staleRoom, chats>>
      PROVE  MemberInv(u)'
  BY <1>5, <1>7 DEF Brings, Takes, Present
<1>8. CASE LogOn
  <2>1. /\ Len(wire') = 2 /\ wire'[1].emsg = "AccountInfo" /\ wire'[2].emsg = "FriendsList"
        /\ Len(todo') = 0 /\ staleRoom' = CachedMembers /\ CachedMembers' = CachedMembers
        /\ Present' = {}
    BY <1>8, LogOnWire DEF LogOn, SocialTypes, Present, CachedMembers, cacheVars
  <2>2. PICK w, q, here, old, held :
          w = wire' /\ q = todo' /\ here = Present' /\ old = staleRoom' /\ held = CachedMembers'
    OBVIOUS
  <2>3. \A k \in 1..Len(w) : k = 1 \/ k = 2
    <3>1. PICK k \in Nat : k = 2
      OBVIOUS
    <3>2. \A j \in 1..k : j = 1 \/ j = 2
      BY <3>1
    <3> QED
      BY <2>1, <2>2, <3>1, <3>2
  <2>4. \A k \in 1..Len(q) : FALSE
    BY <2>1, <2>2
  <2>5. \A k \in 1..Len(w) : ~Brings(w[k], u) /\ ~Takes(w[k], u)
    BY <2>1, <2>2, <2>3 DEF Brings, Takes
  <2>6. MemberOK(u, w, q, here, old, held)
    BY <2>1, <2>2, <2>4, <2>5 DEF MemberOK
  <2> QED
    BY <2>2, <2>6 DEF MemberInv
<1>9. CASE Drop
  BY <1>9 DEF Drop, MemberInv
<1>10. CASE Serve
  <2>1. UNCHANGED <<online, todo, chats, members>>
    BY <1>10 DEF Serve, cacheVars
  <2>2. CASE /\ Extends(wire, wire') /\ UNCHANGED <<inRoom, staleRoom>>
             /\ \A k \in Len(wire)+1..Len(wire') :
                  \E j \in Head(out).ids : wire'[k] = PersonaOf(j, persona[j])
    <3>1. \A j : ~Brings(PersonaOf(j, persona[j]), u) /\ ~Takes(PersonaOf(j, persona[j]), u)
      BY DEF Brings, Takes, PersonaOf
    <3>2. \A k \in Len(wire)+1..Len(wire') : ~Brings(wire'[k], u) /\ ~Takes(wire'[k], u)
      BY <2>2, <3>1
    <3>3. Present' = Present
      BY <2>1, <2>2 DEF Present
    <3> QED
      BY <1>4, <2>1, <2>2, <3>2, <3>3
  <2>3. CASE Pushed(wire, PersonaOf(Own, Head(out).name), wire') /\ UNCHANGED <<inRoom, staleRoom>>
    <3>1. PICK p : p = PersonaOf(Own, Head(out).name)
      OBVIOUS
    <3>2. p.emsg = "PersonaState"
      BY <3>1 DEF PersonaOf
    <3> QED
      BY <1>7, <2>1, <2>3, <3>1, <3>2
  <2>4. CASE /\ inRoom' = TRUE /\ UNCHANGED staleRoom
             /\ Pushed(wire, [emsg |-> "ChatEnter", room |-> Room, clan |-> Clan,
                              members |-> members], wire')
    <3>1. PICK p : p = [emsg |-> "ChatEnter", room |-> Room, clan |-> Clan, members |-> members]
      OBVIOUS
    <3>2. p.emsg = "ChatEnter" /\ p.members = members
      BY <3>1
    <3>3. ~Takes(p, u) /\ (Brings(p, u) <=> u \in members)
      BY <3>2 DEF Brings, Takes
    <3>4. Present' = members /\ Present \subseteq members
      BY <2>1, <2>4 DEF Present
    <3>5. CASE u \in members
      BY <1>6, <2>1, <2>4, <3>1, <3>3, <3>4, <3>5
    <3>6. CASE u \notin members
      BY <1>5, <2>1, <2>4, <3>1, <3>3, <3>4, <3>6
    <3> QED
      BY <3>5, <3>6
  <2>5. CASE /\ inRoom' = FALSE /\ UNCHANGED wire
             /\ staleRoom' = IF inRoom THEN staleRoom \cup members ELSE staleRoom
    <3>1. Present' = {} /\ staleRoom' = staleRoom \cup Present
      BY <2>5 DEF Present
    <3>2. /\ Extends(wire, wire')
          /\ \A k \in Len(wire)+1..Len(wire') : ~Brings(wire'[k], u) /\ ~Takes(wire'[k], u)
      <4>1. wire \in Seq(Packets) /\ wire' = wire
        BY <2>5 DEF SocialTypes
      <4>2. PICK n \in Nat : n = Len(wire)
        BY <4>1, LenProperties
      <4> QED
        BY <4>1, <4>2 DEF Extends
    <3> QED
      BY <1>4, <2>1, <3>1, <3>2
  <2> QED
    BY <1>10, <2>2, <2>3, <2>4, <2>5, ServeWire
<1>11. ASSUME NEW j \in Related, NEW r \in Rels, SetRelation(j, r)
       PROVE  MemberInv(u)'
  <2>1. UNCHANGED <<online, todo, inRoom, members, staleRoom, chats>>
    BY <1>11 DEF SetRelation, cacheVars
  <2>2. CASE online
    <3>1. PICK p : p = [emsg |-> "FriendsList", incremental |-> TRUE, rels |-> [l \in {j} |-> r]]
      OBVIOUS
    <3>2. Pushed(wire, p, wire') /\ p.emsg = "FriendsList"
      BY <1>11, <2>2, <3>1, SetRelationWire
    <3> QED
      BY <1>7, <2>1, <3>2
  <2>3. CASE ~online
    BY <2>1, <2>3 DEF MemberInv
  <2> QED
    BY <2>2, <2>3
<1>12. ASSUME NEW j \in Ids, NEW name \in Names \cup {Blank}, SetPersona(j, name)
       PROVE  MemberInv(u)'
  <2>1. UNCHANGED <<online, todo, inRoom, members, staleRoom, chats>>
    BY <1>12 DEF SetPersona, cacheVars, histVars
  <2>2. CASE online
    <3>1. PICK p : Pushed(wire, p, wire') /\ p.emsg \in {"PersonaState", "ClanState"}
      BY <1>12, <2>2, SetPersonaWire
    <3> QED
      BY <1>7, <2>1, <3>1
  <2>3. CASE ~online
    BY <2>1, <2>3 DEF MemberInv
  <2> QED
    BY <2>2, <2>3
<1>13. ASSUME NEW x \in Users, NEW state \in StateChanges, SetMember(x, state)
       PROVE  MemberInv(u)'
  <2>1. /\ UNCHANGED <<online, todo, inRoom, chats>>
        /\ members' = IF state = "Entered" THEN members \cup {x}
                      ELSE IF state \in Removals THEN members \ {x} ELSE members
        /\ staleRoom' = IF inRoom /\ members' # members THEN staleRoom \ {x} ELSE staleRoom
        /\ ~inRoom => wire' = wire
    BY <1>13 DEF SetMember, cacheVars
  <2>2. CASE inRoom
    <3>1. PICK p : p = [emsg |-> "ChatMember", room |-> Room, id |-> x, state |-> state]
      OBVIOUS
    <3>2. Pushed(wire, p, wire') /\ p.emsg = "ChatMember" /\ p.id = x /\ p.state = state
      BY <1>13, <2>2, <3>1, SetMemberWire
    <3>3. /\ Brings(p, u) <=> u = x /\ state = "Entered"
          /\ Takes(p, u) <=> u = x /\ state \in Removals
      BY <3>2 DEF Brings, Takes
    <3>4. Present = members /\ Present' = members'
      BY <2>1, <2>2 DEF Present
    <3>5. CASE u = x /\ state \in Removals \cup {"Entered"}
      <4>1. state = "Entered" => state \notin Removals
        BY DEF Removals
      <4>2. (Brings(p, u) => u \in Present') /\ (Takes(p, u) => u \notin Present')
        BY <2>1, <3>3, <3>4, <3>5, <4>1
      <4> QED
        BY <1>6, <2>1, <3>2, <3>3, <3>5, <4>2
    <3>6. CASE ~(u = x /\ state \in Removals \cup {"Entered"})
      <4>1. /\ u \in Present' => u \in Present
            /\ u \in Present \cup staleRoom => u \in Present' \cup staleRoom'
        BY <2>1, <3>4, <3>6
      <4> QED
        BY <1>5, <2>1, <3>2, <3>3, <3>6, <4>1
    <3> QED
      BY <3>5, <3>6
  <2>3. CASE ~inRoom
    <3>1. Present = {} /\ Present' = {} /\ UNCHANGED <<wire, staleRoom, CachedMembers>>
      BY <2>1, <2>3 DEF Present, CachedMembers
    <3>2. PICK here, held : here = Present /\ held = CachedMembers
      OBVIOUS
    <3>3. online => MemberOK(u, wire, todo, here, staleRoom, held)
      BY <3>2 DEF MemberInv
    <3> QED
      BY <2>1, <3>1, <3>2, <3>3 DEF MemberInv
  <2> QED
    BY <2>2, <2>3
<1>14. ASSUME NEW T \in SUBSET Notices, NEW n \in Counts, Notify(T, n)
       PROVE  MemberInv(u)'
  <2>1. UNCHANGED <<online, todo, inRoom, members, staleRoom, chats>>
    BY <1>14 DEF Notify, cacheVars, serverVars, histVars
  <2>2. PICK p : Pushed(wire, p, wire') /\ p.emsg = "Notifications"
    BY <1>14, NotifyWire
  <2> QED
    BY <1>7, <2>1, <2>2
<1>15. CASE StoreRelation \/ StoreName \/ StoreCount \/ RequestFriendListInfo \/ EmitEvent
  <2>1. CASE StoreRelation
    BY <1>2, <2>1 DEF StoreRelation, serverVars
  <2>2. CASE StoreName
    BY <1>2, <2>2 DEF StoreName, serverVars, histVars
  <2>3. CASE StoreCount
    BY <1>2, <2>3 DEF StoreCount, serverVars, histVars
  <2>4. CASE RequestFriendListInfo
    BY <1>2, <2>4 DEF RequestFriendListInfo, cacheVars, serverVars, histVars
  <2>5. CASE EmitEvent
    BY <1>2, <2>5 DEF EmitEvent, cacheVars, serverVars, histVars
  <2> QED
    BY <1>15, <2>1, <2>2, <2>3, <2>4, <2>5
<1>16. CASE Poll \/ JoinChat \/ LeaveChat
  BY <1>1, <1>16 DEF Poll, JoinChat, LeaveChat, cacheVars, serverVars, histVars
<1>17. ASSUME NEW name, SetPersonaName(name) PROVE MemberInv(u)'
  BY <1>1, <1>17 DEF SetPersonaName, serverVars, histVars
<1>18. CASE UNCHANGED vars
  BY <1>1, <1>18 DEF vars, cacheVars, serverVars, histVars
<1> QED
  BY <1>3, <1>8, <1>9, <1>10, <1>11, <1>12, <1>13, <1>14, <1>15, <1>16, <1>17, <1>18, MemberRead
  DEF Next, ReaderStep, Ids

\* An effect may go; after the one that adds the room, it is there.
LEMMA ChatPop ==
  ASSUME NEW w, NEW td, NEW r, NEW open, NEW opens, ChatOK(w, td, open), Popped(td, r),
         Room \in open => Room \in opens, Room \in opens \/ td[1].do # "chat"
  PROVE  ChatOK(w, r, opens) /\ (Room \in open \/ Opens(td) => Room \in opens \/ Opens(r))
<1>1. Room \in open \/ Opens(td) => Room \in opens \/ Opens(r)
  <2>1. ASSUME NEW k \in 1..Len(td), td[k].do = "chat", Room \notin opens
        PROVE  Opens(r)
    <3>1. k - 1 \in 1..Len(r) /\ r[k - 1].do = "chat"
      BY <2>1 DEF Popped
    <3> QED
      BY <3>1 DEF Opens
  <2> QED
    BY <2>1 DEF Opens
<1>2. ASSUME NEW k \in 1..Len(r), r[k].do = "enter", Room \notin opens
      PROVE  \E j \in 1..k-1 : r[j].do = "chat"
  <2>1. k + 1 \in 1..Len(td) /\ r[k] = td[k + 1]
    BY DEF Popped
  <2>2. PICK j \in 1..k : td[j].do = "chat"
    BY <1>2, <2>1 DEF ChatOK
  <2>3. j \in 1..Len(td) /\ j # 1
    BY <1>2, <2>1, <2>2
  <2>4. j - 1 \in 1..Len(r) /\ td[j] = r[j - 1]
    BY <2>3 DEF Popped
  <2>5. j - 1 \in 1..k-1
    BY <2>2, <2>3
  <2> QED
    BY <2>2, <2>4, <2>5
<1> QED
  BY <1>1, <1>2 DEF ChatOK

\* More packets; one on a member comes after the room.
LEMMA ChatMore ==
  ASSUME NEW w, NEW v, NEW td, NEW open, ChatOK(w, td, open), Extends(w, v),
         \A k \in Len(w)+1..Len(v) : v[k].emsg = "ChatMember" => Room \in open \/ Opens(td) \/ Enters(w)
  PROVE  ChatOK(v, td, open) /\ (Enters(w) => Enters(v))
<1>1. Enters(w) => Enters(v)
  BY DEF Enters, Extends
<1>2. ASSUME NEW k \in 1..Len(v), v[k].emsg = "ChatMember", Room \notin open, ~Opens(td)
      PROVE  \E j \in 1..k-1 : v[j].emsg = "ChatEnter"
  <2>1. CASE k \in 1..Len(w)
    <3>1. v[k] = w[k]
      BY <2>1 DEF Extends
    <3>2. PICK j \in 1..k-1 : w[j].emsg = "ChatEnter"
      BY <1>2, <2>1, <3>1 DEF ChatOK
    <3>3. j \in 1..Len(w)
      BY <2>1, <3>2 DEF Extends
    <3>4. v[j] = w[j]
      BY <3>3 DEF Extends
    <3> QED
      BY <3>2, <3>4
  <2>2. CASE k \in Len(w)+1..Len(v)
    <3>1. PICK j \in 1..Len(w) : w[j].emsg = "ChatEnter"
      BY <1>2, <2>2 DEF Enters
    <3>2. v[j] = w[j] /\ j \in 1..k-1
      BY <2>2, <3>1 DEF Extends
    <3> QED
      BY <3>1, <3>2
  <2> QED
    BY <2>1, <2>2 DEF Extends
<1> QED
  BY <1>1, <1>2 DEF ChatOK

\* The first packet becomes the effects q.
LEMMA ChatHandled ==
  ASSUME NEW w, NEW v, NEW p, NEW td, NEW q, NEW open, ChatOK(w, td, open), Len(td) = 0,
         Popped(w, v), p = w[1], p.emsg = "ChatEnter" => Opens(q),
         \A k \in 1..Len(q) : q[k].do = "enter" =>
           p.emsg = "ChatMember" \/ \E j \in 1..k-1 : q[j].do = "chat"
  PROVE  ChatOK(v, q, open) /\ (Enters(w) => Opens(q) \/ Enters(v)) /\ ~Opens(td)
<1>1. ~Opens(td)
  BY DEF Opens
<1>2. ASSUME NEW j \in 1..Len(w), w[j].emsg = "ChatEnter", ~Opens(q)
      PROVE  j - 1 \in 1..Len(v) /\ v[j - 1].emsg = "ChatEnter"
  <2>1. j # 1
    BY <1>2
  <2> QED
    BY <1>2, <2>1 DEF Popped
<1>3. p.emsg = "ChatMember" => Room \in open
  <2>1. 1 \in 1..Len(w) /\ ~\E j \in 1..1-1 : w[j].emsg = "ChatEnter"
    BY DEF Popped
  <2> QED
    BY <1>1, <2>1 DEF ChatOK
<1>4. ASSUME NEW k \in 1..Len(v), v[k].emsg = "ChatMember", Room \notin open, ~Opens(q)
      PROVE  \E j \in 1..k-1 : v[j].emsg = "ChatEnter"
  <2>1. k + 1 \in 1..Len(w) /\ v[k] = w[k + 1]
    BY DEF Popped
  <2>2. PICK j \in 1..(k + 1)-1 : w[j].emsg = "ChatEnter"
    BY <1>1, <1>4, <2>1 DEF ChatOK
  <2>3. j \in 1..Len(w)
    BY <2>1, <2>2
  <2>4. j - 1 \in 1..Len(v) /\ v[j - 1].emsg = "ChatEnter"
    BY <1>2, <1>4, <2>2, <2>3
  <2>5. j - 1 \in 1..k-1
    BY <2>2, <2>4
  <2> QED
    BY <2>4, <2>5
<1>5. Enters(w) => Opens(q) \/ Enters(v)
  BY <1>2 DEF Enters
<1> QED
  BY <1>1, <1>3, <1>4, <1>5 DEF ChatOK

LEMMA ChatRead ==
  ASSUME SocialTypes, Read, ChatInv
  PROVE  ChatInv'
<1> DEFINE p == Head(wire)
<1>1. /\ Len(todo) = 0 /\ p \in Packets /\ p = wire[1] /\ Popped(wire, wire')
      /\ todo' = HandlePacket(p) /\ Len(todo') \in Nat
      /\ \A k \in 1..Len(todo') : EffectOf(todo'[k], p)
  BY ReadFacts
<1>2. UNCHANGED <<inRoom, chats>>
  BY DEF Read, cacheVars, serverVars
<1> HIDE DEF p
<1>3. PICK q, v, open : q = todo' /\ v = wire' /\ open = DOMAIN chats
  OBVIOUS
<1>4. p.emsg = "ChatEnter" => Len(q) \in Nat /\ Len(q) >= 2 /\ q[1].do = "chat"
  <2>1. p.emsg = "ChatEnter" => Len(q) \in Nat /\ Len(q) >= 2 /\ q[1] = Eff("chat", Room, Clan)
    BY <1>1, <1>3, EnterElements
  <2> QED
    BY <2>1 DEF Eff
<1>5. p.emsg = "ChatEnter" => Opens(q)
  <2>1. p.emsg = "ChatEnter" => 1 \in 1..Len(q)
    BY <1>4
  <2> QED
    BY <1>4, <2>1 DEF Opens
<1>6. ASSUME NEW k \in 1..Len(q), q[k].do = "enter"
      PROVE  p.emsg = "ChatMember" \/ \E j \in 1..k-1 : q[j].do = "chat"
  <2>1. EffectOf(q[k], p)
    BY <1>1, <1>3
  <2>2. CASE p.emsg = "ChatEnter"
    <3>1. 1 \in 1..k-1
      BY <1>4, <1>6, <2>2
    <3> QED
      BY <1>4, <2>2, <3>1
  <2> QED
    BY <1>6, <2>1, <2>2 DEF EffectOf
<1>7. ChatOK(wire, todo, open) /\ Popped(wire, v)
  BY <1>1, <1>3 DEF ChatInv
<1>8. ChatOK(v, q, open) /\ (Enters(wire) => Opens(q) \/ Enters(v)) /\ ~Opens(todo)
  BY <1>1, <1>5, <1>6, <1>7, ChatHandled
<1> QED
  BY <1>2, <1>3, <1>8 DEF ChatInv

LEMMA ChatInvStep ==
  ASSUME SocialTypes, SocialTypes', [Next]_vars, ChatInv
  PROVE  ChatInv'
<1>1. ASSUME UNCHANGED <<wire, todo, inRoom, chats>>
      PROVE  ChatInv'
  BY <1>1 DEF ChatInv, ChatOK, Opens, Enters
<1>2. ASSUME NEW do \in {"relate", "name", "count", "delete", "ask", "emit"}, Now(do),
             UNCHANGED <<wire, inRoom, chats>>
      PROVE  ChatInv'
  <2>1. Popped(todo, todo') /\ todo[1].do # "chat"
    BY <1>2, NowFacts
  <2>2. PICK r, open : r = todo' /\ open = DOMAIN chats
    OBVIOUS
  <2>3. ChatOK(wire, r, open) /\ (Room \in open \/ Opens(todo) => Room \in open \/ Opens(r))
    BY <2>1, <2>2, ChatPop DEF ChatInv
  <2> QED
    BY <1>2, <2>2, <2>3 DEF ChatInv
<1>3. CASE StoreChat
  <2>1. /\ Popped(todo, todo') /\ E = todo[1] /\ E.do \in {"chat", "enter", "leave"}
        /\ UNCHANGED <<wire, inRoom>>
    BY <1>3, NowFacts DEF StoreChat, serverVars
  <2>2. PICK r, open, opens : r = todo' /\ open = DOMAIN chats /\ opens = DOMAIN chats'
    OBVIOUS
  <2>3. (Room \in open => Room \in opens) /\ (E.do = "chat" => Room \in opens)
    BY <1>3, <2>2, StoredChat
  <2>4. ChatOK(wire, r, opens) /\ (Room \in open \/ Opens(todo) => Room \in opens \/ Opens(r))
    BY <2>1, <2>2, <2>3, ChatPop DEF ChatInv
  <2>5. E.do = "enter" => Room \in open
    <3>1. 1 \in 1..Len(todo) /\ ~\E j \in 1..1-1 : todo[j].do = "chat"
      BY <2>1 DEF Popped
    <3>2. ChatOK(wire, todo, open)
      BY <2>2 DEF ChatInv
    <3> QED
      BY <2>1, <3>1, <3>2 DEF ChatOK
  <2>6. Room \in DOMAIN chats' => chats'[Room].group = Clan
    BY <1>3, <2>2, <2>5, StoredChat DEF ChatInv
  <2> QED
    BY <2>1, <2>2, <2>4, <2>6 DEF ChatInv
<1>4. ASSUME Extends(wire, wire'),
             \A k \in Len(wire)+1..Len(wire') : wire'[k].emsg = "ChatMember" => inRoom,
             inRoom' => inRoom \/ Enters(wire'), UNCHANGED <<todo, chats>>
      PROVE  ChatInv'
  <2>1. PICK v, open : v = wire' /\ open = DOMAIN chats
    OBVIOUS
  <2>2. ChatOK(v, todo, open) /\ (Enters(wire) => Enters(v))
    BY <1>4, <2>1, ChatMore DEF ChatInv
  <2> QED
    BY <1>4, <2>1, <2>2 DEF ChatInv
<1>5. ASSUME NEW p, Pushed(wire, p, wire'), p.emsg = "ChatMember" => inRoom,
             inRoom' => inRoom \/ p.emsg = "ChatEnter", UNCHANGED <<todo, chats>>
      PROVE  ChatInv'
  <2>1. Extends(wire, wire') /\ \A k \in Len(wire)+1..Len(wire') : wire'[k] = p
    BY <1>5, PushExtends
  <2>2. p.emsg = "ChatEnter" => Enters(wire')
    BY <1>5 DEF Pushed, Enters
  <2> QED
    BY <1>4, <1>5, <2>1, <2>2
<1>6. CASE LogOn
  <2>1. /\ Len(wire') = 2 /\ wire'[1].emsg = "AccountInfo" /\ wire'[2].emsg = "FriendsList"
        /\ Len(todo') = 0 /\ UNCHANGED chats /\ inRoom' = FALSE
    BY <1>6, LogOnWire DEF LogOn, SocialTypes, cacheVars
  <2>2. PICK w, q : w = wire' /\ q = todo'
    OBVIOUS
  <2>3. \A k \in 1..Len(w) : k = 1 \/ k = 2
    <3>1. PICK k \in Nat : k = 2
      OBVIOUS
    <3>2. \A j \in 1..k : j = 1 \/ j = 2
      BY <3>1
    <3> QED
      BY <2>1, <2>2, <3>1, <3>2
  <2>4. \A k \in 1..Len(q) : FALSE
    BY <2>1, <2>2
  <2>5. ChatOK(w, q, DOMAIN chats)
    BY <2>1, <2>2, <2>3, <2>4 DEF ChatOK
  <2> QED
    BY <2>1, <2>2, <2>5 DEF ChatInv
<1>7. CASE Drop
  <2>1. Len(wire') = 0 /\ ~inRoom' /\ UNCHANGED <<todo, chats>>
    BY <1>7 DEF Drop, cacheVars
  <2>2. PICK w : w = wire'
    OBVIOUS
  <2>3. \A k \in 1..Len(w) : FALSE
    BY <2>1, <2>2
  <2>4. ChatOK(w, todo, DOMAIN chats)
    BY <2>3 DEF ChatInv, ChatOK
  <2> QED
    BY <2>1, <2>2, <2>4 DEF ChatInv
<1>8. CASE Serve
  <2>1. UNCHANGED <<todo, chats>>
    BY <1>8 DEF Serve, cacheVars
  <2>2. CASE /\ Extends(wire, wire') /\ UNCHANGED inRoom
             /\ \A k \in Len(wire)+1..Len(wire') :
                  \E j \in Head(out).ids : wire'[k] = PersonaOf(j, persona[j])
    <3>1. \A j : PersonaOf(j, persona[j]).emsg # "ChatMember"
      BY DEF PersonaOf
    <3> QED
      BY <1>4, <2>1, <2>2, <3>1
  <2>3. CASE Pushed(wire, PersonaOf(Own, Head(out).name), wire') /\ UNCHANGED inRoom
    <3>1. PICK p : p = PersonaOf(Own, Head(out).name)
      OBVIOUS
    <3>2. p.emsg # "ChatMember"
      BY <3>1 DEF PersonaOf
    <3> QED
      BY <1>5, <2>1, <2>3, <3>1, <3>2
  <2>4. CASE Pushed(wire, [emsg |-> "ChatEnter", room |-> Room, clan |-> Clan,
                           members |-> members], wire')
    <3>1. PICK p : p = [emsg |-> "ChatEnter", room |-> Room, clan |-> Clan, members |-> members]
      OBVIOUS
    <3>2. p.emsg = "ChatEnter"
      BY <3>1
    <3> QED
      BY <1>5, <2>1, <2>4, <3>1, <3>2
  <2>5. CASE inRoom' = FALSE /\ UNCHANGED wire
    BY <2>1, <2>5 DEF ChatInv
  <2> QED
    BY <1>8, <2>2, <2>3, <2>4, <2>5, ServeWire
<1>9. ASSUME NEW j \in Related, NEW r \in Rels, SetRelation(j, r)
      PROVE  ChatInv'
  <2>1. UNCHANGED <<online, todo, inRoom, chats>>
    BY <1>9 DEF SetRelation, cacheVars
  <2>2. CASE online
    <3>1. PICK p : p = [emsg |-> "FriendsList", incremental |-> TRUE, rels |-> [l \in {j} |-> r]]
      OBVIOUS
    <3>2. Pushed(wire, p, wire') /\ p.emsg = "FriendsList"
      BY <1>9, <2>2, <3>1, SetRelationWire
    <3> QED
      BY <1>5, <2>1, <3>2
  <2>3. CASE ~online
    BY <1>1, <1>9, <2>1, <2>3 DEF SetRelation, Send
  <2> QED
    BY <2>2, <2>3
<1>10. ASSUME NEW j \in Ids, NEW name \in Names \cup {Blank}, SetPersona(j, name)
       PROVE  ChatInv'
  <2>1. UNCHANGED <<online, todo, inRoom, chats>>
    BY <1>10 DEF SetPersona, cacheVars
  <2>2. CASE online
    <3>1. PICK p : Pushed(wire, p, wire') /\ p.emsg \in {"PersonaState", "ClanState"}
      BY <1>10, <2>2, SetPersonaWire
    <3> QED
      BY <1>5, <2>1, <3>1
  <2>3. CASE ~online
    BY <1>1, <1>10, <2>1, <2>3 DEF SetPersona, Send
  <2> QED
    BY <2>2, <2>3
<1>11. ASSUME NEW u \in Users, NEW state \in StateChanges, SetMember(u, state)
       PROVE  ChatInv'
  <2>1. UNCHANGED <<todo, inRoom, chats>> /\ (~inRoom => wire' = wire)
    BY <1>11 DEF SetMember, cacheVars
  <2>2. CASE inRoom
    BY <1>5, <1>11, <2>1, <2>2, SetMemberWire
  <2>3. CASE ~inRoom
    BY <1>1, <2>1, <2>3
  <2> QED
    BY <2>2, <2>3
<1>12. ASSUME NEW T \in SUBSET Notices, NEW n \in Counts, Notify(T, n)
       PROVE  ChatInv'
  <2>1. UNCHANGED <<todo, inRoom, chats>>
    BY <1>12 DEF Notify, cacheVars, serverVars
  <2>2. PICK p : Pushed(wire, p, wire') /\ p.emsg = "Notifications"
    BY <1>12, NotifyWire
  <2> QED
    BY <1>5, <2>1, <2>2
<1>13. CASE StoreRelation \/ StoreName \/ StoreCount \/ RequestFriendListInfo \/ EmitEvent
  <2>1. CASE StoreRelation
    BY <1>2, <2>1 DEF StoreRelation, serverVars
  <2>2. CASE StoreName
    BY <1>2, <2>2 DEF StoreName, serverVars
  <2>3. CASE StoreCount
    BY <1>2, <2>3 DEF StoreCount, serverVars
  <2>4. CASE RequestFriendListInfo
    BY <1>2, <2>4 DEF RequestFriendListInfo, cacheVars, serverVars
  <2>5. CASE EmitEvent
    BY <1>2, <2>5 DEF EmitEvent, cacheVars, serverVars
  <2> QED
    BY <1>13, <2>1, <2>2, <2>3, <2>4, <2>5
<1>14. CASE Poll \/ JoinChat \/ LeaveChat
  BY <1>1, <1>14 DEF Poll, JoinChat, LeaveChat, cacheVars, serverVars
<1>15. ASSUME NEW name, SetPersonaName(name) PROVE ChatInv'
  BY <1>1, <1>15 DEF SetPersonaName, serverVars
<1>16. CASE UNCHANGED vars
  BY <1>1, <1>16 DEF vars, cacheVars, serverVars
<1> QED
  BY <1>3, <1>6, <1>7, <1>8, <1>9, <1>10, <1>11, <1>12, <1>13, <1>14, <1>15, <1>16, ChatRead
  DEF Next, ReaderStep, Ids

\* In a chat room, the cache has every member once nothing is under way, and the room leads to
\* its group.
THEOREM RoomIsKnown == Spec => []RoomKnown
<1> DEFINE Inv == SocialTypes /\ ChatInv /\ \A u \in Users : MemberInv(u)
<1>1. Init => Inv
  <2> SUFFICES ASSUME Init
               PROVE  ChatInv /\ \A u \in Users : MemberInv(u)
    BY InitTypes
  <2>1. Len(todo) = 0 /\ Len(wire) = 0 /\ online = FALSE /\ inRoom = FALSE /\ DOMAIN chats = {}
    BY DEF Init, Empty
  <2> QED
    BY <2>1 DEF ChatInv, ChatOK, MemberInv
<1>2. Inv /\ [Next]_vars => Inv'
  <2> SUFFICES ASSUME Inv, [Next]_vars PROVE Inv'
    OBVIOUS
  <2>1. SocialTypes'
    BY TypesStep
  <2>2. ChatInv'
    BY <2>1, ChatInvStep
  <2>3. \A u \in Users : MemberInv(u)'
    BY <2>1, MemberInvStep
  <2> QED
    BY <2>1, <2>2, <2>3
<1>3. Inv => RoomKnown
  <2> SUFFICES ASSUME Inv, Quiet, inRoom
               PROVE  /\ members \subseteq CachedMembers
                      /\ CachedMembers \ members \subseteq staleRoom
                      /\ chats[Room].group = Clan /\ ChatToClan(Room) = Clan
    BY DEF RoomKnown
  <2>1. online /\ Len(wire) = 0 /\ Len(todo) = 0 /\ Present = members
    BY DEF Quiet, Present
  <2>2. \A u \in Users : /\ u \in members => u \in CachedMembers
                         /\ u \in CachedMembers => u \in members \cup staleRoom
    BY <2>1 DEF MemberInv, MemberOK
  <2>3. members \subseteq Users /\ CachedMembers \subseteq Users
    <3>1. chats \in Maps({Room}, [group : {Clan, 0}, members : SUBSET Users])
      BY DEF SocialTypes
    <3>2. chats \in [DOMAIN chats -> [group : {Clan, 0}, members : SUBSET Users]]
      BY <3>1, MapsMember
    <3> QED
      BY <3>2 DEF SocialTypes, CachedMembers
  <2>4. Room \in DOMAIN chats
    BY <2>1 DEF ChatInv, Opens, Enters
  <2>5. ChatToClan(Room) = Clan
    BY IdsAssumption, ChatToClanInverse DEF Room
  <2> QED
    BY <2>2, <2>3, <2>4, <2>5 DEF ChatInv
<1> QED
  BY <1>1, <1>2, <1>3, PTL DEF Spec
=============================================================================
