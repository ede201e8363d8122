----------------------------- MODULE TradeProofs -----------------------------
(***************************************************************************)
(* What holds of a Trade for every length of the server's log, every bound *)
(* of the queue and every way in which the trade may end.                  *)
(***************************************************************************)
EXTENDS Trade, FiniteSetTheorems, SequenceTheorems, WellFoundedInduction, TLAPS

-----------------------------------------------------------------------------
(* The operators of the model *)

\* A set of naturals that is bounded and not empty has a maximum, and Max is it.
LEMMA MaxOfBounded ==
  ASSUME NEW n \in Nat, NEW S \in SUBSET (0..n), S # {}
  PROVE  Max(S) \in S /\ \A y \in S : y <= Max(S)
<1> DEFINE T == {m \in Nat : n - m \in S}
<1>1. T \subseteq Nat /\ T # {}
  <2>1. PICK s \in S : TRUE
    OBVIOUS
  <2>2. n - s \in Nat /\ n - (n - s) = s
    OBVIOUS
  <2> QED
    BY <2>1, <2>2
<1>2. PICK m \in T : \A k \in T : ~ (<<k, m>> \in OpToRel(<, Nat))
  <2> HIDE DEF T
  <2> QED
    BY <1>1, NatLessThanWellFounded, WFMin
<1>3. \A k \in T : m <= k
  <2>1. \A k \in T : ~ (k < m)
    <3> HIDE DEF T
    <3> QED
      BY <1>1, <1>2, Zenon DEF OpToRel
  <2> QED
    BY <1>1, <2>1
<1>4. \A y \in S : y <= n - m
  <2> TAKE y \in S
  <2>1. n - y \in T
    OBVIOUS
  <2> QED
    BY <1>3, <2>1
<1>5. n - m \in S
  OBVIOUS
<1> QED
  BY <1>4, <1>5 DEF Max

\* An order of a finite set is a sequence that holds every element of it.
LEMMA OrderOfFinite ==
  ASSUME NEW S, IsFiniteSet(S), NEW order \in SetToSeqs(S)
  PROVE  /\ order \in Seq(S)
         /\ \A x \in S : \E k \in DOMAIN order : order[k] = x
<1> DEFINE c == Cardinality(S)
<1>1. c \in Nat
  BY FS_CardinalityType
<1>2. order \in [1..c -> S] /\ \A i, j \in 1..c : i # j => order[i] # order[j]
  BY DEF SetToSeqs
<1>3. order \in Injection(1..c, S)
  BY <1>2 DEF Injection, IsInjective
<1>4. Cardinality(1..c) = c
  BY <1>1, FS_Interval
<1>5. order \in Surjection(1..c, S)
  BY <1>3, <1>4, FS_Injection
<1> QED
  BY <1>1, <1>2, <1>5 DEF Surjection

\* A function on 1..n is a sequence of length n.
LEMMA FunctionIsSeq ==
  ASSUME NEW n \in Nat, NEW S, NEW f \in [1..n -> S]
  PROVE  f \in Seq(S) /\ Len(f) = n
<1>1. f \in Seq(S)
  BY SeqDef
<1> QED
  BY <1>1, LenProperties

\* The elements of a concatenation are those of its parts.
LEMMA ConcatElements ==
  ASSUME NEW S, NEW s \in Seq(S), NEW t \in Seq(S)
  PROVE  /\ s \o t \in Seq(S)
         /\ \A k \in DOMAIN (s \o t) :
              \/ k \in DOMAIN s /\ (s \o t)[k] = s[k]
              \/ k - Len(s) \in DOMAIN t /\ (s \o t)[k] = t[k - Len(s)]
         /\ \A k \in DOMAIN s : k \in DOMAIN (s \o t) /\ (s \o t)[k] = s[k]
         /\ \A k \in DOMAIN t :
              k + Len(s) \in DOMAIN (s \o t) /\ (s \o t)[k + Len(s)] = t[k]
<1>1. /\ Len(s) \in Nat /\ DOMAIN s = 1..Len(s)
      /\ Len(t) \in Nat /\ DOMAIN t = 1..Len(t)
  BY LenProperties
<1>2. /\ s \o t \in Seq(S) /\ Len(s \o t) = Len(s) + Len(t)
      /\ \A i \in 1 .. Len(s) + Len(t) : (s \o t)[i] =
           IF i <= Len(s) THEN s[i] ELSE t[i - Len(s)]
  BY ConcatProperties
<1>3. DOMAIN (s \o t) = 1..Len(s) + Len(t)
  BY <1>2, LenProperties
<1> QED
  BY <1>1, <1>2, <1>3

-----------------------------------------------------------------------------
(* The inductive invariant *)

\* The partner's entry at position i, and whether it makes the partner ready or unready.
IsTheirs(i) == i < Len(log) /\ log[i + 1].who = "them"
IsToggle(i) == IsTheirs(i) /\ log[i + 1].act \in {"Ready", "Unready"}

\* The client is never ahead of the log, which is never behind the version.
InStep == LogPos <= Len(log) /\ version <= Len(log) + 1

\* What is queued is an entry of the partner's that is in the log.
QueuedInv ==
  \A k \in DOMAIN queuedEvents : queuedEvents[k].pos >= 0 =>
    /\ queuedEvents[k].pos < Len(log)
    /\ log[queuedEvents[k].pos + 1] = [who |-> "them", act |-> queuedEvents[k].act]

\* The server's view of the partner is the partner's last toggle in the log.
LastToggle ==
  \A i \in Positions :
    IsToggle(i) /\ (\A j \in Positions : IsToggle(j) => j <= i)
      => ready["them"] = (log[i + 1].act = "Ready")

TradeInv ==
  /\ TypeOK /\ InStep
  /\ NothingSkipped /\ QueuedInv
  /\ LastToggle /\ ReadyAgrees

\* A step that leaves the log as it is or adds an entry of the client's own.
OwnStep ==
  /\ log' \in Seq(Entries) /\ Len(log') <= MaxLog /\ Len(log) <= Len(log')
  /\ \A i \in 1..Len(log) : log'[i] = log[i]
  /\ \A i \in Positions : IsTheirs(i)' => IsTheirs(i)
  /\ version' \in 1..MaxLog + 1 /\ version' <= Len(log') + 1
  /\ ready' \in [{"me", "them"} -> BOOLEAN] /\ ready'["them"] = ready["them"]
  /\ status' \in Statuses

-----------------------------------------------------------------------------
(* The server *)

\* An own action that the server carries out.
LEMMA DoMe ==
  ASSUME TradeInv, NEW a \in Acts, Do("me", a)
  PROVE  OwnStep
<1> USE DEF TradeInv, TypeOK, InStep
<1>1. [who |-> "me", act |-> a] \in Entries
  BY DEF Entries
<1>2. /\ log' \in Seq(Entries) /\ Len(log') = Len(log) + 1 /\ Len(log) \in Nat
      /\ log'[Len(log) + 1] = [who |-> "me", act |-> a]
      /\ \A i \in 1..Len(log) : log'[i] = log[i]
  BY <1>1 DEF Do
<1>3. Len(log') <= MaxLog /\ MaxLog \in Nat
  BY <1>2, LogAssumption DEF Do, LogAssumption
<1>4. \A i \in Positions : IsTheirs(i)' => IsTheirs(i)
  <2>1. ASSUME NEW i \in Positions, IsTheirs(i)'
        PROVE  IsTheirs(i)
    <3>1. i \in Nat /\ i < Len(log')
      BY <2>1, <1>3 DEF IsTheirs, Positions
    <3>2. i # Len(log)
      BY <1>2, <2>1 DEF IsTheirs
    <3>3. i + 1 \in 1..Len(log)
      BY <1>2, <3>1, <3>2
    <3> QED
      BY <1>2, <2>1, <3>1, <3>3 DEF IsTheirs
  <2> QED
    BY <2>1
<1>5. version' \in 1..MaxLog + 1 /\ version' <= Len(log') + 1
  BY <1>2, <1>3 DEF Do
<1>6. /\ ready' \in [{"me", "them"} -> BOOLEAN] /\ ready'["them"] = ready["them"]
      /\ status' \in Statuses
  BY DEF Do
<1> QED
  BY <1>2, <1>3, <1>4, <1>5, <1>6 DEF OwnStep

\* A step of the client's that the server does not notice, or that ends the trade.
LEMMA LogKept ==
  ASSUME TradeInv, UNCHANGED <<log, version, ready>>, status' \in Statuses
  PROVE  OwnStep
<1>1. \A i \in Positions : IsTheirs(i)' <=> IsTheirs(i)
  BY DEF IsTheirs
<1> QED
  BY <1>1 DEF TradeInv, TypeOK, InStep, OwnStep

\* What the partner has done in the log and the server's view of it do not change by an
\* own step.
LEMMA OwnStepToggles ==
  ASSUME TradeInv, OwnStep
  PROVE  /\ \A i \in Positions : IsTheirs(i)' <=> IsTheirs(i)
         /\ \A i \in Positions : IsTheirs(i) => log'[i + 1] = log[i + 1]
         /\ \A i \in Positions : IsToggle(i)' <=> IsToggle(i)
         /\ LastToggle'
<1> USE LogAssumption DEF LogAssumption, TradeInv, TypeOK, Positions
<1>1. \A i \in Positions : IsTheirs(i) => log'[i + 1] = log[i + 1]
  BY DEF OwnStep, IsTheirs
<1>2. \A i \in Positions : IsTheirs(i)' <=> IsTheirs(i)
  BY DEF OwnStep, IsTheirs
<1>3. \A i \in Positions : IsToggle(i)' <=> IsToggle(i)
  BY <1>1, <1>2 DEF IsToggle
<1>4. LastToggle'
  BY <1>1, <1>3 DEF LastToggle, IsToggle, OwnStep
<1> QED
  BY <1>1, <1>2, <1>3, <1>4

-----------------------------------------------------------------------------
(* onStatus *)

\* A status answers with a part of the log that has the entries from LogPos on.
Answer(S) == S \in {EventsFrom(0), EventsFrom(LogPos)}

\* The entries that updateEvents does not skip are the partner's from LogPos on, whatever
\* part of the log the status holds.
LEMMA FreshIs ==
  ASSUME TypeOK, NEW S, Answer(S)
  PROVE  Fresh(S) = {i \in Positions : i >= LogPos /\ IsTheirs(i)'}
BY LogAssumption DEF LogAssumption, TypeOK, Answer, EventsFrom, Fresh, Entry, IsTheirs, Positions

\* LogPos never gets ahead of the log.
LEMMA NextLogPosBound ==
  ASSUME TradeInv, OwnStep, NEW S, Answer(S)
  PROVE  NextLogPos(S) \in 0..MaxLog /\ NextLogPos(S) <= Len(log')
<1> DEFINE F == Fresh(S) \cup {0}
<1> USE LogAssumption DEF LogAssumption, Positions
<1>1. LogPos \in 0..MaxLog /\ LogPos <= Len(log')
  BY DEF TradeInv, TypeOK, InStep, OwnStep
<1>2. CASE S = {}
  BY <1>1, <1>2 DEF NextLogPos
<1>3. CASE S # {}
  <2>1. Len(log') \in 1..MaxLog
    BY <1>3 DEF Answer, EventsFrom, OwnStep
  <2>2. F \in SUBSET (0..Len(log') - 1) /\ F # {}
    BY <2>1, FreshIs DEF TradeInv, IsTheirs
  <2>3. Max(F) \in F
    <3> HIDE DEF F
    <3>1. Len(log') - 1 \in Nat
      BY <2>1
    <3> QED
      BY <2>2, <3>1, MaxOfBounded
  <2>4. NextLogPos(S) = Max(F) + 1
    BY <1>3 DEF NextLogPos
  <2> QED
    BY <2>1, <2>2, <2>3, <2>4
<1> QED
  BY <1>2, <1>3

\* An order of the entries holds the partner's visible entries from LogPos on, and no other.
LEMMA OrderIs ==
  ASSUME TradeInv, OwnStep, NEW S, Answer(S), NEW order \in Orders(S)
  PROVE  /\ order \in Seq(Positions)
         /\ \A k \in DOMAIN order :
              order[k] >= LogPos /\ IsTheirs(order[k])' /\ Entry(order[k]).act \in Visible
         /\ \A i \in Positions : i >= LogPos /\ IsTheirs(i)' /\ Entry(i).act \in Visible
              => \E k \in DOMAIN order : order[k] = i
<1> DEFINE V == {i \in Fresh(S) : Entry(i).act \in Visible}
<1>1. V = {i \in Positions : i >= LogPos /\ IsTheirs(i)' /\ Entry(i).act \in Visible}
  BY FreshIs DEF TradeInv
<1>2. IsFiniteSet(V)
  <2>1. IsFiniteSet(Positions)
    BY FS_Interval, LogAssumption DEF LogAssumption, Positions
  <2>2. V \in SUBSET Positions
    BY <1>1
  <2> QED
    BY <2>1, <2>2, FS_Subset
<1>3. order \in SetToSeqs(V)
  BY DEF Orders
<1> HIDE DEF V
<1>4. order \in Seq(V) /\ \A x \in V : \E k \in DOMAIN order : order[k] = x
  BY <1>2, <1>3, OrderOfFinite
<1>5. \A k \in DOMAIN order : order[k] \in V
  BY <1>4
<1>6. order \in Seq(Positions)
  BY <1>1, <1>4
<1> QED
  BY <1>1, <1>4, <1>5, <1>6

\* What a status adds to the queue.
Batch(order) == EndEvents \o Handed(order)

\* The events of a status: each is an entry of the partner's, and none from LogPos on is
\* missing.
LEMMA BatchIs ==
  ASSUME TradeInv, OwnStep, NEW S, Answer(S), NEW order \in Orders(S)
  PROVE  /\ Batch(order) \in Seq(Queueable)
         /\ \A k \in DOMAIN Batch(order) : Batch(order)[k].pos >= 0 =>
              /\ Batch(order)[k].pos < Len(log')
              /\ log'[Batch(order)[k].pos + 1] = [who |-> "them", act |-> Batch(order)[k].act]
         /\ \A i \in Positions : i >= LogPos /\ IsTheirs(i)' /\ Entry(i).act \in Visible
              => \E k \in DOMAIN Batch(order) : Batch(order)[k].pos = i
<1> DEFINE batch == Batch(order)
           H == Handed(order)
           E == EndEvents
<1>1. /\ order \in Seq(Positions)
      /\ \A k \in DOMAIN order :
           order[k] >= LogPos /\ IsTheirs(order[k])' /\ Entry(order[k]).act \in Visible
      /\ \A i \in Positions : i >= LogPos /\ IsTheirs(i)' /\ Entry(i).act \in Visible
           => \E k \in DOMAIN order : order[k] = i
  BY OrderIs
<1>2. \A k \in DOMAIN order : order[k] \in Positions
  BY <1>1
<1>3. /\ DOMAIN H = DOMAIN order /\ DOMAIN H = 1..Len(order) /\ Len(order) \in Nat
      /\ \A k \in DOMAIN order : H[k].pos = order[k] /\ H[k].act = Entry(order[k]).act
      /\ \A k \in DOMAIN order : H[k] \in [pos : Positions, act : Visible]
  BY <1>1, <1>2 DEF Handed
<1>4. H \in Seq([pos : Positions, act : Visible])
  <2>1. H \in [1..Len(order) -> [pos : Positions, act : Visible]]
    BY <1>3 DEF Handed
  <2> QED
    BY <1>3, <2>1, FunctionIsSeq
<1>5. E \in Seq({Ended(s) : s \in Statuses}) /\ \A k \in DOMAIN E : E[k].pos = -1
  <2>1. Ended(status') \in {Ended(s) : s \in Statuses} /\ Ended(status').pos = -1
    BY DEF Ended, OwnStep
  <2>2. CASE status' \in EndReasons
    <3>1. E = <<Ended(status')>>
      BY <2>2 DEF EndEvents
    <3> QED
      BY <2>1, <3>1
  <2>3. CASE status' \notin EndReasons
    <3>1. E = <<>>
      BY <2>3 DEF EndEvents
    <3> QED
      BY <3>1, EmptySeq
  <2> QED
    BY <2>2, <2>3
<1> HIDE DEF H, E
<1>6. H \in Seq(Queueable) /\ E \in Seq(Queueable) /\ batch = E \o H
  <2>1. /\ [pos : Positions, act : Visible] \subseteq Queueable
        /\ {Ended(s) : s \in Statuses} \subseteq Queueable
    BY DEF Queueable
  <2> QED
    BY <1>4, <1>5, <2>1, SeqMonotonic DEF H, E, Batch
<1> HIDE DEF batch
<1>7. /\ batch \in Seq(Queueable)
      /\ \A k \in DOMAIN batch :
           \/ k \in DOMAIN E /\ batch[k] = E[k]
           \/ k - Len(E) \in DOMAIN H /\ batch[k] = H[k - Len(E)]
      /\ \A k \in DOMAIN H : k + Len(E) \in DOMAIN batch /\ batch[k + Len(E)] = H[k]
  BY <1>6, ConcatElements
<1>8. ASSUME NEW k \in DOMAIN H
      PROVE  /\ H[k].pos < Len(log')
             /\ log'[H[k].pos + 1] = [who |-> "them", act |-> H[k].act]
  <2>1. order[k] \in Positions /\ IsTheirs(order[k])'
    BY <1>1, <1>2, <1>3
  <2>2. log'[order[k] + 1] \in Entries
    BY <2>1, LogAssumption DEF LogAssumption, IsTheirs, Positions, OwnStep
  <2>3. H[k].pos = order[k] /\ H[k].act = log'[order[k] + 1].act
    BY <1>3 DEF Entry
  <2> QED
    BY <2>1, <2>2, <2>3 DEF IsTheirs, Entries
<1>9. \A k \in DOMAIN batch : batch[k].pos >= 0 =>
        /\ batch[k].pos < Len(log')
        /\ log'[batch[k].pos + 1] = [who |-> "them", act |-> batch[k].act]
  <2> TAKE k \in DOMAIN batch
  <2>1. CASE k \in DOMAIN E /\ batch[k] = E[k]
    BY <1>5, <2>1
  <2>2. CASE k - Len(E) \in DOMAIN H /\ batch[k] = H[k - Len(E)]
    BY <1>8, <2>2
  <2> QED
    BY <1>7, <2>1, <2>2
<1>10. \A i \in Positions : i >= LogPos /\ IsTheirs(i)' /\ Entry(i).act \in Visible
         => \E k \in DOMAIN batch : batch[k].pos = i
  <2> TAKE i \in Positions
  <2> HAVE i >= LogPos /\ IsTheirs(i)' /\ Entry(i).act \in Visible
  <2>1. PICK k \in DOMAIN order : order[k] = i
    BY <1>1
  <2>2. k + Len(E) \in DOMAIN batch /\ batch[k + Len(E)].pos = i
    BY <1>3, <1>7, <2>1
  <2> QED
    BY <2>2
<1> QED
  BY <1>7, <1>9, <1>10 DEF batch

\* ThemReady after a status.  When one status does not hold several of the partner's
\* toggles, ThemReady is the server's view as soon as all of them were read.
LEMMA ReadyAfterStatus ==
  ASSUME TradeInv, OwnStep, NEW S, Answer(S), NEW order \in Orders(S), NEW new \in BOOLEAN,
         ThemReady' = ReadyAfter(order, IF new THEN ready'["them"] ELSE ThemReady),
         mixed' = (mixed \/ \E j, k \in Toggles(order) : j # k)
  PROVE  ThemReady' \in BOOLEAN /\ mixed' \in BOOLEAN /\ ReadyAgrees'
<1> DEFINE T == Toggles(order)
<1> USE LogAssumption DEF LogAssumption
<1>1. /\ order \in Seq(Positions)
      /\ \A k \in DOMAIN order :
           order[k] >= LogPos /\ IsTheirs(order[k])' /\ Entry(order[k]).act \in Visible
      /\ \A i \in Positions : i >= LogPos /\ IsTheirs(i)' /\ Entry(i).act \in Visible
           => \E k \in DOMAIN order : order[k] = i
  BY OrderIs
<1>2. /\ ThemReady \in BOOLEAN /\ ready["them"] \in BOOLEAN /\ ready'["them"] = ready["them"]
      /\ mixed \in BOOLEAN
  BY DEF TradeInv, TypeOK, OwnStep
<1>3. ThemReady' \in BOOLEAN /\ mixed' \in BOOLEAN
  BY <1>2 DEF ReadyAfter
<1>4. T \subseteq DOMAIN order /\ DOMAIN order = 1..Len(order) /\ Len(order) \in Nat
  BY <1>1 DEF Toggles
<1>5. \A i \in Positions : IsToggle(i)' /\ i >= LogPos => \E k \in T : order[k] = i
  BY <1>1 DEF IsToggle, Toggles, Entry, Visible, Acts, IsTheirs
<1>6. LastToggle' /\ \A i \in Positions : IsToggle(i)' <=> IsToggle(i)
  BY OwnStepToggles
<1>7. ASSUME ~mixed', \A i \in Positions : IsToggle(i)' => i < LogPos'
      PROVE  ThemReady' = ready'["them"]
  <2>1. \A j, k \in T : j = k
    BY <1>7
  <2>2. CASE T = {}
    <3>1. \A i \in Positions : IsToggle(i) => i < LogPos
      BY <1>5, <1>6, <2>2 DEF Positions, TradeInv, TypeOK
    <3>2. ThemReady = ready["them"]
      BY <1>7, <3>1 DEF TradeInv, ReadyAgrees, IsToggle, IsTheirs
    <3> QED
      BY <1>2, <2>2, <3>2 DEF ReadyAfter
  <2>3. CASE T # {}
    <3>1. T \in SUBSET (0..Len(order))
      BY <1>4
    <3>2. PICK m \in T : m = Max(T)
      <4> HIDE DEF T
      <4> QED
        BY <1>4, <2>3, <3>1, MaxOfBounded
    <3> DEFINE i == order[m]
    <3>3. i \in Positions /\ IsToggle(i)' /\ i >= LogPos
      <4>1. m \in DOMAIN order /\ Entry(order[m]).act \in {"Ready", "Unready"}
        BY <3>2 DEF Toggles
      <4>2. i \in Positions /\ i >= LogPos /\ IsTheirs(i)'
        <5> HIDE DEF T
        <5> QED
          BY <1>1, <4>1
      <4>3. log'[i + 1].act \in {"Ready", "Unready"}
        BY <4>1 DEF Entry
      <4> HIDE DEF i, T
      <4> QED
        BY <4>2, <4>3 DEF IsToggle
    <3>4. \A j \in Positions : IsToggle(j)' => j <= i
      <4> TAKE j \in Positions
      <4> HAVE IsToggle(j)'
      <4>1. CASE j < LogPos
        BY <3>3, <4>1 DEF Positions, TradeInv, TypeOK
      <4>2. CASE j >= LogPos
        <5>1. PICK k \in T : order[k] = j
          BY <1>5, <4>2
        <5>2. k = m
          BY <2>1, <3>2, <5>1
        <5> QED
          BY <3>3, <5>1, <5>2 DEF Positions
      <4> QED
        BY <4>1, <4>2 DEF Positions, TradeInv, TypeOK
    <3>5. ready'["them"] = (log'[i + 1].act = "Ready")
      BY <1>6, <3>3, <3>4 DEF LastToggle
    <3>6. ThemReady' = (Entry(i).act = "Ready")
      BY <2>3, <3>2 DEF ReadyAfter
    <3> QED
      BY <3>5, <3>6 DEF Entry
  <2> QED
    BY <2>2, <2>3
<1>8. ReadyAgrees'
  BY <1>7 DEF ReadyAgrees, IsToggle, IsTheirs
<1> QED
  BY <1>3, <1>8

\* What a status does to the Trade besides its queue.
LEMMA StatusKeeps ==
  ASSUME TradeInv, OwnStep, NEW S, Answer(S), NEW order \in Orders(S), NEW new \in BOOLEAN,
         OnStatus(S, new, order)
  PROVE  /\ LogPos' \in 0..MaxLog /\ Version' \in 1..MaxLog + 1
         /\ MeReady' \in BOOLEAN /\ ThemReady' \in BOOLEAN /\ mixed' \in BOOLEAN
         /\ InStep' /\ LastToggle' /\ ReadyAgrees'
<1>1. LogPos' \in 0..MaxLog /\ LogPos' <= Len(log')
  BY NextLogPosBound DEF OnStatus
<1>2. Version' \in 1..MaxLog + 1 /\ MeReady' \in BOOLEAN
  BY DEF OnStatus, TradeInv, TypeOK, OwnStep
<1>3. ThemReady' \in BOOLEAN /\ mixed' \in BOOLEAN /\ ReadyAgrees'
  BY ReadyAfterStatus DEF OnStatus
<1>4. InStep'
  BY <1>1 DEF InStep, OwnStep
<1> QED
  BY <1>1, <1>2, <1>3, <1>4, OwnStepToggles

\* An entry before the next LogPos was queued or handed out before the status, or it is one
\* of the status.
LEMMA StatusCovers ==
  ASSUME TradeInv, OwnStep, NEW S, Answer(S), NEW order \in Orders(S),
         NEW i \in Positions, IsTheirs(i)', Entry(i).act \in Visible
  PROVE  \/ i \in seen \/ IsQueued(i)
         \/ \E k \in DOMAIN Batch(order) : Batch(order)[k].pos = i
<1>1. CASE i >= LogPos
  BY <1>1, BatchIs
<1>2. CASE i < LogPos
  <2>1. IsTheirs(i) /\ log[i + 1].act \in Visible
    BY OwnStepToggles DEF Entry
  <2> QED
    BY <1>2, <2>1 DEF TradeInv, NothingSkipped, IsTheirs
<1>3. i \in Int /\ LogPos \in Int
  BY LogAssumption DEF LogAssumption, Positions, TradeInv, TypeOK
<1> QED
  BY <1>1, <1>2, <1>3

\* A status that Poll hands out at once.
LEMMA HandOutStep ==
  ASSUME TradeInv, OwnStep, NEW S, Answer(S), NEW order \in Orders(S), NEW new \in BOOLEAN,
         OnStatus(S, new, order), queuedEvents = <<>>, HandOut(EndEvents \o Handed(order))
  PROVE  TradeInv'
<1> DEFINE batch == Batch(order)
<1>1. TypeOK' /\ InStep' /\ LastToggle' /\ ReadyAgrees'
  <2>1. seen' \subseteq Positions /\ ended' \in BOOLEAN
    BY DEF HandOut, TradeInv, TypeOK
  <2>2. queuedEvents' \in Seq(Queueable)
    BY DEF HandOut
  <2> QED
    BY <2>1, <2>2, StatusKeeps DEF TypeOK, OwnStep
<1>2. QueuedInv'
  BY DEF QueuedInv, HandOut
<1>3. NothingSkipped'
  <2> SUFFICES ASSUME NEW i \in Positions, IsTheirs(i)', log'[i + 1].act \in Visible
               PROVE  i \in seen'
    BY DEF NothingSkipped, IsTheirs
  <2>1. ~ IsQueued(i)
    BY DEF IsQueued
  <2>2. i \in seen \/ \E k \in DOMAIN batch : batch[k].pos = i
    BY <2>1, StatusCovers DEF Entry
  <2> QED
    BY <2>2 DEF HandOut, Batch
<1> QED
  BY <1>1, <1>2, <1>3 DEF TradeInv

\* The queue grows by events of the log.
LEMMA QueueGrows ==
  ASSUME TradeInv, OwnStep, NEW S, Answer(S), NEW order \in Orders(S),
         queuedEvents' = queuedEvents \o (EndEvents \o Handed(order))
  PROVE  /\ queuedEvents' \in Seq(Queueable) /\ QueuedInv'
         /\ \A i \in Positions : IsQueued(i) => IsQueued(i)'
         /\ \A i \in Positions :
              (\E k \in DOMAIN Batch(order) : Batch(order)[k].pos = i) => IsQueued(i)'
<1>1. PICK batch : batch = Batch(order)
  OBVIOUS
<1>2. /\ batch \in Seq(Queueable)
      /\ \A k \in DOMAIN batch : batch[k].pos >= 0 =>
           /\ batch[k].pos < Len(log')
           /\ log'[batch[k].pos + 1] = [who |-> "them", act |-> batch[k].act]
  BY <1>1, BatchIs
<1>3. queuedEvents \in Seq(Queueable) /\ queuedEvents' = queuedEvents \o batch
  BY <1>1 DEF TradeInv, TypeOK, Batch
<1>4. /\ queuedEvents' \in Seq(Queueable)
      /\ \A k \in DOMAIN queuedEvents' :
           \/ k \in DOMAIN queuedEvents /\ queuedEvents'[k] = queuedEvents[k]
           \/ /\ k - Len(queuedEvents) \in DOMAIN batch
              /\ queuedEvents'[k] = batch[k - Len(queuedEvents)]
      /\ \A k \in DOMAIN queuedEvents :
           k \in DOMAIN queuedEvents' /\ queuedEvents'[k] = queuedEvents[k]
      /\ \A k \in DOMAIN batch : /\ k + Len(queuedEvents) \in DOMAIN queuedEvents'
                                /\ queuedEvents'[k + Len(queuedEvents)] = batch[k]
  BY <1>2, <1>3, ConcatElements
<1>5. \A i \in Positions : IsQueued(i) => IsQueued(i)'
  BY <1>4 DEF IsQueued
<1>6. \A i \in Positions : (\E k \in DOMAIN batch : batch[k].pos = i) => IsQueued(i)'
  <2> TAKE i \in Positions
  <2> HAVE \E k \in DOMAIN batch : batch[k].pos = i
  <2>1. PICK k \in DOMAIN batch : batch[k].pos = i
    OBVIOUS
  <2>2. /\ k + Len(queuedEvents) \in DOMAIN queuedEvents'
        /\ queuedEvents'[k + Len(queuedEvents)].pos = i
    BY <1>4, <2>1
  <2> QED
    BY <2>2 DEF IsQueued
<1>7. ASSUME NEW k \in DOMAIN queuedEvents, queuedEvents[k].pos >= 0
      PROVE  /\ queuedEvents[k].pos < Len(log')
             /\ log'[queuedEvents[k].pos + 1] = [who |-> "them", act |-> queuedEvents[k].act]
  <2>1. /\ queuedEvents[k].pos < Len(log)
        /\ log[queuedEvents[k].pos + 1] = [who |-> "them", act |-> queuedEvents[k].act]
    BY <1>7 DEF TradeInv, QueuedInv
  <2>2. queuedEvents[k].pos \in Nat
    <3>1. queuedEvents[k] \in Queueable
      BY <1>3
    <3> QED
      BY <1>7, <3>1, LogAssumption DEF LogAssumption, Queueable, Positions, Ended
  <2>3. Len(log) \in Nat /\ Len(log') \in Nat
    BY DEF TradeInv, TypeOK, OwnStep
  <2>4. queuedEvents[k].pos + 1 \in 1..Len(log)
    BY <2>1, <2>2, <2>3
  <2>5. /\ log'[queuedEvents[k].pos + 1] = log[queuedEvents[k].pos + 1]
        /\ Len(log) <= Len(log')
    BY <2>4 DEF OwnStep
  <2> QED
    BY <2>1, <2>2, <2>3, <2>5
<1>8. QueuedInv'
  <2> SUFFICES ASSUME NEW k \in DOMAIN queuedEvents', queuedEvents'[k].pos >= 0
               PROVE  /\ queuedEvents'[k].pos < Len(log')
                      /\ log'[queuedEvents'[k].pos + 1]
                           = [who |-> "them", act |-> queuedEvents'[k].act]
    BY DEF QueuedInv
  <2>1. CASE k \in DOMAIN queuedEvents /\ queuedEvents'[k] = queuedEvents[k]
    BY <1>7, <2>1
  <2>2. CASE /\ k - Len(queuedEvents) \in DOMAIN batch
             /\ queuedEvents'[k] = batch[k - Len(queuedEvents)]
    BY <1>2, <2>2
  <2> QED
    BY <1>4, <2>1, <2>2
<1> QED
  BY <1>1, <1>4, <1>5, <1>6, <1>8

\* A status of an action, that is queued.
LEMMA QueueStep ==
  ASSUME TradeInv, OwnStep, QueueStatus
  PROVE  TradeInv'
<1>1. PICK S \in {EventsFrom(0), EventsFrom(LogPos)}, new \in {version' # Version, FALSE} :
        \E order \in Orders(S) :
          /\ OnStatus(S, new, order)
          /\ queuedEvents' = queuedEvents \o (EndEvents \o Handed(order))
  BY DEF QueueStatus
<1>2. PICK order \in Orders(S) :
        /\ OnStatus(S, new, order)
        /\ queuedEvents' = queuedEvents \o (EndEvents \o Handed(order))
  BY <1>1
<1>3. Answer(S) /\ new \in BOOLEAN /\ UNCHANGED <<seen, ended>>
  BY DEF Answer, QueueStatus
<1>4. /\ queuedEvents' \in Seq(Queueable) /\ QueuedInv'
      /\ \A i \in Positions : IsQueued(i) => IsQueued(i)'
      /\ \A i \in Positions :
           (\E k \in DOMAIN Batch(order) : Batch(order)[k].pos = i) => IsQueued(i)'
  BY <1>2, <1>3, QueueGrows
<1>5. TypeOK' /\ InStep' /\ LastToggle' /\ ReadyAgrees'
  <2>1. seen' \subseteq Positions /\ ended' \in BOOLEAN
    BY <1>3 DEF TradeInv, TypeOK
  <2> QED
    BY <1>2, <1>3, <1>4, <2>1, StatusKeeps DEF TypeOK, OwnStep
<1>6. NothingSkipped'
  <2> SUFFICES ASSUME NEW i \in Positions, IsTheirs(i)', log'[i + 1].act \in Visible
               PROVE  i \in seen' \/ IsQueued(i)'
    BY DEF NothingSkipped, IsTheirs, IsQueued
  <2> QED
    BY <1>3, <1>4, StatusCovers DEF Entry
<1> QED
  BY <1>4, <1>5, <1>6 DEF TradeInv

-----------------------------------------------------------------------------
(* Steps that are not a status *)

\* The log may grow while the client does nothing: what it has read is still there.
LEMMA ClientIdle ==
  ASSUME TradeInv, UNCHANGED <<stateVars, queuedEvents, seen, ended, mixed>>,
         log' \in Seq(Entries), Len(log') <= MaxLog, Len(log) <= Len(log'),
         \A i \in 1..Len(log) : log'[i] = log[i],
         version' \in 1..MaxLog + 1, version' <= Len(log') + 1,
         ready' \in [{"me", "them"} -> BOOLEAN], status' \in Statuses
  PROVE  TypeOK' /\ InStep' /\ NothingSkipped' /\ QueuedInv'
<1> USE DEF TradeInv, stateVars
<1>1. Len(log) \in Nat /\ Len(log') \in Nat /\ LogPos \in Nat /\ LogPos <= Len(log)
  BY DEF TypeOK, InStep
<1>2. TypeOK' /\ InStep'
  BY <1>1 DEF TypeOK, InStep
<1>3. NothingSkipped'
  <2> SUFFICES ASSUME NEW i \in Positions, i < LogPos, log'[i + 1].who = "them",
                      log'[i + 1].act \in Visible
               PROVE  i \in seen \/ IsQueued(i)
    BY DEF NothingSkipped, IsQueued
  <2>1. i < Len(log) /\ i + 1 \in 1..Len(log)
    BY <1>1, LogAssumption DEF LogAssumption, Positions
  <2> QED
    BY <2>1 DEF NothingSkipped
<1>4. QueuedInv'
  <2> SUFFICES ASSUME NEW k \in DOMAIN queuedEvents, queuedEvents[k].pos >= 0
               PROVE  /\ queuedEvents[k].pos < Len(log')
                      /\ log'[queuedEvents[k].pos + 1]
                           = [who |-> "them", act |-> queuedEvents[k].act]
    BY DEF QueuedInv
  <2>1. /\ queuedEvents[k].pos < Len(log)
        /\ log[queuedEvents[k].pos + 1] = [who |-> "them", act |-> queuedEvents[k].act]
    BY DEF QueuedInv
  <2>2. queuedEvents[k].pos \in Nat
    <3>1. queuedEvents[k] \in Queueable
      BY DEF TypeOK
    <3> QED
      BY <3>1, LogAssumption DEF LogAssumption, Queueable, Positions, Ended
  <2>3. queuedEvents[k].pos + 1 \in 1..Len(log)
    BY <1>1, <2>1, <2>2
  <2>4. log'[queuedEvents[k].pos + 1] = log[queuedEvents[k].pos + 1]
    BY <2>3
  <2> QED
    BY <1>1, <2>1, <2>2, <2>4
<1> QED
  BY <1>2, <1>3, <1>4

\* The client idles while the log keeps the partner's entries: an own action whose response
\* is lost, the end of the trade.
LEMMA OwnStepIdle ==
  ASSUME TradeInv, OwnStep, UNCHANGED <<stateVars, queuedEvents, seen, ended, mixed>>
  PROVE  TradeInv'
<1>1. TypeOK' /\ InStep' /\ NothingSkipped' /\ QueuedInv'
  BY ClientIdle DEF OwnStep
<1>2. ReadyAgrees'
  BY OwnStepToggles DEF TradeInv, ReadyAgrees, IsToggle, IsTheirs, OwnStep, stateVars
<1> QED
  BY <1>1, <1>2, OwnStepToggles DEF TradeInv

\* The partner acts.
LEMMA PartnerStep ==
  ASSUME TradeInv, NEW a \in Acts, PartnerActs(a)
  PROVE  TradeInv'
<1> USE DEF TradeInv, stateVars
<1>0. PICK n : n = Len(log)
  OBVIOUS
<1>1. /\ log \in Seq(Entries) /\ n = Len(log) /\ n \in Nat
      /\ MaxLog \in Nat /\ n < MaxLog /\ LogPos \in Nat /\ LogPos <= n
  BY <1>0, LogAssumption DEF LogAssumption, TypeOK, InStep, PartnerActs, Do
<1>2. /\ log' \in Seq(Entries) /\ Len(log') = n + 1
      /\ log'[n + 1] = [who |-> "them", act |-> a]
      /\ \A i \in 1..n : log'[i] = log[i]
  <2>1. [who |-> "them", act |-> a] \in Entries
    BY DEF Entries
  <2> QED
    BY <1>1, <2>1 DEF PartnerActs, Do
<1>3. /\ version' \in 1..MaxLog + 1 /\ version' <= Len(log') + 1
      /\ ready' \in [{"me", "them"} -> BOOLEAN] /\ status' \in Statuses
  <2>1. version \in Nat /\ version >= 1 /\ version <= n + 1 /\ version' \in {version, version + 1}
    BY <1>1 DEF PartnerActs, Do, TypeOK, InStep
  <2>2. ready' \in [{"me", "them"} -> BOOLEAN] /\ status' \in Statuses
    BY DEF PartnerActs, Do, TypeOK
  <2> QED
    BY <1>1, <1>2, <2>1, <2>2
<1>4. ready'["them"] = IF a = "Ready" THEN TRUE ELSE IF a = "Unready" THEN FALSE
                       ELSE ready["them"]
  BY DEF PartnerActs, Do, TypeOK
<1>5. UNCHANGED <<stateVars, queuedEvents, seen, ended, mixed>>
  BY DEF PartnerActs
<1>6. TypeOK' /\ InStep' /\ NothingSkipped' /\ QueuedInv'
  BY <1>1, <1>2, <1>3, <1>5, ClientIdle
<1>7. \A i \in Positions : i # n => (IsToggle(i)' <=> IsToggle(i)) /\ (IsToggle(i) => i < n)
  <2> TAKE i \in Positions
  <2>1. i \in Nat
    BY <1>1 DEF Positions
  <2>2. CASE i < n
    <3>1. i + 1 \in 1..n
      BY <1>1, <2>1, <2>2
    <3> QED
      BY <1>1, <1>2, <2>1, <2>2, <3>1 DEF IsToggle, IsTheirs
  <2>3. CASE i > n
    BY <1>1, <1>2, <2>1, <2>3 DEF IsToggle, IsTheirs
  <2> QED
    BY <1>1, <2>1, <2>2, <2>3
<1>8. n \in Positions /\ ~IsToggle(n) /\ (IsToggle(n)' <=> a \in {"Ready", "Unready"})
  BY <1>1, <1>2 DEF Positions, IsToggle, IsTheirs
<1>9. CASE a \in {"Ready", "Unready"}
  <2>1. IsToggle(n)' /\ ~(n < LogPos')
    BY <1>1, <1>5, <1>8, <1>9
  <2>2. ReadyAgrees'
    BY <1>8, <2>1 DEF ReadyAgrees, IsToggle, IsTheirs
  <2>3. \A i \in Positions : IsToggle(i)' /\ (\A j \in Positions : IsToggle(j)' => j <= i) => i = n
    BY <1>1, <1>7, <1>8, <2>1 DEF Positions
  <2>4. ready'["them"] = (log'[n + 1].act = "Ready")
    <3>1. log'[n + 1].act = a
      BY <1>2
    <3>2. CASE a = "Ready"
      BY <1>4, <3>1, <3>2
    <3>3. CASE a = "Unready"
      BY <1>4, <3>1, <3>3
    <3> QED
      BY <1>9, <3>2, <3>3
  <2>5. LastToggle'
    BY <2>3, <2>4, Zenon DEF LastToggle
  <2> QED
    BY <1>6, <2>2, <2>5
<1>10. CASE a \notin {"Ready", "Unready"}
  <2>1. \A i \in Positions : (IsToggle(i)' <=> IsToggle(i)) /\ (IsToggle(i) => i < n)
    BY <1>7, <1>8, <1>10
  <2>2. ready'["them"] = ready["them"]
    BY <1>4, <1>10
  <2>3. ReadyAgrees'
    BY <1>5, <2>1, <2>2 DEF ReadyAgrees, IsToggle, IsTheirs
  <2>4. \A i \in Positions : IsToggle(i) => log'[i + 1] = log[i + 1]
    <3> TAKE i \in Positions
    <3> HAVE IsToggle(i)
    <3>1. i + 1 \in 1..n
      BY <1>1, <2>1 DEF Positions
    <3> QED
      BY <1>2, <3>1
  <2>5. LastToggle'
    BY <2>1, <2>2, <2>4 DEF LastToggle
  <2> QED
    BY <1>6, <2>3, <2>5
<1> QED
  BY <1>9, <1>10

\* Poll with events in the queue.
LEMMA PollQueuedStep ==
  ASSUME TradeInv, PollQueued
  PROVE  TradeInv'
<1> USE DEF TradeInv, PollQueued, HandOut, stateVars, serverVars
<1>1. TypeOK' /\ InStep'
  BY DEF TypeOK, InStep
<1>2. NothingSkipped'
  BY DEF NothingSkipped, IsQueued
<1>3. QueuedInv' /\ LastToggle' /\ ReadyAgrees'
  BY DEF QueuedInv, LastToggle, IsToggle, IsTheirs, ReadyAgrees
<1> QED
  BY <1>1, <1>2, <1>3

-----------------------------------------------------------------------------
(* The theorems *)

\* Every step of the client, of the partner and of the server keeps the invariant.
LEMMA TradeStep == TradeInv /\ [Next]_vars => TradeInv'
<1> SUFFICES ASSUME TradeInv, [Next]_vars PROVE TradeInv'
  OBVIOUS
<1>0. status \in Statuses /\ "Cancelled" \in Statuses
  BY DEF TradeInv, TypeOK, Statuses
<1>1. CASE UNCHANGED vars
  BY <1>0, <1>1, LogKept, OwnStepIdle DEF vars, stateVars, serverVars
<1>2. CASE PollQueued
  BY <1>2, PollQueuedStep
<1>3. CASE PollStatus
  <2>1. OwnStep
    BY <1>0, <1>3, LogKept DEF PollStatus, serverVars
  <2>2. PICK order \in Orders(EventsFrom(LogPos)) :
          /\ OnStatus(EventsFrom(LogPos), version # Version, order)
          /\ HandOut(EndEvents \o Handed(order))
    BY <1>3 DEF PollStatus
  <2>3. Answer(EventsFrom(LogPos)) /\ queuedEvents = <<>> /\ (version # Version) \in BOOLEAN
    BY <1>3 DEF Answer, PollStatus
  <2> QED
    BY <2>1, <2>2, <2>3, HandOutStep
<1>4. ASSUME NEW a \in Acts, PartnerActs(a)
      PROVE  TradeInv'
  BY <1>4, PartnerStep
<1>5. ASSUME NEW a \in Acts, Act(a)
      PROVE  TradeInv'
  BY <1>5, DoMe, QueueStep DEF Act
<1>6. ASSUME NEW a \in Acts, ActLost(a)
      PROVE  TradeInv'
  BY <1>6, DoMe, OwnStepIdle DEF ActLost
<1>7. CASE Cancel
  BY <1>0, <1>7, LogKept, QueueStep DEF Cancel
<1>8. CASE ActLate
  BY <1>0, <1>8, LogKept, QueueStep DEF ActLate, serverVars
<1>9. CASE EndTrade
  <2>1. status' \in Statuses
    BY <1>9, OutcomesAssumption DEF OutcomesAssumption, EndTrade
  <2> QED
    BY <1>9, <2>1, LogKept, OwnStepIdle DEF EndTrade
<1> QED
  BY <1>1, <1>2, <1>3, <1>4, <1>5, <1>6, <1>7, <1>8, <1>9 DEF Next, Poll

\* A new Trade satisfies the invariant.
LEMMA TradeInit == Init => TradeInv
<1> SUFFICES ASSUME Init PROVE TradeInv
  OBVIOUS
<1> USE LogAssumption DEF LogAssumption, Init, Positions
<1>1. TypeOK
  <2>1. queuedEvents \in Seq(Queueable) /\ log \in Seq(Entries) /\ Len(log) = 0
    BY EmptySeq
  <2>2. /\ ready \in [{"me", "them"} -> BOOLEAN]
        /\ MeReady \in BOOLEAN /\ ThemReady \in BOOLEAN /\ ended \in BOOLEAN /\ mixed \in BOOLEAN
    OBVIOUS
  <2>3. status \in Statuses
    BY DEF Statuses
  <2> QED
    BY <2>1, <2>2, <2>3 DEF TypeOK
<1>2. Len(log) = 0 /\ DOMAIN queuedEvents = {}
  OBVIOUS
<1>3. \A i \in Positions : ~(i < Len(log))
  BY <1>2
<1>4. InStep /\ NothingSkipped /\ QueuedInv
  BY <1>2, <1>3 DEF InStep, NothingSkipped, QueuedInv
<1>5. LastToggle
  BY <1>3 DEF LastToggle, IsToggle, IsTheirs
<1>6. ReadyAgrees
  BY DEF ReadyAgrees
<1> QED
  BY <1>1, <1>4, <1>5, <1>6 DEF TradeInv

\* The invariant holds of every state of a trade.
LEMMA TradeInvariant == Spec => []TradeInv
BY TradeInit, TradeStep, PTL DEF Spec

\* The state of a Trade keeps its types.  In particular LogPos stays within the log, whatever
\* part of it a status repeats.
THEOREM TradeTypes == Spec => []TypeOK
<1>1. TradeInv => TypeOK
  BY DEF TradeInv
<1> QED
  BY <1>1, TradeInvariant, PTL

\* Nothing that the partner does is skipped, for every length of the log and every mix of
\* polls, responses to actions and lost responses.
THEOREM LogIsRead == Spec => []NothingSkipped
<1>1. TradeInv => NothingSkipped
  BY DEF TradeInv
<1> QED
  BY <1>1, TradeInvariant, PTL

\* What is queued is what the partner did.
THEOREM PartnerOnly == Spec => []OnlyPartner
<1>1. TradeInv => OnlyPartner
  BY DEF TradeInv, QueuedInv, OnlyPartner
<1> QED
  BY <1>1, TradeInvariant, PTL

\* ThemReady agrees with the server once the partner's toggles were read, unless one status
\* held several of them.
THEOREM ReadyIsServers == Spec => []ReadyAgrees
<1>1. TradeInv => ReadyAgrees
  BY DEF TradeInv
<1> QED
  BY <1>1, TradeInvariant, PTL
=============================================================================
