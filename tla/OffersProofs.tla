---------------------------- MODULE OffersProofs -----------------------------
(***************************************************************************)
(* Proofs about the trade offers: whose offer a call that returns no error *)
(* has, and how many offers one call makes, for any number of goroutines,  *)
(* offers and tries.                                                       *)
(***************************************************************************)
EXTENDS Offers, FiniteSetTheorems, TLAPS

PcLabels == {"idle", "try", "wait", "answered", "returned", "panicked"}
Errors   == {"nil", "steam", "other"}

\* The types of the variables.
TypeInv ==
  /\ state \in [Offers -> {"none", "active", "accepted", "declined"}]
  /\ maker \in [Offers -> Callers \cup {"partner", "nobody"}]
  /\ pages \in 1..2
  /\ op \in [Callers -> Ops] /\ target \in [Callers -> Offers] /\ retryCount \in [Callers -> Int]
  /\ pc \in [Callers -> PcLabels]
  /\ i \in [Callers -> 0..MaxTries]
  /\ page \in [Callers -> 1..2]
  /\ answer \in [Callers -> Answers]
  /\ did \in [Callers -> BOOLEAN] /\ lost \in [Callers -> Nat]
  /\ res \in [Callers -> Nat] /\ out \in [Callers -> Nat]
  /\ err \in [Callers -> Errors]

\* An offer that does not exist has no maker: making it takes no offer from anybody.
Unmade == \A o \in Offers : state[o] = "none" => maker[o] = "nobody"

\* The counter of withRetry's loop: a further try begins below the count.
TriesOf(c) ==
  /\ pc[c] = "idle" => i[c] = 0
  /\ pc[c] \in {"try", "wait", "answered"} => retryCount[c] > 0 /\ retryCount[c] < MaxTries
  /\ pc[c] = "try" => i[c] < retryCount[c]
  /\ retryCount[c] > 0 => i[c] <= retryCount[c]

\* An answer Create or GetOffer makes no error of names the caller's offer, or the target.
AnswerOf(c) ==
  pc[c] = "answered" /\ ErrorOf(op[c], answer[c]) = "nil" =>
    /\ op[c] = "Create"   => answer[c].id \in Offers /\ maker[answer[c].id] = c
    /\ op[c] = "GetOffer" => answer[c].id = target[c]

\* ResultIsOwn, of one caller.
ResultOf(c) ==
  pc[c] = "returned" /\ err[c] = "nil" =>
    /\ op[c] = "Create"   => out[c] \in Offers /\ maker[out[c]] = c
    /\ op[c] = "GetOffer" => out[c] = target[c]

\* Each offer of a caller is one that was lost, the one of the present try, or the one
\* that the call has returned.
Made(c) == {o \in Offers : maker[o] = c}
Spent(c) == IF did[c] \/ (pc[c] = "returned" /\ err[c] = "nil") THEN lost[c] + 1 ELSE lost[c]
MadeOf(c) ==
  /\ did[c] => pc[c] = "answered" /\ op[c] = "Create"
  /\ Cardinality(Made(c)) <= Spent(c)

CallerInv(c) == TriesOf(c) /\ AnswerOf(c) /\ ResultOf(c) /\ MadeOf(c)

\* The inductive invariant.
OffersInv == TypeInv /\ Unmade /\ \A c \in Callers : CallerInv(c)

-----------------------------------------------------------------------------

\* The offers of a caller are finitely many: there are MaxOffers offers.
LEMMA MadeFinite ==
  ASSUME NEW c
  PROVE  IsFiniteSet(Made(c)) /\ Cardinality(Made(c)) \in Nat
<1>1. IsFiniteSet(Offers)
  BY OffersAssumption, FS_Interval DEF Offers
<1>2. IsFiniteSet(Made(c))
  BY <1>1, FS_Subset DEF Made
<1> QED
  BY <1>2, FS_CardinalityType

\* An offer is a natural number, and None is one that is no offer.
LEMMA OfferFacts == Offers \subseteq Nat /\ None \in Nat /\ None \notin Offers
  BY OffersAssumption DEF Offers, None

\* A step of caller c leaves the invariant of another caller d alone when the arguments,
\* the counters and the answers of d do not change and its offers stay its own.
LEMMA OthersKept ==
  ASSUME OffersInv, NEW d \in Callers,
         pc'[d] = pc[d], i'[d] = i[d], op'[d] = op[d], target'[d] = target[d],
         retryCount'[d] = retryCount[d], answer'[d] = answer[d], did'[d] = did[d],
         lost'[d] = lost[d], err'[d] = err[d], out'[d] = out[d],
         \A o \in Offers : maker'[o] = d <=> maker[o] = d
  PROVE  CallerInv(d)'
<1>1. CallerInv(d) /\ target[d] \in Offers
  BY DEF OffersInv, TypeInv
<1>2. Made(d)' = Made(d)
  BY DEF Made
<1>3. TriesOf(d)'
  BY <1>1 DEF CallerInv, TriesOf
<1>4. AnswerOf(d)'
  BY <1>1 DEF CallerInv, AnswerOf, ErrorOf
<1>5. ResultOf(d)'
  BY <1>1 DEF CallerInv, ResultOf
<1>6. MadeOf(d)'
  BY <1>1, <1>2 DEF CallerInv, MadeOf, Spent
<1> QED
  BY <1>3, <1>4, <1>5, <1>6 DEF CallerInv

\* The initial state.
LEMMA OffersInit == Init => OffersInv
<1> SUFFICES ASSUME Init PROVE OffersInv
  OBVIOUS
<1>1. 1 \in Offers /\ Offers \subseteq Nat
  BY OffersAssumption DEF Offers
<1>2. TypeInv
  <2>1. NoAnswer \in Answers
    BY DEF NoAnswer, Answer, Answers
  <2> QED
    BY <1>1, <2>1, RetryAssumption DEF Init, TypeInv, All, Ops, PcLabels, Errors, None
<1>3. Unmade
  BY DEF Init, Unmade
<1>4. ASSUME NEW c \in Callers PROVE CallerInv(c)
  <2>1. Made(c) = {}
    BY CallersAssumption DEF Init, Made
  <2>2. Cardinality(Made(c)) = 0
    BY <2>1, FS_EmptySet
  <2>3. pc[c] = "idle" /\ i[c] = 0 /\ retryCount[c] = 1 /\ did[c] = FALSE /\ lost[c] = 0
    BY DEF Init, All
  <2>4. TriesOf(c) /\ AnswerOf(c) /\ ResultOf(c)
    BY <2>3 DEF TriesOf, AnswerOf, ResultOf
  <2>5. MadeOf(c)
    BY <2>2, <2>3 DEF MadeOf, Spent
  <2> QED
    BY <2>4, <2>5 DEF CallerInv
<1> QED
  BY <1>2, <1>3, <1>4 DEF OffersInv

-----------------------------------------------------------------------------
(* The steps of withRetry *)

\* A call begins with a positive count and no tries, or panics.
LEMMA CallStep ==
  ASSUME OffersInv, NEW c \in Callers, NEW o \in Ops, NEW t \in Offers, NEW n \in RetryCounts,
         Call(c, o, t, n)
  PROVE  OffersInv'
<1>1. TypeInv'
  BY RetryAssumption DEF OffersInv, TypeInv, Call, Goto, Put, PcLabels, serviceVars, ValidCount
<1>2. Unmade'
  BY DEF OffersInv, Unmade, Call, serviceVars
<1>3. ASSUME NEW d \in Callers PROVE CallerInv(d)'
  <2>1. CASE d # c
    BY <2>1, OthersKept DEF OffersInv, TypeInv, Call, Goto, Put, serviceVars
  <2>2. CASE d = c
    <3>1. /\ pc[c] = "idle" /\ pc'[c] = (IF n > 0 THEN "try" ELSE "panicked")
          /\ retryCount'[c] = n /\ i' = i /\ did' = did /\ lost' = lost /\ err' = err
          /\ maker' = maker /\ n \in Int /\ n < MaxTries
      BY RetryAssumption DEF OffersInv, TypeInv, Call, Goto, Put, ValidCount, serviceVars
    <3>2. CallerInv(c) /\ lost[c] \in Nat
      BY DEF OffersInv, TypeInv
    <3>3. TriesOf(c)'
      BY <3>1, <3>2 DEF CallerInv, TriesOf
    <3>4. AnswerOf(c)' /\ ResultOf(c)'
      BY <3>1 DEF AnswerOf, ResultOf
    <3>5. Made(c)' = Made(c)
      BY <3>1 DEF Made
    <3>6. MadeOf(c)'
      BY <3>1, <3>2, <3>5 DEF CallerInv, MadeOf, Spent
    <3> QED
      BY <2>2, <3>3, <3>4, <3>6 DEF CallerInv
  <2> QED
    BY <2>1, <2>2
<1> QED
  BY <1>1, <1>2, <1>3 DEF OffersInv

\* A try counts itself; the bound of the counter lies above the count.
LEMMA TryStep ==
  ASSUME OffersInv, NEW c \in Callers, Try(c)
  PROVE  OffersInv'
<1>1. i[c] \in 0..MaxTries /\ CallerInv(c) /\ lost[c] \in Nat /\ retryCount[c] \in Int
  BY DEF OffersInv, TypeInv
<1>2. /\ pc[c] = "try" /\ pc'[c] = "wait" /\ i'[c] = i[c] + 1 /\ i[c] + 1 \in 0..MaxTries
      /\ i[c] + 1 <= retryCount[c] /\ retryCount[c] < MaxTries
  BY <1>1, RetryAssumption DEF Try, Goto, Put, CallerInv, TriesOf, OffersInv, TypeInv
<1>3. TypeInv'
  BY <1>2 DEF OffersInv, TypeInv, Try, Goto, Put, PcLabels, serviceVars, callVars
<1>4. Unmade'
  BY DEF OffersInv, Unmade, Try, serviceVars
<1>5. ASSUME NEW d \in Callers PROVE CallerInv(d)'
  <2>1. CASE d # c
    BY <2>1, OthersKept DEF OffersInv, TypeInv, Try, Goto, Put, serviceVars, callVars
  <2>2. CASE d = c
    <3>1. /\ retryCount' = retryCount /\ did' = did /\ lost' = lost /\ maker' = maker
      BY DEF Try, callVars, serviceVars
    <3>3. TriesOf(c)'
      BY <1>1, <1>2, <3>1 DEF CallerInv, TriesOf
    <3>4. AnswerOf(c)' /\ ResultOf(c)'
      BY <1>2 DEF AnswerOf, ResultOf
    <3>5. Made(c)' = Made(c)
      BY <3>1 DEF Made
    <3>6. MadeOf(c)'
      BY <1>1, <1>2, <3>1, <3>5 DEF CallerInv, MadeOf, Spent
    <3> QED
      BY <2>2, <3>3, <3>4, <3>6 DEF CallerInv
  <2> QED
    BY <2>1, <2>2
<1> QED
  BY <1>3, <1>4, <1>5 DEF OffersInv

\* A try ends with error e and the value r; without an error r is what was asked for.
LEMMA EndTryStep ==
  ASSUME OffersInv, NEW c \in Callers, NEW e \in Errors, NEW r \in Nat,
         pc[c] \in {"wait", "answered"}, EndTry(c, e, r), UNCHANGED <<serviceVars, callVars, i>>,
         e = "nil" => /\ op[c] = "Create"   => r \in Offers /\ maker[r] = c
                      /\ op[c] = "GetOffer" => r = target[c]
  PROVE  OffersInv'
<1>1. TypeInv'
  <2>1. NoAnswer \in Answers
    BY DEF NoAnswer, Answer, Answers
  <2>2. /\ pc' \in [Callers -> PcLabels] /\ err' \in [Callers -> Errors] /\ out' \in [Callers -> Nat]
    BY DEF OffersInv, TypeInv, EndTry, Return, Goto, Put, PcLabels
  <2>3. lost' \in [Callers -> Nat]
    BY DEF OffersInv, TypeInv, EndTry, Put
  <2>4. /\ answer' \in [Callers -> Answers] /\ did' \in [Callers -> BOOLEAN]
        /\ res' \in [Callers -> Nat] /\ page' \in [Callers -> 1..2]
    BY <2>1 DEF OffersInv, TypeInv, EndTry, Put
  <2> QED
    BY <2>2, <2>3, <2>4 DEF OffersInv, TypeInv, serviceVars, callVars
<1>2. Unmade'
  BY DEF OffersInv, Unmade, serviceVars
<1>3. ASSUME NEW d \in Callers PROVE CallerInv(d)'
  <2>1. CASE d # c
    <3>1. pc'[d] = pc[d] /\ err'[d] = err[d] /\ out'[d] = out[d]
      BY <2>1 DEF OffersInv, TypeInv, EndTry, Return, Goto, Put
    <3>2. answer'[d] = answer[d] /\ did'[d] = did[d] /\ lost'[d] = lost[d]
      BY <2>1 DEF OffersInv, TypeInv, EndTry, Put
    <3> QED
      BY <3>1, <3>2, OthersKept DEF serviceVars, callVars
  <2>2. CASE d = c
    <3>1. /\ maker' = maker /\ state' = state /\ pages' = pages /\ op' = op /\ i' = i
          /\ target' = target /\ retryCount' = retryCount
      BY DEF serviceVars, callVars
    <3>2. /\ CallerInv(c) /\ lost[c] \in Nat /\ did[c] \in BOOLEAN /\ i[c] \in Int
          /\ retryCount[c] \in Int
      BY DEF OffersInv, TypeInv
    <3>3. /\ did'[c] = FALSE
          /\ lost'[c] = IF did[c] /\ e # "nil" THEN lost[c] + 1 ELSE lost[c]
      BY <3>2 DEF OffersInv, TypeInv, EndTry, Put
    <3>4. Made(c)' = Made(c) /\ Cardinality(Made(c)) \in Nat
      <4>1. Made(c)' = Made(c)
        BY <3>1 DEF Made
      <4>2. Cardinality(Made(c)) \in Nat
        BY MadeFinite
      <4> QED
        BY <4>1, <4>2
    <3>5. CASE LoopEnds(c, e)
      <4>1. pc'[c] = "returned" /\ err'[c] = e /\ out'[c] = r
        BY <3>5 DEF OffersInv, TypeInv, EndTry, Return, Goto, Put
      <4>2. TriesOf(c)' /\ AnswerOf(c)'
        BY <4>1, <3>1, <3>2 DEF CallerInv, TriesOf, AnswerOf
      <4>3. ResultOf(c)'
        BY <4>1, <3>1 DEF ResultOf
      <4>4. MadeOf(c)'
        BY <4>1, <3>2, <3>3, <3>4 DEF CallerInv, MadeOf, Spent
      <4> QED
        BY <2>2, <4>2, <4>3, <4>4 DEF CallerInv
    <3>6. CASE ~LoopEnds(c, e)
      <4>1. pc'[c] = "try"
        BY <3>6 DEF OffersInv, TypeInv, EndTry, Goto
      <4>2. e # "nil" /\ i[c] # retryCount[c]
        BY <3>6 DEF LoopEnds
      <4>3. TriesOf(c)'
        BY <4>1, <4>2, <3>1, <3>2 DEF CallerInv, TriesOf
      <4>4. AnswerOf(c)' /\ ResultOf(c)'
        BY <4>1 DEF AnswerOf, ResultOf
      <4>5. MadeOf(c)'
        BY <4>1, <4>2, <3>2, <3>3, <3>4 DEF CallerInv, MadeOf, Spent
      <4> QED
        BY <2>2, <4>3, <4>4, <4>5 DEF CallerInv
    <3> QED
      BY <3>5, <3>6
  <2> QED
    BY <2>1, <2>2
<1> QED
  BY <1>1, <1>2, <1>3 DEF OffersInv

-----------------------------------------------------------------------------
(* The operations, the service and the partner *)

\* Create, Accept, Decline and GetOffer end their try with what the answer says.
LEMMA ReceiveStep ==
  ASSUME OffersInv, NEW c \in Callers, Receive(c)
  PROVE  OffersInv'
<1> DEFINE e == ErrorOf(op[c], answer[c])
           r == IF e = "nil" THEN answer[c].id ELSE None
<1>1. answer[c] \in Answers /\ CallerInv(c) /\ pc[c] = "answered" /\ op[c] # "Inventory"
  BY DEF OffersInv, TypeInv, Receive
<1>2. e \in Errors
  BY <1>1 DEF ErrorOf, Errors
<1>3. r \in Nat
  BY <1>1, OfferFacts DEF Answers
<1>4. e = "nil" => /\ op[c] = "Create"   => r \in Offers /\ maker[r] = c
                   /\ op[c] = "GetOffer" => r = target[c]
  BY <1>1 DEF CallerInv, AnswerOf
<1>5. EndTry(c, e, r) /\ UNCHANGED <<serviceVars, callVars, i>>
  BY DEF Receive
<1> HIDE DEF e, r
<1> QED
  BY <1>1, <1>2, <1>3, <1>4, <1>5, EndTryStep

\* GetFullInventory ends its try with an error or the only page, asks for the second one
\* or panics.
LEMMA ReceivePageStep ==
  ASSUME OffersInv, NEW c \in Callers, ReceivePage(c)
  PROVE  OffersInv'
<1> DEFINE e == ErrorOf(op[c], answer[c])
<1>1. /\ answer[c] \in Answers /\ pc[c] = "answered" /\ op[c] = "Inventory"
      /\ UNCHANGED <<serviceVars, callVars, i>> /\ CallerInv(c)
  BY DEF OffersInv, TypeInv, ReceivePage
<1>2. e \in Errors
  BY <1>1 DEF ErrorOf, Errors
<1>3. CASE e # "nil" /\ EndTry(c, e, None)
  BY <1>1, <1>2, <1>3, EndTryStep, OfferFacts
<1>4. CASE e = "nil" /\ pages = 1 /\ EndTry(c, "nil", 1)
  <2>1. "nil" \in Errors /\ 1 \in Nat
    BY DEF Errors
  <2> QED
    BY <1>1, <1>4, <2>1, EndTryStep
<1>5. CASE \/ Goto(c, "wait") /\ page' = Put(page, c, 2)
           \/ Goto(c, "panicked") /\ page' = page
  <2> SUFFICES ASSUME UNCHANGED <<answer, did, lost, res, err, out>> PROVE OffersInv'
    BY <1>3, <1>4 DEF ReceivePage
  <2>1. TypeInv'
    BY <1>1, <1>5 DEF OffersInv, TypeInv, Goto, Put, PcLabels, serviceVars, callVars
  <2>2. Unmade'
    BY <1>1 DEF OffersInv, Unmade, serviceVars
  <2>3. ASSUME NEW d \in Callers PROVE CallerInv(d)'
    <3>1. CASE d # c
      BY <1>1, <1>5, <3>1, OthersKept DEF OffersInv, TypeInv, Goto, serviceVars, callVars
    <3>2. CASE d = c
      <4>1. pc'[c] \in {"wait", "panicked"}
        BY <1>5 DEF OffersInv, TypeInv, Goto
      <4>2. /\ maker' = maker /\ i' = i /\ retryCount' = retryCount /\ did' = did /\ lost' = lost
        BY <1>1 DEF serviceVars, callVars
      <4>3. Made(c)' = Made(c)
        BY <4>2 DEF Made
      <4>4. TriesOf(c)'
        BY <1>1, <4>1, <4>2 DEF CallerInv, TriesOf
      <4>5. AnswerOf(c)' /\ ResultOf(c)'
        BY <4>1 DEF AnswerOf, ResultOf
      <4>6. MadeOf(c)'
        BY <1>1, <4>1, <4>2, <4>3 DEF CallerInv, MadeOf, Spent
      <4> QED
        BY <3>2, <4>4, <4>5, <4>6 DEF CallerInv
    <3> QED
      BY <3>1, <3>2
  <2> QED
    BY <2>1, <2>2, <2>3 DEF OffersInv
<1> QED
  BY <1>3, <1>4, <1>5 DEF ReceivePage

\* A lost request or answer ends the try with an error.
LEMMA NetErrorStep ==
  ASSUME OffersInv, NEW c \in Callers, NetError(c)
  PROVE  OffersInv'
<1>1. "other" \in Errors /\ None \in Nat
  BY OfferFacts DEF Errors
<1> QED
  BY <1>1, EndTryStep DEF NetError

\* A caller whose request is answered without an offer being made: the answer promises no
\* more than it may.
LEMMA AnsweredKeeps ==
  ASSUME OffersInv, NEW c \in Callers, pc[c] = "wait", Goto(c, "answered"),
         NEW a \in Answers, answer' = Put(answer, c, a), ~did[c],
         UNCHANGED <<maker, did, pages, callVars, i, lost>>,
         ErrorOf(op[c], a) = "nil" =>
            op[c] # "Create" /\ (op[c] = "GetOffer" => a.id = target[c])
  PROVE  CallerInv(c)'
<1>1. CallerInv(c) /\ pc'[c] = "answered" /\ answer'[c] = a
  BY DEF OffersInv, TypeInv, Goto, Put
<1>2. op' = op /\ target' = target /\ retryCount' = retryCount
  BY DEF callVars
<1>3. Made(c)' = Made(c)
  BY DEF Made
<1>4. TriesOf(c)'
  BY <1>1, <1>2 DEF CallerInv, TriesOf
<1>5. AnswerOf(c)'
  BY <1>1, <1>2 DEF AnswerOf
<1>6. ResultOf(c)'
  BY <1>1 DEF ResultOf
<1>7. MadeOf(c)'
  BY <1>1, <1>3 DEF CallerInv, MadeOf, Spent
<1> QED
  BY <1>4, <1>5, <1>6, <1>7 DEF CallerInv

\* The answers the service can give.
LEMMA AnswerTypes ==
  /\ Broken \subseteq Answers
  /\ \A b \in BOOLEAN : Answer(b, "strError", None) \in Answers
  /\ Answer(TRUE, "empty", None) \in Answers
  /\ \A o \in Offers : Answer(TRUE, "data", o) \in Answers
<1>1. \A b \in BOOLEAN, y \in {"data", "strError", "empty", "garbage"}, o \in Offers \cup {None} :
        Answer(b, y, o) \in Answers
  BY DEF Answer, Answers
<1> QED
  BY <1>1 DEF Broken

\* An answer that is broken or empty, or a strError, is an error of Create and GetOffer.
LEMMA ErrorFacts ==
  \A o \in {"Create", "GetOffer"} :
    /\ \A a \in Broken : ErrorOf(o, a) # "nil"
    /\ \A b \in BOOLEAN : ErrorOf(o, Answer(b, "strError", None)) # "nil"
    /\ ErrorOf(o, Answer(TRUE, "empty", None)) # "nil"
  BY DEF Broken, ErrorOf, Answer

\* A request that is refused is answered with an error, or promises nothing.
LEMMA RefuseStep ==
  ASSUME OffersInv, NEW c \in Callers, Refuse(c)
  PROVE  OffersInv'
<1>1. PICK a \in Broken \cup {Answer(TRUE, "empty", None)}
                 \cup {Answer(b, "strError", None) : b \in BOOLEAN} :
        answer' = Put(answer, c, a)
  BY DEF Refuse
<1>2. a \in Answers
  BY AnswerTypes
<1>3. /\ pc[c] = "wait" /\ Goto(c, "answered") /\ op[c] \in Ops /\ CallerInv(c)
      /\ UNCHANGED <<serviceVars, callVars, i, page, did, lost, res, err, out>>
  BY DEF Refuse, OffersInv, TypeInv
<1>4. op[c] \in {"Create", "GetOffer"} => ErrorOf(op[c], a) # "nil"
  BY ErrorFacts
<1>5. TypeInv'
  <2>1. answer' \in [Callers -> Answers]
    BY <1>1, <1>2 DEF Put, OffersInv, TypeInv
  <2>2. pc' \in [Callers -> PcLabels]
    BY <1>3 DEF Goto, OffersInv, TypeInv, PcLabels
  <2> QED
    BY <1>3, <2>1, <2>2 DEF OffersInv, TypeInv, serviceVars, callVars
<1>6. Unmade'
  BY <1>3 DEF OffersInv, Unmade, serviceVars
<1>7. ASSUME NEW d \in Callers PROVE CallerInv(d)'
  <2>1. CASE d # c
    <3>1. pc'[d] = pc[d] /\ answer'[d] = answer[d]
      BY <1>1, <1>3, <2>1 DEF OffersInv, TypeInv, Goto, Put
    <3> QED
      BY <1>3, <3>1, OthersKept DEF serviceVars, callVars
  <2>2. CASE d = c
    <3>1. ~did[c]
      BY <1>3 DEF CallerInv, MadeOf
    <3>2. ErrorOf(op[c], a) = "nil" =>
            op[c] # "Create" /\ (op[c] = "GetOffer" => a.id = target[c])
      BY <1>4
    <3>3. UNCHANGED <<maker, did, pages, callVars, i, lost>>
      BY <1>3 DEF serviceVars
    <3> QED
      BY <1>1, <1>2, <1>3, <2>2, <3>1, <3>2, <3>3, AnsweredKeeps
  <2> QED
    BY <2>1, <2>2
<1> QED
  BY <1>5, <1>6, <1>7 DEF OffersInv

\* A request is carried out: a new offer belongs to the caller, and to nobody before; an
\* accepted one was active; the answer may be broken.
LEMMA CarryOutStep ==
  ASSUME OffersInv, NEW c \in Callers, CarryOut(c)
  PROVE  OffersInv'
<1>1. /\ pc[c] = "wait" /\ Goto(c, "answered") /\ CallerInv(c) /\ ~did[c]
      /\ UNCHANGED <<pages, callVars, i, page, lost, res, err, out>>
      /\ op[c] \in Ops /\ target[c] \in Offers /\ lost[c] \in Nat
  BY DEF CarryOut, OffersInv, TypeInv, CallerInv, MadeOf
<1>2. pc' \in [Callers -> PcLabels] /\ \A d \in Callers : d # c => pc'[d] = pc[d]
  BY <1>1 DEF Goto, OffersInv, TypeInv, PcLabels
<1>3. CASE op[c] = "Create"
  <2>1. PICK o \in Offers :
          /\ state[o] = "none"
          /\ state' = Put(state, o, "active") /\ maker' = Put(maker, o, c)
          /\ did' = Put(did, c, TRUE)
          /\ \E a \in Broken \cup {Answer(TRUE, "data", o)} : answer' = Put(answer, c, a)
    BY <1>3 DEF CarryOut
  <2>2. PICK a \in Broken \cup {Answer(TRUE, "data", o)} : answer' = Put(answer, c, a)
    BY <2>1
  <2>3. a \in Answers
    BY AnswerTypes
  <2>4. TypeInv'
    <3>1. answer' \in [Callers -> Answers]
      BY <2>2, <2>3 DEF Put, OffersInv, TypeInv
    <3>2. state' \in [Offers -> {"none", "active", "accepted", "declined"}]
      BY <2>1 DEF Put, OffersInv, TypeInv
    <3>3. /\ maker' \in [Offers -> Callers \cup {"partner", "nobody"}]
          /\ did' \in [Callers -> BOOLEAN]
      BY <2>1 DEF Put, OffersInv, TypeInv
    <3> QED
      BY <1>1, <1>2, <3>1, <3>2, <3>3 DEF OffersInv, TypeInv, callVars
  <2>5. \A p \in Offers : /\ p # o => maker'[p] = maker[p] /\ state'[p] = state[p]
                          /\ p = o => maker'[p] = c /\ state'[p] = "active"
    BY <2>1 DEF Put, OffersInv, TypeInv
  <2>6. Unmade'
    BY <2>5 DEF OffersInv, Unmade
  <2>7. maker[o] = "nobody"
    BY <2>1 DEF OffersInv, Unmade
  <2>8. ASSUME NEW d \in Callers PROVE CallerInv(d)'
    <3>1. CASE d # c
      <4>1. answer'[d] = answer[d] /\ did'[d] = did[d]
        BY <2>1, <2>2, <3>1 DEF Put, OffersInv, TypeInv
      <4>2. \A p \in Offers : maker'[p] = d <=> maker[p] = d
        BY <2>5, <2>7, <3>1, CallersAssumption
      <4> QED
        BY <1>1, <1>2, <3>1, <4>1, <4>2, OthersKept DEF callVars
    <3>2. CASE d = c
      <4>1. pc'[c] = "answered" /\ answer'[c] = a /\ did'[c] = TRUE
        BY <1>1, <2>1, <2>2 DEF Goto, Put, OffersInv, TypeInv
      <4>2. op' = op /\ target' = target /\ retryCount' = retryCount
        BY <1>1 DEF callVars
      <4>3. TriesOf(c)'
        BY <1>1, <4>1, <4>2 DEF CallerInv, TriesOf
      <4>4. AnswerOf(c)'
        <5>1. ErrorOf("Create", a) = "nil" => a = Answer(TRUE, "data", o)
          BY ErrorFacts
        <5>2. a = Answer(TRUE, "data", o) => a.id = o
          BY DEF Answer
        <5> QED
          BY <1>3, <2>5, <4>1, <4>2, <5>1, <5>2 DEF AnswerOf
      <4>5. ResultOf(c)'
        BY <4>1 DEF ResultOf
      <4>6. MadeOf(c)'
        <5>1. Made(c)' = Made(c) \cup {o}
          BY <2>5 DEF Made
        <5>2. o \notin Made(c)
          BY <2>7, CallersAssumption DEF Made
        <5>3. Cardinality(Made(c) \cup {o}) = Cardinality(Made(c)) + 1
          BY <5>2, MadeFinite, FS_AddElement
        <5>4. Cardinality(Made(c)) \in Nat /\ Cardinality(Made(c)) <= lost[c]
          BY <1>1, MadeFinite DEF CallerInv, MadeOf, Spent
        <5>5. Cardinality(Made(c))' <= lost[c] + 1
          BY <5>1, <5>3, <5>4, <1>1
        <5> QED
          BY <1>1, <1>3, <4>1, <4>2, <5>5 DEF MadeOf, Spent
      <4> QED
        BY <3>2, <4>3, <4>4, <4>5, <4>6 DEF CallerInv
    <3> QED
      BY <3>1, <3>2
  <2> QED
    BY <2>4, <2>6, <2>8 DEF OffersInv
<1>4. CASE op[c] # "Create"
  <2>1. PICK a \in Answers :
          answer' = Put(answer, c, a) /\ (op[c] = "GetOffer" => a.id = target[c])
    <3>1. Answer(TRUE, "data", target[c]).id = target[c]
      BY DEF Answer
    <3> QED
      BY <1>1, <1>4, <3>1, AnswerTypes DEF CarryOut
  <2>2. maker' = maker /\ did' = did
    BY <1>4 DEF CarryOut
  <2>3. \/ state' = state /\ op[c] \in {"GetOffer", "Inventory"}
        \/ /\ state[target[c]] = "active" /\ op[c] \in {"Accept", "Decline"}
           /\ state' = Put(state, target[c], IF op[c] = "Accept" THEN "accepted" ELSE "declined")
    BY <1>4 DEF CarryOut
  <2>4. TypeInv'
    <3>1. answer' \in [Callers -> Answers]
      BY <2>1 DEF Put, OffersInv, TypeInv
    <3>2. state' \in [Offers -> {"none", "active", "accepted", "declined"}]
      BY <2>3 DEF Put, OffersInv, TypeInv
    <3> QED
      BY <1>1, <1>2, <2>2, <3>1, <3>2 DEF OffersInv, TypeInv, callVars
  <2>5. \A p \in Offers : state'[p] = "none" => state[p] = "none"
    BY <1>1, <2>3 DEF Put, OffersInv, TypeInv
  <2>6. Unmade'
    BY <2>2, <2>5 DEF OffersInv, Unmade
  <2>7. ASSUME NEW d \in Callers PROVE CallerInv(d)'
    <3>1. CASE d # c
      <4>1. answer'[d] = answer[d]
        BY <2>1, <3>1 DEF Put, OffersInv, TypeInv
      <4> QED
        BY <1>1, <1>2, <2>2, <2>5, <3>1, <4>1, OthersKept DEF callVars
    <3>2. CASE d = c
      BY <1>1, <1>4, <2>1, <2>2, <2>5, <3>2, AnsweredKeeps
    <3> QED
      BY <3>1, <3>2
  <2> QED
    BY <2>4, <2>6, <2>7 DEF OffersInv
<1> QED
  BY <1>3, <1>4

\* The partner acts on active offers only.
LEMMA PartnerStep ==
  ASSUME OffersInv, NEW o \in Offers, PartnerActs(o)
  PROVE  OffersInv'
<1>1. PICK s \in {"accepted", "declined"} : state' = Put(state, o, s)
  BY DEF PartnerActs
<1>2. /\ UNCHANGED <<maker, pages, callVars, pc, i, page, answer, did, lost, res, err, out>>
      /\ state[o] = "active"
  BY DEF PartnerActs
<1>3. TypeInv'
  <2>1. state' \in [Offers -> {"none", "active", "accepted", "declined"}]
    BY <1>1 DEF Put, OffersInv, TypeInv
  <2> QED
    BY <1>2, <2>1 DEF OffersInv, TypeInv, callVars
<1>4. \A p \in Offers : state'[p] = "none" => state[p] = "none"
  BY <1>1, <1>2 DEF Put, OffersInv, TypeInv
<1>5. Unmade'
  BY <1>2, <1>4 DEF OffersInv, Unmade
<1>6. ASSUME NEW d \in Callers PROVE CallerInv(d)'
  BY <1>2, OthersKept DEF callVars
<1> QED
  BY <1>3, <1>5, <1>6 DEF OffersInv

-----------------------------------------------------------------------------
(* The theorems *)

\* Every step keeps the inductive invariant.
LEMMA OffersNext == OffersInv /\ [Next]_vars => OffersInv'
<1> SUFFICES ASSUME OffersInv, [Next]_vars PROVE OffersInv'
  OBVIOUS
<1>1. CASE UNCHANGED vars
  <2>1. TypeInv' /\ Unmade'
    BY <1>1 DEF vars, serviceVars, callVars, OffersInv, TypeInv, Unmade
  <2>2. ASSUME NEW d \in Callers PROVE CallerInv(d)'
    BY <1>1, OthersKept DEF vars, serviceVars, callVars
  <2> QED
    BY <2>1, <2>2 DEF OffersInv
<1>2. ASSUME NEW c \in Callers, NEW o \in Ops, NEW t \in Offers, NEW n \in RetryCounts,
             Call(c, o, t, n)
      PROVE  OffersInv'
  BY <1>2, CallStep
<1>3. ASSUME NEW c \in Callers, Step(c) \/ CarryOut(c) \/ Refuse(c) PROVE OffersInv'
  BY <1>3, TryStep, ReceiveStep, ReceivePageStep, NetErrorStep, CarryOutStep, RefuseStep DEF Step
<1>4. ASSUME NEW o \in Offers, PartnerActs(o) PROVE OffersInv'
  BY <1>4, PartnerStep
<1> QED
  BY <1>1, <1>2, <1>3, <1>4 DEF Next

\* OffersInv is an invariant of the trade offers.
THEOREM OffersInvariant == Spec => []OffersInv
  BY OffersInit, OffersNext, PTL DEF Spec

\* What a call returns without an error is its own: Create an offer this very call has made,
\* GetOffer the one asked for, for any number of callers, offers and tries, and any answers,
\* losses and acts of the partner (tradeoffer/client.go:256-263, 358-365, 396-403).
THEOREM ResultsAreOwn == Spec => []ResultIsOwn
<1>1. OffersInv => ResultIsOwn
  BY DEF OffersInv, CallerInv, ResultOf, ResultIsOwn
<1> QED
  BY <1>1, OffersInvariant, PTL

\* A call makes at most one offer more than it lost answers to its requests, and tries no
\* more often than it was told to (client.go:432-453).
THEOREM OneOfferPerAnswer == Spec => []OnceUnlessLost
<1>1. OffersInv => OnceUnlessLost
  <2> SUFFICES ASSUME OffersInv, NEW c \in Callers
               PROVE  /\ Cardinality(Made(c)) <= lost[c] + 1
                      /\ retryCount[c] > 0 => i[c] <= retryCount[c]
    BY DEF OnceUnlessLost, Made
  <2>1. CallerInv(c) /\ lost[c] \in Nat /\ Cardinality(Made(c)) \in Nat
    BY MadeFinite DEF OffersInv, TypeInv
  <2> QED
    BY <2>1 DEF CallerInv, TriesOf, MadeOf, Spent
<1> QED
  BY <1>1, OffersInvariant, PTL
=============================================================================
