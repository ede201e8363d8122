------------------------------- MODULE Offers --------------------------------
(***************************************************************************)
(* Trade offers (tradeoffer/client.go): Create, Accept, Decline, GetOffer  *)
(* and GetPartnerInventory, called through withRetry by several            *)
(* goroutines.  The web service is external: it carries a request out or   *)
(* not, and its answer may be lost, unreadable or an error.  The partner   *)
(* acts on the offers at any time.  (Cancel is Decline of an own offer;    *)
(* GetOffers is handled like GetOffer, GetOwnInventory like the partner's.)*)
(***************************************************************************)
EXTENDS Integers, FiniteSets

CONSTANTS
  Callers,       \* goroutines; each makes one call
  RetryCounts,   \* the retry counts they pass
  MaxOffers,     \* bound: trade offers; the first is one the partner has sent
  MaxTries       \* bound: withRetry's counter, which stays there

ASSUME OffersAssumption == MaxOffers \in Nat \ {0}
ASSUME CallersAssumption == Callers \cap {"partner", "nobody"} = {}
ASSUME RetryAssumption  ==
  RetryCounts \subseteq Int /\ MaxTries \in Nat /\ \A n \in RetryCounts : n < MaxTries

Offers == 1..MaxOffers
Ops    == {"Create", "Accept", "Decline", "GetOffer", "Inventory"}
None   == 0

\* ok: the status is 200.  body: what was asked for, a strError (Success false for an
\* inventory), no data, or something that does not decode.
Answers == [ok : BOOLEAN, body : {"data", "strError", "empty", "garbage"}, id : Offers \cup {None}]
Answer(ok, body, id) == [ok |-> ok, body |-> body, id |-> id]
NoAnswer == Answer(FALSE, "empty", None)

VARIABLES
  state, maker,            \* the service: the state of every offer, and who sent it
  pages,                   \* the service: how many pages the partner's inventory has
  op, target, retryCount,  \* the call of every caller and its arguments
  pc,                      \* where the call is
  i,                       \* withRetry's counter
  page,                    \* the page of the inventory that is requested
  answer,                  \* the answer to the present request
  did,                     \* history: the present try has made an offer
  lost,                    \* history: tries that made an offer and failed all the same
  res,                     \* res of the closure: an offer, or the pages merged
  err, out                 \* the error and the value returned

callVars == <<op, target, retryCount>>
serviceVars == <<state, maker, pages>>
vars == <<serviceVars, callVars, pc, i, page, answer, did, lost, res, err, out>>

All(v) == [c \in Callers |-> v]

Init ==
  /\ state = [o \in Offers |-> IF o = 1 THEN "active" ELSE "none"]
  /\ maker = [o \in Offers |-> IF o = 1 THEN "partner" ELSE "nobody"]
  /\ pages \in 1..2
  /\ op = All("GetOffer") /\ target = All(1) /\ retryCount = All(1)
  /\ pc = All("idle") /\ i = All(0) /\ page = All(1)
  /\ answer = All(NoAnswer)
  /\ did = All(FALSE) /\ lost = All(0) /\ res = All(None) /\ out = All(None) /\ err = All("nil")

Goto(c, l) == pc' = [pc EXCEPT ![c] = l]
Put(f, c, v) == [f EXCEPT ![c] = v]

-----------------------------------------------------------------------------
(* withRetry *)

\* Variant for mutation: any retry count is taken.
AnyCount(n) == TRUE
ValidCount(n) == n > 0

\* A function ...WithRetry is called; withRetry panics unless the count is positive.
Call(c, o, t, n) ==
  /\ pc[c] = "idle" /\ Goto(c, IF ValidCount(n) THEN "try" ELSE "panicked")
  /\ op' = Put(op, c, o) /\ target' = Put(target, c, t) /\ retryCount' = Put(retryCount, c, n)
  /\ UNCHANGED <<serviceVars, i, page, answer, did, lost, res, err, out>>

\* i++, and f() up to its first request.
Try(c) ==
  /\ pc[c] = "try" /\ Goto(c, "wait")
  /\ i' = Put(i, c, IF i[c] = MaxTries THEN MaxTries ELSE i[c] + 1)
  /\ UNCHANGED <<serviceVars, callVars, page, answer, did, lost, res, err, out>>

\* Variant for mutation: the value is read before withRetry is called.
ReadFirst(c, e, r) == out' = Put(out, c, None) /\ err' = Put(err, c, e) /\ Goto(c, "returned")
\* return res, withRetry(...): Go leaves the order of the two open, the Go compiler reads a
\* variable after the calls.
Return(c, e, r) == out' = Put(out, c, r) /\ err' = Put(err, c, e) /\ Goto(c, "returned")

\* Variant for mutation: no break after a try that succeeds.
KeepTrying(c, e) == e = "steam" \/ i[c] = retryCount[c]
\* No error, a SteamError and the last try end the loop.
LoopEnds(c, e) == e \in {"nil", "steam"} \/ i[c] = retryCount[c]

\* f() returns error e and has set res to r; the next try follows a sleep.
EndTry(c, e, r) ==
  /\ res' = Put(res, c, r) /\ answer' = Put(answer, c, NoAnswer) /\ page' = Put(page, c, 1)
  /\ lost' = Put(lost, c, lost[c] + (IF did[c] /\ e # "nil" THEN 1 ELSE 0))
  /\ did' = Put(did, c, FALSE)
  /\ IF LoopEnds(c, e) THEN Return(c, e, r) ELSE Goto(c, "try") /\ UNCHANGED <<err, out>>

-----------------------------------------------------------------------------
(* The operations *)

\* The error each operation makes of an answer.  Only Decline does without the body, only
\* GetOffer and the inventory without the status.
ErrorOf(o, a) ==
  IF o = "Decline" THEN IF a.ok THEN "nil" ELSE "other"
  ELSE IF o = "Inventory" THEN IF a.body = "data" THEN "nil" ELSE "other"
  ELSE IF a.body = "garbage" THEN "other"
  ELSE IF o = "GetOffer" THEN IF a.body = "data" THEN "nil" ELSE "steam"
  ELSE IF a.body = "strError" THEN "steam"
  ELSE IF ~a.ok THEN "other"
  ELSE IF o = "Create" /\ a.id = None THEN "steam" ELSE "nil"

\* Create, Accept, Decline and GetOffer get an answer.
Receive(c) ==
  /\ pc[c] = "answered" /\ op[c] # "Inventory"
  /\ LET e == ErrorOf(op[c], answer[c])
     IN  EndTry(c, e, IF e = "nil" THEN answer[c].id ELSE None)
  /\ UNCHANGED <<serviceVars, callVars, i>>

\* GetFullInventory gets a page.  The loop's own next hides the one of the loop's header:
\* after a second page latest is nil, and latest.More panics.
ReceivePage(c) ==
  /\ pc[c] = "answered" /\ op[c] = "Inventory"
  /\ LET e == ErrorOf(op[c], answer[c]) IN
     \/ e # "nil" /\ EndTry(c, e, None)
     \/ e = "nil" /\ pages = 1 /\ EndTry(c, "nil", 1)
     \/ /\ e = "nil" /\ pages = 2 /\ page[c] = 1
        /\ page' = Put(page, c, 2) /\ Goto(c, "wait")
        /\ UNCHANGED <<answer, did, lost, res, err, out>>
     \/ /\ e = "nil" /\ page[c] = 2 /\ Goto(c, "panicked")
        /\ UNCHANGED <<page, answer, did, lost, res, err, out>>
  /\ UNCHANGED <<serviceVars, callVars, i>>

\* The request or its answer is lost: http.Client.Do returns an error.
NetError(c) ==
  /\ pc[c] \in {"wait", "answered"} /\ EndTry(c, "other", None)
  /\ UNCHANGED <<serviceVars, callVars, i>>

-----------------------------------------------------------------------------
(* The service and the partner *)

Broken == {Answer(FALSE, "garbage", None), Answer(FALSE, "empty", None)}

\* A request is carried out; the answer may not say so.
CarryOut(c) ==
  /\ pc[c] = "wait" /\ Goto(c, "answered")
  /\ \/ /\ op[c] = "Create"
        /\ \E o \in Offers :
             /\ state[o] = "none" /\ (\A p \in 1..o - 1 : state[p] # "none")
             /\ state' = Put(state, o, "active") /\ maker' = Put(maker, o, c)
             /\ did' = Put(did, c, TRUE)
             /\ \E a \in Broken \cup {Answer(TRUE, "data", o)} : answer' = Put(answer, c, a)
     \/ /\ op[c] \in {"Accept", "Decline"} /\ state[target[c]] = "active"
        /\ state' = Put(state, target[c], IF op[c] = "Accept" THEN "accepted" ELSE "declined")
        /\ \E a \in Broken \cup {Answer(TRUE, "empty", None)} : answer' = Put(answer, c, a)
        /\ UNCHANGED <<maker, did>>
     \/ /\ op[c] \in {"GetOffer", "Inventory"}
        /\ answer' = Put(answer, c, Answer(TRUE, "data", target[c]))
        /\ UNCHANGED <<state, maker, did>>
  /\ UNCHANGED <<pages, callVars, i, page, lost, res, err, out>>

\* A request is not carried out.  Accept and Decline may be answered as if it had been, which
\* is why their comments ask for a GetOffer afterwards; Create may be answered without an id.
Refuse(c) ==
  /\ pc[c] = "wait" /\ Goto(c, "answered")
  /\ \E a \in Broken \cup {Answer(TRUE, "empty", None)}
              \cup {Answer(b, "strError", None) : b \in BOOLEAN} :
       answer' = Put(answer, c, a)
  /\ UNCHANGED <<serviceVars, callVars, i, page, did, lost, res, err, out>>

PartnerActs(o) ==
  /\ state[o] = "active" /\ \E s \in {"accepted", "declined"} :
       /\ s = "accepted" => maker[o] # "partner"
       /\ state' = Put(state, o, s)
  /\ UNCHANGED <<maker, pages, callVars, pc, i, page, answer, did, lost, res, err, out>>

Step(c) == Try(c) \/ Receive(c) \/ ReceivePage(c) \/ NetError(c)

Next ==
  \/ \E c \in Callers :
       \/ \E o \in Ops, t \in Offers, n \in RetryCounts :
            (o \notin {"Accept", "Decline"} => t = 1) /\ Call(c, o, t, n)
       \/ Step(c) \/ CarryOut(c) \/ Refuse(c)
  \/ \E o \in Offers : PartnerActs(o)

\* A goroutine that need not wait for the service goes on.  The http.Client has no timeout
\* (tradeoffer/client.go:29): a request owes neither an answer nor an error.
Spec ==
  /\ Init /\ [][Next]_vars
  /\ \A c \in Callers : WF_vars(Try(c))

-----------------------------------------------------------------------------
(* Properties *)

\* The value returned without an error is that of the try that succeeded: Create returns an
\* offer that exists and that this very call has made, GetOffer the offer asked for, for any
\* answers, losses and tries before, and whatever the other goroutines and the partner do
\* (tradeoffer/client.go:256-263, 358-365, 396-403).  Of Accept and Decline an answer without
\* an error tells nothing, as their comments say.
ResultIsOwn ==
  \A c \in Callers : pc[c] = "returned" /\ err[c] = "nil" =>
    /\ op[c] = "Create"   => out[c] \in Offers /\ maker[out[c]] = c
    /\ op[c] = "GetOffer" => out[c] = target[c]

\* One call makes more than one offer only where an answer was lost or not understood, one
\* for each of them, and it never tries more often than it was told to (client.go:432-453).
OnceUnlessLost ==
  \A c \in Callers :
    /\ Cardinality({o \in Offers : maker[o] = c}) <= lost[c] + 1
    /\ retryCount[c] > 0 => i[c] <= retryCount[c]

\* A call that neither returns nor panics is stuck in a single request: the loop of withRetry
\* ends for every retry count, also for one that is not positive, for which its test for
\* equality would be no bound (client.go:432-453).
StuckInRequestOnly ==
  \A c \in Callers :
    <>[](pc[c] \in {"try", "wait", "answered"}) => <>[](pc[c] \in {"wait", "answered"})
=============================================================================
