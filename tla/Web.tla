--------------------------------- MODULE Web ---------------------------------
(***************************************************************************)
(* The web logon of web.go on top of Session: LogOn starts a goroutine     *)
(* that posts the web login key up to three times; a status of 401 makes   *)
(* it ask the connection for a new nonce, and the answer starts LogOn      *)
(* again.  Several goroutines share webLoginKey and relogOnNonce.          *)
(***************************************************************************)
EXTENDS Session

CONSTANTS
  MaxWebLogOns,  \* bound: calls of Web.LogOn by the application
  MaxExpired     \* bound: responses with status 401

ASSUME WebAssumption == MaxWebLogOns \in Nat /\ MaxExpired \in Nat

\* Goroutines: one per call, and one per expired key.
Gos == 1..MaxWebLogOns + MaxExpired

VARIABLES
  relogOnNonce,   \* w.relogOnNonce = 1
  web,            \* web[i]: where the goroutine of a LogOn is
  webConn,        \* history: the connection of the last LogOn
  calls,          \* counter: calls of LogOn by the application
  told,           \* history: WebLoggedOnEvents and WebLogOnErrorEvents emitted
  expired         \* counter: responses with status 401

webVars == <<relogOnNonce, web, webConn, calls, told, expired>>
vars == <<sessionVars, webVars>>

WebInit ==
  /\ Init
  /\ relogOnNonce = FALSE /\ web = [i \in Gos |-> "off"]
  /\ webConn = Nil /\ calls = 0 /\ told = 0 /\ expired = 0

WebGoto(i, l) == web' = [web EXCEPT ![i] = l]

\* LogOn with the key at hand: go func() { ... }.
Spawn == \E i \in Gos : web[i] = "off" /\ (\A j \in 1..i - 1 : web[j] # "off")
                        /\ WebGoto(i, "post1")

\* The application calls LogOn, after a WebSessionIdEvent as documented; without a nonce in
\* the logon response it panics all the same.
WebLogOn ==
  /\ webTold /\ app = "loggedOn" /\ calls < MaxWebLogOns
  /\ calls' = calls + 1 /\ webConn' = conn
  /\ \/ webLoginKey /\ Spawn /\ UNCHANGED panic
     \/ ~webLoginKey /\ panic' = TRUE /\ UNCHANGED web
  /\ UNCHANGED <<relogOnNonce, told, expired, linkVars, idVars, events, reader, beatVars, app,
                 webTold, countVars, serverVars>>

\* apiLogOn: a network error, a status other than 200 and 401, or an answer that does not
\* decode.  After the third, the error is reported.
PostFails(i) ==
  /\ \/ web[i] = "post1" /\ WebGoto(i, "post2")
     \/ web[i] = "post2" /\ WebGoto(i, "post3")
     \/ web[i] = "post3" /\ WebGoto(i, "fail")
  /\ UNCHANGED <<sessionVars, relogOnNonce, webConn, calls, told, expired>>

ReportError(i) ==
  /\ web[i] = "fail" /\ WebGoto(i, "off")
  /\ Emit(<<"Web">>) /\ told' = told + 1
  /\ UNCHANGED <<linkVars, idVars, reader, beatVars, app, webTold, panic, countVars,
                 serverVars, relogOnNonce, webConn, calls, expired>>

Posting(i) == web[i] \in {"post1", "post2", "post3"}

\* apiLogOn, status 200: the cookies, then WebLoggedOnEvent.
PostSucceeds(i) ==
  /\ Posting(i) /\ WebGoto(i, "off")
  /\ Emit(<<"Web">>) /\ told' = told + 1
  /\ UNCHANGED <<linkVars, idVars, reader, beatVars, app, webTold, panic, countVars,
                 serverVars, relogOnNonce, webConn, calls, expired>>

\* apiLogOn, status 401: relogOnNonce is set, then the nonce is asked for.
PostExpired(i) ==
  /\ Posting(i) /\ expired < MaxExpired /\ expired' = expired + 1
  /\ relogOnNonce' = TRUE /\ WebGoto(i, "ask")
  /\ UNCHANGED <<sessionVars, webConn, calls, told>>

\* The request is ignored when the client is not connected; nil is returned either way.
AskNonce(i) ==
  /\ web[i] = "ask" /\ WebGoto(i, "off")
  /\ Write(Frame("Nonce", Nil))
  /\ UNCHANGED <<conn, tempSessionKey, ciph, idVars, events, reader, beatVars, app, webTold,
                 panic, countVars, serverVars, relogOnNonce, webConn, calls, told, expired>>

\* The server answers a request for a nonce.
ReadNonce ==
  /\ reader = "read" /\ conn # Nil /\ nonces > 0
  /\ nonces' = nonces - 1 /\ reader' = "nonce"
  /\ UNCHANGED <<linkVars, idVars, events, beatVars, app, webTold, panic, countVars, stage,
                 serverKey, serverSession, garbled, foreign, webVars>>

\* Variant for mutation: relogOnNonce is read and not reset.
TestNonce == relogOnNonce /\ UNCHANGED relogOnNonce
\* atomic.CompareAndSwapUint32(&w.relogOnNonce, 1, 0)
SwapNonce == relogOnNonce /\ relogOnNonce' = FALSE

\* handleAuthNonceResponse: the new key, which may be blank; if the nonce was asked for by
\* apiLogOn, LogOn again, in the read loop's goroutine.
HandleNonce ==
  /\ reader = "nonce" /\ reader' = "read"
  /\ webLoginKey' \in BOOLEAN
  /\ \/ ~relogOnNonce /\ UNCHANGED <<relogOnNonce, web, panic>>
     \/ SwapNonce /\ webLoginKey' /\ Spawn /\ UNCHANGED panic
     \/ SwapNonce /\ ~webLoginKey' /\ panic' = TRUE /\ UNCHANGED web
  /\ UNCHANGED <<linkVars, sessionId, steamId, events, beatVars, app, webTold, countVars,
                 serverVars, webConn, calls, told, expired>>

WebStep(i) == PostFails(i) \/ ReportError(i) \/ PostSucceeds(i) \/ PostExpired(i) \/ AskNonce(i)

WebNext ==
  \/ SessionNext /\ UNCHANGED webVars
  \/ ~panic /\ (WebLogOn \/ ReadNonce \/ HandleNonce \/ \E i \in Gos : WebStep(i))

\* As in Session; HTTP requests return, and the server answers a request for a nonce or
\* ends the connection.
WebSpec ==
  /\ WebInit /\ [][WebNext]_vars
  /\ SessionFairness
  /\ WF_vars(~panic /\ (ReadNonce \/ (nonces > 0 /\ ReadError /\ UNCHANGED webVars)))
  /\ WF_vars(~panic /\ HandleNonce)
  /\ \A i \in Gos : SF_vars(~panic /\ WebStep(i))

-----------------------------------------------------------------------------
(* Properties *)

\* Every WebLoggedOnEvent and WebLogOnErrorEvent answers a call of LogOn of its own: a key
\* that expires, the nonce that follows and the retries never make two of one, for several
\* calls at a time (web.go:58-71, 92-96, 141-143).
NoSpuriousWebEvent ==
  LET posting == {i \in Gos : web[i] \notin {"off", "ask"}}
  IN  told + Cardinality(posting) + (IF relogOnNonce THEN 1 ELSE 0) <= calls

=============================================================================
