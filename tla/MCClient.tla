------------------------------ MODULE MCClient ------------------------------
(***************************************************************************)
(* Instances of Client for TLC: which goroutine of the application calls   *)
(* which methods.                                                          *)
(***************************************************************************)
EXTENDS ClientRefinement, TLC

CONSTANTS main, other, poll

\* main manages the connection, other writes, poll only polls Events().
Manager == (main :> {"Connect", "Disconnect"}) @@ (other :> {"Write"}) @@ (poll :> {})

\* Both goroutines connect and poll, whatever the other one is doing.
Dialing == (main :> {"Connect"}) @@ (poll :> {"Connect"})
Interchangeable == Permutations({main, poll})

\* main connects again while the loops of the previous connection may still run.
Reconnecting == (main :> {"ConnectToWebSocket", "Write"}) @@ (poll :> {})

\* main makes every call, one after the other, over one of the transports.
Sequential == (main :> {"Connect", "Disconnect", "Write"}) @@ (poll :> {})
SequentialWS == (main :> {"ConnectToWebSocket", "Disconnect", "Write"}) @@ (poll :> {})
=============================================================================
