------------------------------ MODULE ConnLife ------------------------------
(***************************************************************************)
(* What a Client promises about the connections it makes, without its      *)
(* goroutines, locks and channels: a connection is dialed, stored, closed  *)
(* and announced as disconnected, once each and in this order.  One        *)
(* connection is up at a time and one is being closed.  A connection that  *)
(* another Connect overwrites, or that is stored while a Disconnect is on  *)
(* its way to clear c.conn, is lost: nobody closes it and nothing is       *)
(* announced.                                                              *)
(***************************************************************************)
EXTENDS Naturals

CONSTANT Conns

VARIABLES
  phase,      \* phase[g]: how far connection g has come
  open,       \* the connections whose transport is open
  announced   \* announced[g]: DisconnectedEvents emitted for g

vars == <<phase, open, announced>>

Phases == {"none", "dialed", "up", "closing", "down", "lost"}
In(s) == {g \in Conns : phase[g] = s}

Init == /\ phase = [g \in Conns |-> "none"]
        /\ open = {}
        /\ announced = [g \in Conns |-> 0]

Dial(g) ==
  /\ phase[g] = "none"
  /\ phase' = [phase EXCEPT ![g] = "dialed"]
  /\ open' = open \cup {g}
  /\ UNCHANGED announced

Store(g) ==
  /\ phase[g] = "dialed"
  /\ phase' = [h \in Conns |-> IF h = g THEN "up"
                               ELSE IF phase[h] = "up" THEN "lost" ELSE phase[h]]
  /\ UNCHANGED <<open, announced>>

Close(g) ==
  /\ phase[g] = "up" /\ In("closing") = {}
  /\ phase' = [phase EXCEPT ![g] = "closing"]
  /\ open' = open \ {g}
  /\ UNCHANGED announced

Forget(g) ==
  /\ phase[g] = "up" /\ In("closing") # {}
  /\ phase' = [phase EXCEPT ![g] = "lost"]
  /\ UNCHANGED <<open, announced>>

Announce(g) ==
  /\ phase[g] = "closing"
  /\ phase' = [phase EXCEPT ![g] = "down"]
  /\ announced' = [announced EXCEPT ![g] = 1]
  /\ UNCHANGED open

Next == \E g \in Conns : Dial(g) \/ Store(g) \/ Close(g) \/ Forget(g) \/ Announce(g)

Spec == Init /\ [][Next]_vars
=============================================================================
