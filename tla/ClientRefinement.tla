-------------------------- MODULE ClientRefinement --------------------------
(***************************************************************************)
(* Client implements ConnLife, with calls that overlap a Connect, loops    *)
(* that outlive their connection and half-stored interfaces included.      *)
(***************************************************************************)
EXTENDS Client

\* g was dialed and its dialer has not stored it in c.conn yet.
Held(g) == \E p \in Procs : pc[p] \in {"setConn", "setConn2"} /\ lconn[p] = g

PhaseOf(g) == IF discon[g] > 0 THEN "down"
              ELSE IF closing = g THEN "closing"
              ELSE IF conn = g THEN "up"
              ELSE IF Held(g) THEN "dialed"
              ELSE IF g > dialed THEN "none" ELSE "lost"

Life == INSTANCE ConnLife
          WITH phase <- [g \in Conns |-> PhaseOf(g)],
               open <- {g \in Conns : sock[g] = "open"},
               announced <- discon

\* Whatever calls, loops and handlers interleave, the connections of a client go through
\* the steps of ConnLife (client.go:176-228): in particular a connection is closed before
\* its DisconnectedEvent, is announced once, and never comes back.
ImplementsConnLife == Life!Spec
=============================================================================
