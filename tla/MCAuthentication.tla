--------------------------- MODULE MCAuthentication ---------------------------
(* Authentication with model values for the goroutines. *)
EXTENDS Authentication
CONSTANTS c1, c2
=============================================================================
