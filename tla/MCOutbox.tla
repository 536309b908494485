------------------------------ MODULE MCOutbox ------------------------------
(***************************************************************************)
(* Module Outbox for TLC: two relays, each under a name of its own.        *)
(***************************************************************************)
EXTENDS Outbox, TLC

CONSTANTS r1, r2, n1, n2

OwnOwner == (r1 :> n1) @@ (r2 :> n2)
=============================================================================
