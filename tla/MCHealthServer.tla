--------------------------- MODULE MCHealthServer ---------------------------
(***************************************************************************)
(* HealthServer for TLC: two objects, a small ErrLimit.                    *)
(***************************************************************************)
EXTENDS HealthServer
=============================================================================
