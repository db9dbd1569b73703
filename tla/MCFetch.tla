------------------------------- MODULE MCFetch -------------------------------
(* The instance of Fetch for TLC. *)
EXTENDS Fetch, TLC

CONSTANTS good, bad, aux
=============================================================================
