---------------------------- MODULE MCBargaining ------------------------------
(***************************************************************************)
(* Model checking of Bargaining.                                           *)
(***************************************************************************)
EXTENDS Bargaining
=============================================================================
