---------------------------- MODULE MCLadder ------------------------------
(***************************************************************************)
(* Model checking of LadderBargaining with the real constants of           *)
(* agent-core (increment 250, ladder 90%..108% and 110%..92%, ten rounds). *)
(* The reference prices are small so that rounding matters: 250 has no     *)
(* first rung, the ladders of 375 never meet and those of 1400 only in the *)
(* tenth round, 8400 and 10000 have three offsets, 9100 is not a multiple  *)
(* of the increment.  At 26000 the rungs are two increments apart, so that *)
(* a buyer can pass what the seller asked before it declined; 29999 is at  *)
(* the end of the price range.                                             *)
(***************************************************************************)
EXTENDS LadderBargaining
=============================================================================
