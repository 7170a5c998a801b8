------------------------------- MODULE MCDeal -------------------------------
(***************************************************************************)
(* Model checking of Deal: every deployment over two deal identifiers,     *)
(* three secret keys (a buyer, a seller and a stranger), two blinding      *)
(* values and prices 0..2, followed by every sequence of circuit calls by  *)
(* every caller.                                                           *)
(***************************************************************************)
EXTENDS Deal
=============================================================================
