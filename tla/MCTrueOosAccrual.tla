------------------------- MODULE MCTrueOosAccrual -------------------------
(***************************************************************************)
(* One run at a time. With two members of Runner, runs overlap.            *)
(***************************************************************************)
EXTENDS TrueOosAccrual
=============================================================================
