------------------- MODULE MCPairedForwardEvidence -------------------
(***************************************************************************)
(* A small instance: two symbols, each at a boundary of its own.           *)
(***************************************************************************)
EXTENDS PairedForwardEvidence, TLC

CONSTANTS xau, eur

\* Two consecutive boundaries, the second inside the final bar.
TwoBoundaries == xau :> 1 @@ eur :> 2
=============================================================================
