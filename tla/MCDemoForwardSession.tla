----------------------- MODULE MCDemoForwardSession -----------------------
(***************************************************************************)
(* Small instances: two symbols of different asset classes.                *)
(***************************************************************************)
EXTENDS DemoForwardSession, TLC

CONSTANTS gold, euro, metal, forex

ClassOf == gold :> metal @@ euro :> forex
RankOf == gold :> 1 @@ euro :> 2

\* Bars of gold at every instant, of euro at the first two.
BarsOf == gold :> 2 @@ euro :> 1
=============================================================================
