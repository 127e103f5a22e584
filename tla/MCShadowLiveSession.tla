------------------------ MODULE MCShadowLiveSession ------------------------
(***************************************************************************)
(* Small instances: two symbols of different asset classes.                *)
(***************************************************************************)
EXTENDS ShadowGenerations, TLC

CONSTANTS gold, euro, metal, forex

ClassOf == gold :> metal @@ euro :> forex
RankOf == gold :> 1 @@ euro :> 2
OneBar == gold :> 1 @@ euro :> 1
TwoBars == gold :> 2 @@ euro :> 1
FullList == {{gold, euro}}
AnyList == {{gold}, {euro}, {gold, euro}}
=============================================================================
