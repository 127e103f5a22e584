------------------------- MODULE MCHistoricalBacktest -------------------------
(***************************************************************************)
(* Beginnings in a rising and in a falling market, from which breaks,      *)
(* sweeps, gaps and order blocks can follow within a few candles.          *)
(***************************************************************************)
EXTENDS HistoricalBacktest

Up(low, high) == [open |-> low, high |-> high, low |-> low, close |-> high]
Down(low, high) == [open |-> high, high |-> high, low |-> low, close |-> low]

\* Small and large candles at the bottom, in the middle and at the top.
Some == {Down(1, 2), Down(1, 7), Down(4, 6), Up(4, 6), Up(3, 9), Up(8, 9)}

RisingMarket == <<Down(4, 6), Down(3, 5), Up(5, 7), Down(4, 6), Up(6, 8)>>
FallingMarket == <<Up(4, 6), Up(5, 7), Down(3, 5), Up(4, 6), Down(2, 4)>>
OddMarket == <<Up(4, 6), Up(3, 9), Down(1, 7), Up(3, 9), Up(4, 6)>>

Markets == {RisingMarket, FallingMarket, OddMarket}
=============================================================================
