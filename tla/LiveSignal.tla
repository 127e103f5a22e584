------------------------------ MODULE LiveSignal ------------------------------
(***************************************************************************)
(* The live path from MT5 bars to an entry: the signal engine for          *)
(* completed candles and the frozen strategy adapter. Bars come sorted and *)
(* without duplicates, which is what the engine makes of them; a result is *)
(* a set that is empty when the code says BLOCKED, WAIT or invalid.        *)
(***************************************************************************)
EXTENDS MarketStructure

CONSTANTS
  Required,         \* REQUIRED_COMPLETED_CANDLES, and the lookback of a backtest
  Spread, Slippage, \* in price units
  RewardRiskRatio

ASSUME LiveAssumption ==
  /\ Required \in Nat \ {0}
  /\ Spread \in Nat /\ Slippage \in Nat /\ RewardRiskRatio \in Nat \ {0}

\* Mutation: the bar that is still forming is taken for completed.
CompletedAndForming(rates, current) == SubSeq(rates, 1, current)

CompletedRates(rates, current) == SubSeq(rates, 1, current - 1)

ArmSignal(gated, c) ==
  {[direction |-> d, stop |-> Stop(c, d)] :
     d \in {x \in {"BULLISH", "BEARISH"} : Detected(gated, c) = x /\ Stop(c, x) > 0}}

\* The signal of the bar before the current one.
Evaluate(gated, rates, current) ==
  LET completed == CompletedRates(rates, current)
      n == Len(completed)
  IN  IF n < Required \/ current \notin DOMAIN rates
      THEN {}
      ELSE ArmSignal(gated, SubSeq(completed, n - Required + 1, n))

EntryPrice(direction, open) ==
  IF direction = "BULLISH" THEN open + Spread + Slippage ELSE open - Spread - Slippage

StopDistance(direction, entry, stop) ==
  IF direction = "BULLISH" THEN entry - stop ELSE stop - entry

Target(direction, entry, distance) ==
  IF direction = "BULLISH" THEN entry + distance * RewardRiskRatio
                           ELSE entry - distance * RewardRiskRatio

\* The entry at the open of the current bar, unless the stop is on its wrong side.
ActivateEntry(signal, open) ==
  LET entry == EntryPrice(signal.direction, open)
      distance == StopDistance(signal.direction, entry, signal.stop)
  IN  IF open <= 0 \/ distance <= 0
      THEN {}
      ELSE {[direction |-> signal.direction, entry |-> entry, stop |-> signal.stop,
             target |-> Target(signal.direction, entry, distance)]}

\* The entry a live session arrives at when the current bar has just opened.
LiveEntry(gated, rates) ==
  UNION {ActivateEntry(s, Newest(rates).open) : s \in Evaluate(gated, rates, Len(rates))}
=============================================================================
