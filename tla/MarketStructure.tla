--------------------------- MODULE MarketStructure ---------------------------
(***************************************************************************)
(* What the detectors of MSS make of a list of candles. A candle has open, *)
(* high, low and close, as integers; its place in the list is its time.    *)
(* Every operator takes the candles a decision can see, the newest last.   *)
(* Which pipeline asks is the parameter "gated": SmartMoneyPipeline, or    *)
(* the candidate that lets only confluent breaks of structure pass.        *)
(***************************************************************************)
EXTENDS Integers, Sequences, FiniteSetsExt

CONSTANTS
  Left, Right,            \* candles a swing needs on either side
  Tolerance,              \* two swings this close are equal (LIQUIDITY_TOLERANCE)
  DisplacementLookback,   \* DISPLACEMENT_LOOKBACK
  DisplacementRatio       \* DISPLACEMENT_RATIO

ASSUME MarketAssumption ==
  /\ Left \in Nat /\ Right \in Nat \ {0}
  /\ Tolerance \in Nat
  /\ DisplacementLookback \in Nat \ {0} /\ DisplacementRatio \in Nat

\* A candle that contradicts itself is skipped before a backtest.
Candle ==
  {k \in [{"open", "high", "low", "close"} -> Nat \ {0}] :
     \A price \in {k.open, k.close} : k.low <= price /\ price <= k.high}

Newest(c) == c[Len(c)]
Close(c) == Newest(c).close

-----------------------------------------------------------------------------
(* Swings. *)

Around(i) == (i - Left .. i + Right) \ {i}

\* Mutation: a candle is compared with everything after it.
IsHighEver(c, i) == \A j \in (i - Left .. Len(c)) \ {i} : c[j].high < c[i].high

IsHigh(c, i) == \A j \in Around(i) : c[j].high < c[i].high

\* A candle that is a swing high is not looked at as a swing low.
IsLow(c, i) == ~IsHigh(c, i) /\ \A j \in Around(i) : c[j].low > c[i].low

Confirmed(c) == Left + 1 .. Len(c) - Right

Highs(c) == {i \in Confirmed(c) : IsHigh(c, i)}
Lows(c) == {i \in Confirmed(c) : IsLow(c, i)}

HasTwo(S) == \E i, j \in S : i # j

\* Mutation: the oldest swing instead of the one before the last.
Oldest(S) == Min(S)

Previous(S) == Max(S \ {Max(S)})

LastHigh(c) == c[Max(Highs(c))].high
LastLow(c) == c[Max(Lows(c))].low
PreviousHigh(c) == c[Previous(Highs(c))].high
PreviousLow(c) == c[Previous(Lows(c))].low

-----------------------------------------------------------------------------
(* Structure, breaks of structure and changes of character. *)

Known(c) == HasTwo(Highs(c)) /\ HasTwo(Lows(c))
Rising(c) == LastHigh(c) > PreviousHigh(c) /\ LastLow(c) > PreviousLow(c)
Falling(c) == LastHigh(c) < PreviousHigh(c) /\ LastLow(c) < PreviousLow(c)

Structure(c) ==
  IF ~Known(c) THEN "UNKNOWN"
  ELSE CASE Rising(c) -> "UPTREND"
         [] Falling(c) -> "DOWNTREND"
         [] OTHER -> "RANGE"

\* The detector, which looks at the swings once more.
Bos(c) ==
  CASE Known(c) /\ Rising(c) /\ Close(c) > LastHigh(c) -> "BULLISH"
    [] Known(c) /\ Falling(c) /\ Close(c) < LastLow(c) -> "BEARISH"
    [] OTHER -> "none"

Choch(structure, bos) ==
  CASE structure = "UPTREND" /\ bos = "BEARISH" -> "BEARISH"
    [] structure = "DOWNTREND" /\ bos = "BULLISH" -> "BULLISH"
    [] OTHER -> "none"

\* The pipeline detects by itself and lets a detector's result take its place.
OwnBos(c) ==
  CASE Structure(c) = "UPTREND" /\ Close(c) > LastHigh(c) -> "BULLISH"
    [] Structure(c) = "DOWNTREND" /\ Close(c) < LastLow(c) -> "BEARISH"
    [] OTHER -> "none"

PipelineBos(c) == IF Bos(c) # "none" THEN Bos(c) ELSE OwnBos(c)

OwnChoch(c) ==
  CASE Structure(c) = "DOWNTREND" /\ Close(c) > PreviousHigh(c) -> "BULLISH"
    [] Structure(c) = "UPTREND" /\ Close(c) < PreviousLow(c) -> "BEARISH"
    [] OTHER -> "none"

PipelineChoch(c) ==
  IF Choch(Structure(c), Bos(c)) # "none" THEN Choch(Structure(c), Bos(c)) ELSE OwnChoch(c)

-----------------------------------------------------------------------------
(* The detectors behind confluence. *)

EqualHighs(c) ==
  /\ HasTwo(Highs(c))
  /\ LastHigh(c) - PreviousHigh(c) \in -Tolerance .. Tolerance

EqualLows(c) ==
  /\ HasTwo(Lows(c))
  /\ LastLow(c) - PreviousLow(c) \in -Tolerance .. Tolerance

SweepHigh(c) == EqualHighs(c) /\ Newest(c).high > LastHigh(c) /\ Close(c) < LastHigh(c)
SweepLow(c) == EqualLows(c) /\ Newest(c).low < LastLow(c) /\ Close(c) > LastLow(c)

Body(candle) ==
  IF candle.close > candle.open THEN candle.close - candle.open ELSE candle.open - candle.close

\* The newest body is at least DisplacementRatio times the average one.
Displaced(c) ==
  LET previous == Len(c) - DisplacementLookback .. Len(c) - 1
      bodies == MapThenSumSet(LAMBDA i : Body(c[i]), previous)
  IN  /\ Len(c) > DisplacementLookback
      /\ bodies > 0
      /\ Body(Newest(c)) * DisplacementLookback >= DisplacementRatio * bodies

BullishDisplacement(c) == Close(c) > Newest(c).open /\ Displaced(c)
BearishDisplacement(c) == Close(c) < Newest(c).open /\ Displaced(c)

\* The last candle against the break, if nothing closed beyond its body since.
Against(c, direction) ==
  {i \in 1 .. Len(c) - 1 : CASE direction = "BULLISH" -> c[i].close < c[i].open
                             [] direction = "BEARISH" -> c[i].close > c[i].open
                             [] OTHER -> FALSE}

Mitigated(c, k, direction) ==
  \E i \in k + 1 .. Len(c) :
    IF direction = "BULLISH" THEN c[i].close <= c[k].close ELSE c[i].close >= c[k].close

ValidOrderBlock(c) ==
  /\ SweepLow(c) \/ SweepHigh(c)
  /\ BullishDisplacement(c) \/ BearishDisplacement(c)
  /\ Against(c, Bos(c)) # {}
  /\ ~Mitigated(c, Max(Against(c, Bos(c))), Bos(c))

Gap(c) ==
  LET n == Len(c)
  IN  CASE n >= 3 /\ c[n - 2].high < c[n].low -> "BULLISH"
        [] n >= 3 /\ c[n - 2].low > c[n].high -> "BEARISH"
        [] OTHER -> "none"

\* The only candle after the middle one is the newest.
Filled(c) ==
  LET n == Len(c)
  IN  \/ Gap(c) = "BULLISH" /\ c[n].close <= c[n - 2].high
      \/ Gap(c) = "BEARISH" /\ c[n].close >= c[n - 2].low

ValidGap(c) ==
  /\ Bos(c) # "none" /\ ValidOrderBlock(c)
  /\ \/ Gap(c) = "BULLISH" /\ BullishDisplacement(c)
     \/ Gap(c) = "BEARISH" /\ BearishDisplacement(c)
  /\ ~Filled(c)

\* Order block and break have one direction by construction.
Confluence(c) ==
  CASE ValidOrderBlock(c) /\ ValidGap(c) /\ Bos(c) = "BULLISH" /\ BullishDisplacement(c)
         /\ Gap(c) = "BULLISH" -> "BULLISH"
    [] ValidOrderBlock(c) /\ ValidGap(c) /\ Bos(c) = "BEARISH" /\ BearishDisplacement(c)
         /\ Gap(c) = "BEARISH" -> "BEARISH"
    [] OTHER -> "none"

-----------------------------------------------------------------------------
(* What a pipeline reports. *)

Detected(gated, c) ==
  IF gated /\ Confluence(c) # PipelineBos(c) THEN "none" ELSE PipelineBos(c)

\* The stop that goes with a break is the last swing on the other side.
Stop(c, direction) == IF direction = "BULLISH" THEN LastLow(c) ELSE LastHigh(c)
=============================================================================
