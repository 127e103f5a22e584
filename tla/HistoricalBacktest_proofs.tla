----------------------- MODULE HistoricalBacktest_proofs -----------------------
(***************************************************************************)
(* Theorems about detectors, backtest and live path, for all candles,      *)
(* windows, costs and numbers of neighbours.                               *)
(*                                                                         *)
(* What holds of the detectors for every list of candles comes first: the  *)
(* detectors that look at the same swings agree, a swing depends on its    *)
(* neighbours only, and the newest swings are those of any window that     *)
(* holds two.                                                              *)
(***************************************************************************)
EXTENDS HistoricalBacktest, SequenceTheorems, FiniteSetTheorems, WellFoundedInduction, TLAPS

-----------------------------------------------------------------------------
(* The greatest elements of a set of places. *)

\* A nonempty set of places has a greatest element.
LEMMA MaxFacts ==
  ASSUME NEW n \in Nat, NEW S \in SUBSET (1 .. n), S # {}
  PROVE  Max(S) \in S /\ \A y \in S : y <= Max(S)
<1> DEFINE T == {t \in Nat : n - t \in S}
<1>1. \A i \in S : i \in Int /\ n - i \in Nat /\ n - (n - i) = i
  OBVIOUS
<1>2. T \subseteq Nat
  OBVIOUS
<1>3. T # {}
  <2>1. PICK i \in S : TRUE
    OBVIOUS
  <2> QED
    BY <1>1, <2>1
<1>4. PICK x \in T : \A y \in T : ~(<<y, x>> \in OpToRel(<, Nat))
  <2> HIDE DEF T
  <2> QED
    BY <1>2, <1>3, NatLessThanWellFounded, WFMin, Zenon
<1>5. ASSUME NEW y \in S
      PROVE  y <= n - x
  <2>1. n - y \in T /\ n - y \in Nat /\ x \in Nat
    BY <1>1
  <2>2. ~(n - y < x)
    <3>1. <<n - y, x>> \in Nat \X Nat
      BY <2>1
    <3>2. ~(<<n - y, x>> \in OpToRel(<, Nat))
      BY <1>4, <2>1
    <3> QED
      BY <3>1, <3>2 DEF OpToRel
  <2> QED
    BY <1>1, <2>1, <2>2
<1>6. n - x \in S
  OBVIOUS
<1>7. \E m \in S : \A y \in S : m >= y
  <2>1. \A y \in S : n - x >= y
    BY <1>1, <1>5
  <2> QED
    BY <1>6, <2>1
<1>8. Max(S) \in S /\ \A y \in S : Max(S) >= y
  BY <1>7, Zenon DEF Max
<1> QED
  BY <1>1, <1>8

LEMMA MaxIs ==
  ASSUME NEW n \in Nat, NEW S \in SUBSET (1 .. n), NEW m \in S, \A y \in S : y <= m
  PROVE  Max(S) = m
<1>1. Max(S) \in S /\ \A y \in S : y <= Max(S)
  BY MaxFacts
<1>2. \A y \in S : y \in Int
  OBVIOUS
<1>3. \A x, y \in S : x <= y /\ y <= x => x = y
  BY <1>2
<1>4. m <= Max(S) /\ Max(S) <= m
  BY <1>1, Zenon
<1> QED
  BY <1>1, <1>3, <1>4, Zenon

\* With two elements there is one before the greatest.
LEMMA PreviousFacts ==
  ASSUME NEW n \in Nat, NEW S \in SUBSET (1 .. n), HasTwo(S)
  PROVE  /\ Max(S) \in S /\ Previous(S) \in S /\ Previous(S) < Max(S)
         /\ \A y \in S : y = Max(S) \/ y <= Previous(S)
<1>1. PICK i \in S, j \in S : i # j
  BY DEF HasTwo
<1>2. Max(S) \in S /\ \A y \in S : y <= Max(S)
  <2>1. S # {}
    BY <1>1
  <2> QED
    BY <2>1, MaxFacts
<1>3. ASSUME NEW x
      PROVE  S \ {x} # {} /\ S \ {x} \in SUBSET (1 .. n)
  <2>1. i \in S \ {x} \/ j \in S \ {x}
    BY <1>1, Zenon
  <2>2. S \ {x} \in SUBSET (1 .. n)
    OBVIOUS
  <2> QED
    BY <2>1, <2>2
<1>4. /\ Previous(S) \in S \ {Max(S)}
      /\ \A y \in S \ {Max(S)} : y <= Previous(S)
  BY <1>3, MaxFacts DEF Previous
<1>5. \A x, y \in S : x <= y /\ x # y => x < y
  <2>1. \A y \in S : y \in Int
    OBVIOUS
  <2> QED
    BY <2>1
<1> QED
  BY <1>2, <1>4, <1>5, Zenon

LEMMA PreviousIs ==
  ASSUME NEW n \in Nat, NEW S \in SUBSET (1 .. n), NEW p \in S, NEW m \in S, p < m,
         \A y \in S : y = m \/ y <= p
  PROVE  Max(S) = m /\ Previous(S) = p
<1>1. p \in Int /\ m \in Int /\ \A y \in S : y \in Int
  OBVIOUS
<1>2. Max(S) = m
  BY <1>1, MaxIs
<1>3. p \in S \ {m} /\ S \ {m} \in SUBSET (1 .. n) /\ \A y \in S \ {m} : y <= p
  BY <1>1
<1>4. Max(S \ {m}) = p
  BY <1>3, MaxIs
<1> QED
  BY <1>2, <1>4 DEF Previous

-----------------------------------------------------------------------------
(* Levels, and the detectors that look at them. *)

LEMMA Places ==
  ASSUME NEW c \in Seq(Candle)
  PROVE  Highs(c) \in SUBSET (1 .. Len(c)) /\ Lows(c) \in SUBSET (1 .. Len(c))
BY MarketAssumption DEF Highs, Lows, Confirmed

LEMMA Prices ==
  ASSUME NEW c \in Seq(Candle), NEW i \in 1 .. Len(c)
  PROVE  /\ c[i].open \in Nat \ {0} /\ c[i].high \in Nat \ {0}
         /\ c[i].low \in Nat \ {0} /\ c[i].close \in Nat \ {0}
         /\ c[i].low <= c[i].open /\ c[i].open <= c[i].high
         /\ c[i].low <= c[i].close /\ c[i].close <= c[i].high
<1>1. c[i] \in Candle
  OBVIOUS
<1> QED
  BY <1>1 DEF Candle

LEMMA Levels ==
  ASSUME NEW c \in Seq(Candle), Known(c)
  PROVE  /\ LastHigh(c) \in Nat \ {0} /\ PreviousHigh(c) \in Nat \ {0}
         /\ LastLow(c) \in Nat \ {0} /\ PreviousLow(c) \in Nat \ {0}
         /\ Len(c) \in Nat \ {0} /\ Close(c) \in Nat \ {0}
<1>1. Max(Highs(c)) \in 1 .. Len(c) /\ Previous(Highs(c)) \in 1 .. Len(c)
  BY Places, PreviousFacts, LenProperties, Zenon DEF Known
<1>2. Max(Lows(c)) \in 1 .. Len(c) /\ Previous(Lows(c)) \in 1 .. Len(c)
  BY Places, PreviousFacts, LenProperties, Zenon DEF Known
<1>3. Len(c) \in 1 .. Len(c)
  BY <1>1
<1> QED
  BY <1>1, <1>2, <1>3, Prices DEF LastHigh, PreviousHigh, LastLow, PreviousLow, Close, Newest

\* Detector and pipeline each look for breaks of structure in their own code:
\* they agree. A break never goes against the structure, so that the detector
\* for changes of character finds none, and the pipeline's own stand.
THEOREM DetectorsAgree ==
  ASSUME NEW c \in Seq(Candle)
  PROVE  /\ OwnBos(c) = Bos(c) /\ PipelineBos(c) = Bos(c)
         /\ Choch(Structure(c), Bos(c)) = "none"
         /\ PipelineChoch(c) = OwnChoch(c)
<1>1. OwnBos(c) = Bos(c) /\ Choch(Structure(c), Bos(c)) = "none"
  <2>1. CASE ~Known(c)
    BY <2>1 DEF OwnBos, Bos, Structure, Choch
  <2>2. CASE Known(c)
    <3>1. ~(Rising(c) /\ Falling(c))
      BY <2>2, Levels DEF Rising, Falling
    <3> QED
      BY <2>2, <3>1 DEF OwnBos, Bos, Structure, Choch
  <2> QED
    BY <2>1, <2>2
<1> QED
  BY <1>1 DEF PipelineBos, PipelineChoch

\* What a signal of the gated pipeline takes: one candle that has left a gap
\* to the last but one, went through the last swing on the side of its stop,
\* and closed beyond the last swing on the other side.
THEOREM ConfluenceSpansTheSwings ==
  ASSUME NEW c \in Seq(Candle)
  PROVE  /\ Detected(TRUE, c) = "BULLISH" =>
              /\ Len(c) >= 3 /\ SweepLow(c)
              /\ c[Len(c) - 2].high < Newest(c).low
              /\ Newest(c).low < Stop(c, "BULLISH") /\ LastHigh(c) < Close(c)
         /\ Detected(TRUE, c) = "BEARISH" =>
              /\ Len(c) >= 3 /\ SweepHigh(c)
              /\ Newest(c).high < c[Len(c) - 2].low
              /\ Stop(c, "BEARISH") < Newest(c).high /\ Close(c) < LastLow(c)
<1>1. PipelineBos(c) = Bos(c)
  BY DetectorsAgree
<1>2. ASSUME Detected(TRUE, c) = "BULLISH"
      PROVE  /\ Len(c) >= 3 /\ SweepLow(c)
             /\ c[Len(c) - 2].high < Newest(c).low
             /\ Newest(c).low < Stop(c, "BULLISH") /\ LastHigh(c) < Close(c)
  <2>1. Bos(c) = "BULLISH" /\ Confluence(c) = "BULLISH"
    BY <1>1, <1>2 DEF Detected
  <2>2. Known(c) /\ Close(c) > LastHigh(c)
    BY <2>1 DEF Bos
  <2>3. ValidOrderBlock(c) /\ Gap(c) = "BULLISH"
    BY <2>1 DEF Confluence
  <2>4. Len(c) >= 3 /\ c[Len(c) - 2].high < Newest(c).low
    BY <2>3 DEF Gap, Newest
  <2>5. SweepLow(c)
    BY <2>2, <2>3, Levels DEF ValidOrderBlock, SweepHigh
  <2>6. Newest(c).low < Stop(c, "BULLISH")
    BY <2>5 DEF SweepLow, Stop
  <2>7. LastHigh(c) < Close(c)
    BY <2>2, Levels
  <2> QED
    BY <2>4, <2>5, <2>6, <2>7
<1>3. ASSUME Detected(TRUE, c) = "BEARISH"
      PROVE  /\ Len(c) >= 3 /\ SweepHigh(c)
             /\ Newest(c).high < c[Len(c) - 2].low
             /\ Stop(c, "BEARISH") < Newest(c).high /\ Close(c) < LastLow(c)
  <2>1. Bos(c) = "BEARISH" /\ Confluence(c) = "BEARISH"
    BY <1>1, <1>3 DEF Detected
  <2>2. Known(c) /\ Close(c) < LastLow(c)
    BY <2>1 DEF Bos
  <2>3. ValidOrderBlock(c) /\ Gap(c) = "BEARISH"
    BY <2>1 DEF Confluence
  <2>4. Len(c) >= 3 /\ c[Len(c) - 2].low > Newest(c).high
    BY <2>3 DEF Gap, Newest
  <2>5. SweepHigh(c)
    BY <2>2, <2>3, Levels DEF ValidOrderBlock, SweepLow
  <2>6. Newest(c).high > Stop(c, "BEARISH")
    BY <2>5 DEF SweepHigh, Stop
  <2>7. Newest(c).high \in Nat /\ c[Len(c) - 2].low \in Nat /\ Stop(c, "BEARISH") \in Nat
    <3>1. Len(c) \in 1 .. Len(c) /\ Len(c) - 2 \in 1 .. Len(c)
      BY <2>4, LenProperties
    <3> QED
      BY <2>2, <3>1, Prices, Levels DEF Newest, Stop
  <2> QED
    BY <2>2, <2>4, <2>5, <2>6, <2>7
<1> QED
  BY <1>2, <1>3

-----------------------------------------------------------------------------
(* Swings seen through a window, and after one more candle. *)

\* What a window on the newest candles shows is what is there.
LEMMA Window ==
  ASSUME NEW h \in Seq(Candle), NEW d \in 0 .. Len(h)
  PROVE  LET c == SubSeq(h, d + 1, Len(h))
         IN  /\ c \in Seq(Candle) /\ Len(c) = Len(h) - d
             /\ \A i \in 1 .. Len(c) : c[i] = h[d + i]
<1>1. Len(h) \in Nat /\ d \in Nat /\ d + 1 \in 1 .. Len(h) + 1
  BY LenProperties
<1> QED
  BY <1>1, SubSeqProperties

\* A swing depends on its neighbours only.
LEMMA Neighbours ==
  ASSUME NEW c, NEW h, NEW d \in Nat, NEW i \in Int,
         \A j \in i - Left .. i + Right : c[j] = h[d + j]
  PROVE  (IsHigh(c, i) <=> IsHigh(h, d + i)) /\ (IsLow(c, i) <=> IsLow(h, d + i))
<1>1. Left \in Nat /\ Right \in Nat
  BY MarketAssumption
<1>2. i \in i - Left .. i + Right
  BY <1>1
<1>3. \A j \in Around(i) : d + j \in Around(d + i) /\ c[j] = h[d + j]
  BY <1>1 DEF Around
<1>4. \A j \in Around(d + i) : j - d \in Around(i) /\ d + (j - d) = j
  BY <1>1 DEF Around
<1>5. \A j \in Around(d + i) : c[j - d] = h[j] /\ j - d \in Around(i)
  BY <1>3, <1>4
<1>6. c[i] = h[d + i]
  BY <1>2
<1>7. IsHigh(c, i) <=> IsHigh(h, d + i)
  BY <1>3, <1>5, <1>6 DEF IsHigh
<1> QED
  BY <1>3, <1>5, <1>6, <1>7 DEF IsLow

\* The swings in a window are those outside it with all neighbours in view.
LEMMA SwingsInWindow ==
  ASSUME NEW h \in Seq(Candle), NEW d \in 0 .. Len(h)
  PROVE  LET c == SubSeq(h, d + 1, Len(h))
         IN  \A i \in Int :
               /\ i \in Highs(c) <=> i > Left /\ d + i \in Highs(h)
               /\ i \in Lows(c) <=> i > Left /\ d + i \in Lows(h)
<1> DEFINE c == SubSeq(h, d + 1, Len(h))
<1>1. c \in Seq(Candle) /\ Len(c) = Len(h) - d /\ \A i \in 1 .. Len(c) : c[i] = h[d + i]
  BY Window
<1>2. Left \in Nat /\ Right \in Nat /\ d \in Nat /\ Len(h) \in Nat
  BY MarketAssumption, LenProperties
<1> HIDE DEF c
<1> SUFFICES ASSUME NEW i \in Int
             PROVE  /\ i \in Highs(c) <=> i > Left /\ d + i \in Highs(h)
                    /\ i \in Lows(c) <=> i > Left /\ d + i \in Lows(h)
  BY DEF c
<1>3. i \in Confirmed(c) <=> i > Left /\ d + i \in Confirmed(h)
  BY <1>1, <1>2 DEF Confirmed
<1>4. CASE i \in Confirmed(c)
  <2>1. \A j \in i - Left .. i + Right : c[j] = h[d + j]
    BY <1>1, <1>2, <1>4 DEF Confirmed
  <2>2. (IsHigh(c, i) <=> IsHigh(h, d + i)) /\ (IsLow(c, i) <=> IsLow(h, d + i))
    BY <1>2, <2>1, Neighbours
  <2> QED
    BY <1>3, <1>4, <2>2 DEF Highs, Lows
<1>5. CASE i \notin Confirmed(c)
  BY <1>3, <1>5 DEF Highs, Lows
<1> QED
  BY <1>4, <1>5

\* A holds the places of B that have Left candles of a window before them.
InView(A, B, d) == A = {i \in Int : i > Left /\ d + i \in B}

LEMMA NewestTwo ==
  ASSUME NEW n \in Nat, NEW m \in Nat, NEW d \in Nat,
         NEW A \in SUBSET (1 .. n), NEW B \in SUBSET (1 .. m),
         InView(A, B, d), HasTwo(A)
  PROVE  HasTwo(B) /\ Max(B) = d + Max(A) /\ Previous(B) = d + Previous(A)
<1>1. PICK x \in A, p \in A :
        x = Max(A) /\ p = Previous(A) /\ p < x /\ \A y \in A : y = x \/ y <= p
  BY PreviousFacts, Zenon
<1>2. x \in Int /\ p \in Int /\ Left \in Nat
  BY MarketAssumption
<1>3. d + x \in B /\ d + p \in B /\ p > Left /\ d + p < d + x
  BY <1>1, <1>2 DEF InView
<1>4. ASSUME NEW y \in B
      PROVE  y = d + x \/ y <= d + p
  <2>1. y \in Int /\ y - d \in Int /\ d + (y - d) = y
    OBVIOUS
  <2>2. CASE y - d > Left
    <3>1. y - d \in A
      BY <2>1, <2>2 DEF InView
    <3> QED
      BY <1>1, <1>2, <2>1, <3>1
  <2>3. CASE ~(y - d > Left)
    BY <1>2, <1>3, <2>1, <2>3
  <2> QED
    BY <2>2, <2>3
<1>5. Max(B) = d + x /\ Previous(B) = d + p
  BY <1>3, <1>4, PreviousIs
<1>6. HasTwo(B)
  BY <1>2, <1>3 DEF HasTwo
<1> QED
  BY <1>1, <1>5, <1>6

\* A window that shows two swings of each kind shows the same structure, the
\* same breaks and the same stops as all candles: what a pipeline decides
\* does not depend on how far back it looks.
THEOREM WindowSuffices ==
  ASSUME NEW h \in Seq(Candle), NEW d \in 0 .. Len(h), Known(SubSeq(h, d + 1, Len(h)))
  PROVE  LET c == SubSeq(h, d + 1, Len(h))
         IN  /\ Structure(c) = Structure(h)
             /\ PipelineBos(c) = PipelineBos(h) /\ PipelineChoch(c) = PipelineChoch(h)
             /\ \A e \in {"BULLISH", "BEARISH"} : Stop(c, e) = Stop(h, e)
<1> DEFINE c == SubSeq(h, d + 1, Len(h))
<1>1. c \in Seq(Candle) /\ Len(c) = Len(h) - d /\ \A i \in 1 .. Len(c) : c[i] = h[d + i]
  BY Window
<1>2. d \in Nat /\ Len(c) \in Nat /\ Len(h) \in Nat /\ Known(c)
  BY <1>1, LenProperties
<1>3. /\ \A i \in Int : i \in Highs(c) <=> i > Left /\ d + i \in Highs(h)
      /\ \A i \in Int : i \in Lows(c) <=> i > Left /\ d + i \in Lows(h)
  BY SwingsInWindow
<1> HIDE DEF c
<1>4. /\ Highs(c) \in SUBSET (1 .. Len(c)) /\ Lows(c) \in SUBSET (1 .. Len(c))
      /\ Highs(h) \in SUBSET (1 .. Len(h)) /\ Lows(h) \in SUBSET (1 .. Len(h))
  BY <1>1, Places
<1>5. /\ HasTwo(Highs(h)) /\ Max(Highs(h)) = d + Max(Highs(c))
      /\ Previous(Highs(h)) = d + Previous(Highs(c))
  <2>1. InView(Highs(c), Highs(h), d)
    BY <1>3, <1>4 DEF InView
  <2>2. HasTwo(Highs(c))
    BY <1>2 DEF Known
  <2> QED
    BY <1>2, <1>4, <2>1, <2>2, NewestTwo, Zenon
<1>6. /\ HasTwo(Lows(h)) /\ Max(Lows(h)) = d + Max(Lows(c))
      /\ Previous(Lows(h)) = d + Previous(Lows(c))
  <2>1. InView(Lows(c), Lows(h), d)
    BY <1>3, <1>4 DEF InView
  <2>2. HasTwo(Lows(c))
    BY <1>2 DEF Known
  <2> QED
    BY <1>2, <1>4, <2>1, <2>2, NewestTwo, Zenon
<1>7. /\ Max(Highs(c)) \in 1 .. Len(c) /\ Previous(Highs(c)) \in 1 .. Len(c)
      /\ Max(Lows(c)) \in 1 .. Len(c) /\ Previous(Lows(c)) \in 1 .. Len(c)
  BY <1>2, <1>4, PreviousFacts, Zenon DEF Known
<1>8. LastHigh(c) = LastHigh(h) /\ PreviousHigh(c) = PreviousHigh(h)
  BY <1>1, <1>5, <1>7 DEF LastHigh, PreviousHigh
<1>9. LastLow(c) = LastLow(h) /\ PreviousLow(c) = PreviousLow(h)
  BY <1>1, <1>6, <1>7 DEF LastLow, PreviousLow
<1>10. Close(c) = Close(h)
  <2>1. Len(c) \in 1 .. Len(c) /\ d + Len(c) = Len(h)
    BY <1>1, <1>2, <1>7
  <2> QED
    BY <1>1, <2>1 DEF Close, Newest
<1>11. Known(h) /\ (Rising(c) <=> Rising(h)) /\ (Falling(c) <=> Falling(h))
  BY <1>5, <1>6, <1>8, <1>9, Zenon DEF Known, Rising, Falling
<1>12. Structure(c) = Structure(h)
  BY <1>2, <1>11 DEF Structure
<1>13. Bos(c) = Bos(h)
  BY <1>2, <1>8, <1>9, <1>10, <1>11, Zenon DEF Bos
<1>14. PipelineBos(c) = PipelineBos(h)
  BY <1>1, <1>13, DetectorsAgree
<1>15. PipelineChoch(c) = PipelineChoch(h)
  <2>1. OwnChoch(c) = OwnChoch(h)
    BY <1>8, <1>9, <1>10, <1>12, Zenon DEF OwnChoch
  <2> QED
    BY <1>1, <2>1, DetectorsAgree
<1>16. \A e \in {"BULLISH", "BEARISH"} : Stop(c, e) = Stop(h, e)
  BY <1>8, <1>9, Zenon DEF Stop
<1> QED
  BY <1>12, <1>14, <1>15, <1>16 DEF c

-----------------------------------------------------------------------------
(* Histories and windows. *)

\* A run only ever appends candles to its history.
HistoryInv == gated \in BOOLEAN /\ history \in Seq(Candle)

LEMMA HistoryInvariant == Spec => []HistoryInv
<1>1. Init => HistoryInv
  BY BacktestAssumption DEF Init, HistoryInv
<1>2. HistoryInv /\ [Next]_vars => HistoryInv'
  <2> SUFFICES ASSUME HistoryInv, [Next]_vars
               PROVE  HistoryInv'
    OBVIOUS
  <2>1. CASE Read
    <3>1. PICK candle \in Shape : history' = Append(history, candle)
      BY <2>1 DEF Read
    <3>2. candle \in Candle
      BY BacktestAssumption
    <3> QED
      BY <2>1, <3>1, <3>2, AppendProperties DEF HistoryInv, Read
  <2>2. CASE OpenPending
    BY <2>2 DEF HistoryInv, OpenPending
  <2>3. CASE DetectExit
    BY <2>3 DEF HistoryInv, DetectExit
  <2>4. CASE Decide
    BY <2>4 DEF HistoryInv, Decide
  <2>5. CASE UNCHANGED vars
    BY <2>5 DEF HistoryInv, vars
  <2> QED
    BY <2>1, <2>2, <2>3, <2>4, <2>5 DEF Next
<1> QED
  BY <1>1, <1>2, PTL DEF Spec

\* Candles of the history that have left the window.
Gone(h) == IF Len(h) > Required THEN Len(h) - Required ELSE 0

LEMMA VisibleFacts ==
  ASSUME NEW h \in Seq(Candle)
  PROVE  /\ Visible(h) = SubSeq(h, Gone(h) + 1, Len(h))
         /\ Gone(h) \in 0 .. Len(h) /\ Len(h) \in Nat
         /\ Visible(h) \in Seq(Candle) /\ Len(Visible(h)) = Len(h) - Gone(h)
<1>1. Len(h) \in Nat /\ Required \in Nat
  BY LenProperties, LiveAssumption
<1>2. Gone(h) \in 0 .. Len(h)
  BY <1>1 DEF Gone
<1>3. Visible(h) = SubSeq(h, Gone(h) + 1, Len(h))
  BY DEF Visible, Gone
<1> QED
  BY <1>1, <1>2, <1>3, Window

\* With two swings of each kind in view, what is decided is what all candles
\* would have decided.
THEOREM LookbackIsEnough == Spec => []LookbackSuffices
<1>1. HistoryInv => LookbackSuffices
  <2> SUFFICES ASSUME HistoryInv, Known(Visible(history))
               PROVE  /\ Structure(Visible(history)) = Structure(history)
                      /\ PipelineBos(Visible(history)) = PipelineBos(history)
                      /\ PipelineChoch(Visible(history)) = PipelineChoch(history)
                      /\ \A d \in {"BULLISH", "BEARISH"} :
                           Stop(Visible(history), d) = Stop(history, d)
    BY DEF LookbackSuffices
  <2>1. history \in Seq(Candle)
    BY DEF HistoryInv
  <2>2. Gone(history) \in 0 .. Len(history)
    BY <2>1, VisibleFacts
  <2>3. Visible(history) = SubSeq(history, Gone(history) + 1, Len(history))
    BY <2>1, VisibleFacts
  <2>4. Known(SubSeq(history, Gone(history) + 1, Len(history)))
    BY <2>3
  <2>5. LET c == SubSeq(history, Gone(history) + 1, Len(history))
        IN  /\ Structure(c) = Structure(history)
            /\ PipelineBos(c) = PipelineBos(history) /\ PipelineChoch(c) = PipelineChoch(history)
            /\ \A e \in {"BULLISH", "BEARISH"} : Stop(c, e) = Stop(history, e)
    BY <2>1, <2>2, <2>4, WindowSuffices
  <2> QED
    BY <2>3, <2>5
<1> QED
  BY <1>1, HistoryInvariant, PTL

\* The swings a window shows, by their place in the history.
LEMMA SwingsSeenFacts ==
  ASSUME NEW h \in Seq(Candle), NEW i \in Int
  PROVE  /\ i \in SwingsSeen(h, "high")
              <=> i \in Gone(h) + Left + 1 .. Len(h) - Right /\ IsHigh(h, i)
         /\ i \in SwingsSeen(h, "low")
              <=> i \in Gone(h) + Left + 1 .. Len(h) - Right /\ IsLow(h, i)
<1> DEFINE c == Visible(h)
           g == Gone(h)
<1>1. /\ g \in Nat /\ Len(h) \in Nat /\ Left \in Nat /\ Right \in Nat
      /\ c = SubSeq(h, g + 1, Len(h)) /\ g \in 0 .. Len(h)
  BY VisibleFacts, MarketAssumption
<1>2. Len(h) - Len(c) = g
  <2>1. Len(c) = Len(h) - g
    BY VisibleFacts
  <2> QED
    BY <1>1, <2>1
<1>3. \A j \in Int : /\ j \in Highs(c) <=> j > Left /\ g + j \in Highs(h)
                     /\ j \in Lows(c) <=> j > Left /\ g + j \in Lows(h)
  BY <1>1, SwingsInWindow
<1>4. Highs(c) \subseteq Int /\ Lows(c) \subseteq Int
  BY VisibleFacts, MarketAssumption DEF Highs, Lows, Confirmed
<1>5. /\ SwingsSeen(h, "high") = {g + j : j \in Highs(c)}
      /\ SwingsSeen(h, "low") = {g + j : j \in Lows(c)}
  BY <1>2 DEF SwingsSeen
<1> HIDE DEF c, g
<1>6. i - g \in Int /\ g + (i - g) = i /\ \A j \in Int : i = g + j => j = i - g
  BY <1>1
<1>7. /\ i \in SwingsSeen(h, "high") <=> i - g \in Highs(c)
      /\ i \in SwingsSeen(h, "low") <=> i - g \in Lows(c)
  BY <1>4, <1>5, <1>6
<1>8. /\ i - g \in Highs(c) <=> i - g > Left /\ i \in Highs(h)
      /\ i - g \in Lows(c) <=> i - g > Left /\ i \in Lows(h)
  BY <1>3, <1>6
<1>9. /\ i \in Highs(h) <=> i \in Left + 1 .. Len(h) - Right /\ IsHigh(h, i)
      /\ i \in Lows(h) <=> i \in Left + 1 .. Len(h) - Right /\ IsLow(h, i)
  BY DEF Highs, Lows, Confirmed
<1>10. i - g > Left /\ i \in Left + 1 .. Len(h) - Right <=> i \in g + Left + 1 .. Len(h) - Right
  BY <1>1
<1> QED
  BY <1>7, <1>8, <1>9, <1>10 DEF g

LEMMA SwingsSeenAreInt ==
  ASSUME NEW h \in Seq(Candle), NEW kind \in {"high", "low"}
  PROVE  SwingsSeen(h, kind) \subseteq Int
<1>1. Len(h) \in Int /\ Len(Visible(h)) \in Int
  BY VisibleFacts
<1>2. Highs(Visible(h)) \subseteq Int /\ Lows(Visible(h)) \subseteq Int
  BY VisibleFacts, MarketAssumption DEF Highs, Lows, Confirmed
<1> QED
  BY <1>1, <1>2 DEF SwingsSeen

\* The next candle leaves every swing as it was.
LEMMA AppendKeepsSwings ==
  ASSUME NEW h \in Seq(Candle), NEW k \in Candle,
         NEW i \in Left + 1 .. Len(h) - Right
  PROVE  /\ IsHigh(Append(h, k), i) <=> IsHigh(h, i)
         /\ IsLow(Append(h, k), i) <=> IsLow(h, i)
<1>1. /\ Len(h) \in Nat /\ Left \in Nat /\ Right \in Nat /\ i \in Int /\ 0 \in Nat
      /\ 0 + i = i
  BY MarketAssumption, LenProperties
<1>2. \A j \in 1 .. Len(h) : Append(h, k)[j] = h[j]
  BY AppendProperties
<1>3. \A j \in i - Left .. i + Right : Append(h, k)[j] = h[0 + j]
  <2>1. \A j \in i - Left .. i + Right : j \in 1 .. Len(h) /\ 0 + j = j
    BY <1>1
  <2> QED
    BY <1>2, <2>1
<1>4. /\ IsHigh(Append(h, k), i) <=> IsHigh(h, 0 + i)
      /\ IsLow(Append(h, k), i) <=> IsLow(h, 0 + i)
  BY <1>1, <1>3, Neighbours
<1>5. 0 + i = i
  BY <1>1
<1> QED
  BY <1>4, <1>5, Zenon

\* No swing is taken back, and none appears but that of the candle that has
\* just got its last neighbour.
THEOREM SwingsStay == Spec => SwingsNeverRepaint
<1> DEFINE Stays(h, n) ==
      \A kind \in {"high", "low"} :
        LET place == Len(n) - Right
            gone == Len(n) - Len(Visible(n)) + Left
        IN  {i \in SwingsSeen(h, kind) : i > gone} = SwingsSeen(n, kind) \ {place}
<1>1. ASSUME NEW h \in Seq(Candle), NEW k \in Candle
      PROVE  Stays(h, Append(h, k))
  <2> DEFINE n == Append(h, k)
  <2>1. n \in Seq(Candle) /\ Len(n) = Len(h) + 1
    BY AppendProperties
  <2>2. /\ Len(h) \in Nat /\ Left \in Nat /\ Right \in Nat
        /\ Gone(h) \in Nat /\ Gone(n) \in Nat /\ Gone(h) <= Gone(n)
    BY <2>1, MarketAssumption, LiveAssumption, LenProperties DEF Gone
  <2>3. Len(n) - Len(Visible(n)) = Gone(n)
    <3>1. Len(Visible(n)) = Len(n) - Gone(n)
      BY <2>1, VisibleFacts
    <3> QED
      BY <2>1, <2>2, <3>1
  <2>4. \A i \in Int : i \in Left + 1 .. Len(h) - Right =>
          (IsHigh(n, i) <=> IsHigh(h, i)) /\ (IsLow(n, i) <=> IsLow(h, i))
    BY AppendKeepsSwings
  <2> HIDE DEF n
  <2>5. ASSUME NEW kind \in {"high", "low"}, NEW i \in Int
        PROVE  i \in SwingsSeen(h, kind) /\ i > Gone(n) + Left
                 <=> i \in SwingsSeen(n, kind) /\ i # Len(n) - Right
    <3>1. i \in Gone(h) + Left + 1 .. Len(h) - Right /\ i > Gone(n) + Left
            <=> i \in Gone(n) + Left + 1 .. Len(n) - Right /\ i # Len(n) - Right
      BY <2>1, <2>2
    <3>2. i \in Gone(h) + Left + 1 .. Len(h) - Right => i \in Left + 1 .. Len(h) - Right
      BY <2>2
    <3>3. CASE kind = "high"
      <4>1. i \in SwingsSeen(h, "high")
              <=> i \in Gone(h) + Left + 1 .. Len(h) - Right /\ IsHigh(h, i)
        BY SwingsSeenFacts
      <4>2. i \in SwingsSeen(n, "high")
              <=> i \in Gone(n) + Left + 1 .. Len(n) - Right /\ IsHigh(n, i)
        BY <2>1, SwingsSeenFacts
      <4> QED
        BY <2>4, <3>1, <3>2, <3>3, <4>1, <4>2, Zenon
    <3>4. CASE kind = "low"
      <4>1. i \in SwingsSeen(h, "low")
              <=> i \in Gone(h) + Left + 1 .. Len(h) - Right /\ IsLow(h, i)
        BY SwingsSeenFacts
      <4>2. i \in SwingsSeen(n, "low")
              <=> i \in Gone(n) + Left + 1 .. Len(n) - Right /\ IsLow(n, i)
        BY <2>1, SwingsSeenFacts
      <4> QED
        BY <2>4, <3>1, <3>2, <3>4, <4>1, <4>2, Zenon
    <3> QED
      BY <3>3, <3>4
  <2>6. ASSUME NEW kind \in {"high", "low"}
        PROVE  {i \in SwingsSeen(h, kind) : i > Gone(n) + Left}
                 = SwingsSeen(n, kind) \ {Len(n) - Right}
    BY <2>1, <2>5, SwingsSeenAreInt, Zenon
  <2> QED
    BY <2>3, <2>6 DEF n
<1>2. HistoryInv /\ [Next]_vars => (history' # history => Stays(history, history'))
  <2> SUFFICES ASSUME HistoryInv, [Next]_vars, history' # history
               PROVE  Stays(history, history')
    OBVIOUS
  <2>1. PICK candle \in Shape : history' = Append(history, candle)
    BY DEF Next, Read, OpenPending, DetectExit, Decide, vars
  <2>2. candle \in Candle /\ history \in Seq(Candle)
    BY BacktestAssumption DEF HistoryInv
  <2> HIDE DEF Stays
  <2> QED
    BY <1>1, <2>1, <2>2
<1>3. HistoryInv /\ [Next]_vars =>
        [history' # history =>
           \A kind \in {"high", "low"} :
             LET place == Len(history') - Right
                 gone == Len(history') - Len(Visible(history')) + Left
             IN  {i \in SwingsSeen(history, kind) : i > gone}
                   = SwingsSeen(history', kind) \ {place}]_vars
  BY <1>2
<1> QED
  BY <1>3, HistoryInvariant, PTL DEF Spec, SwingsNeverRepaint

-----------------------------------------------------------------------------
(* Accounting. *)

AtMostOne(S) == \A x, y \in S : x = y
Held(S) == IF S = {} THEN 0 ELSE 1

\* A decision waits only while no trade is open, and is gone when its candle
\* has been looked at.
OneTrade ==
  /\ AtMostOne(pending) /\ AtMostOne(active)
  /\ pending = {} \/ active = {}
  /\ pc \in {"exit", "decide"} => pending = {}

Balanced ==
  /\ count["decisions"] = count["buy"] + count["sell"] + count["wait"]
  /\ count["buy"] + count["sell"] = count["opened"] + count["rejected"] + Held(pending)
  /\ count["opened"] = count["closed"] + Held(active)

CountInv == count \in [Counters -> Nat]

AccountInv == CountInv /\ OneTrade /\ Balanced

LEMMA CountedFacts ==
  ASSUME NEW names, CountInv
  PROVE  /\ Counted(names) \in [Counters -> Nat]
         /\ \A x \in Counters : Counted(names)[x] = IF x \in names THEN count[x] + 1 ELSE count[x]
BY DEF CountInv, Counted

LEMMA OpenedOnce ==
  ASSUME NEW p, NEW open
  PROVE  AtMostOne(Opened(p, open))
BY DEF AtMostOne, Opened

\* The pending decision becomes a trade, or nothing.
LEMMA FreshOnce ==
  ASSUME OneTrade, OpenPending
  PROVE  /\ AtMostOne(fresh')
         /\ pending = {} \/ active # {} => fresh' = {}
<1>1. fresh' = UNION {Opened(p, Newest(history).open) : p \in {q \in pending : active = {}}}
  BY DEF OpenPending
<1>2. CASE pending = {} \/ active # {}
  BY <1>1, <1>2 DEF AtMostOne
<1>3. CASE pending # {} /\ active = {}
  <2>1. PICK p \in pending : pending = {p}
    BY <1>3 DEF OneTrade, AtMostOne
  <2>2. fresh' = Opened(p, Newest(history).open)
    BY <1>1, <1>3, <2>1
  <2> QED
    BY <1>3, <2>2, OpenedOnce
<1> QED
  BY <1>2, <1>3

LEMMA OpenPendingBalances ==
  ASSUME AccountInv, OpenPending
  PROVE  AccountInv'
<1>1. /\ CountInv /\ OneTrade /\ Balanced
      /\ active' = active \cup fresh' /\ pending' = {} /\ pc' = "exit"
      /\ count' = CASE pending = {} -> count
                    [] fresh' # {} -> Counted({"opened"})
                    [] OTHER -> Counted({"rejected"})
  BY DEF AccountInv, OpenPending
<1>2. AtMostOne(fresh') /\ (pending = {} \/ active # {} => fresh' = {})
  BY <1>1, FreshOnce
<1>3. OneTrade'
  BY <1>1, <1>2 DEF OneTrade, AtMostOne
<1>4. CASE pending = {}
  <2>1. count' = count /\ active' = active
    BY <1>1, <1>2, <1>4
  <2> QED
    BY <1>1, <1>3, <1>4, <2>1 DEF AccountInv, CountInv, Balanced, Held
<1>5. CASE pending # {} /\ fresh' # {}
  <2>1. count' = Counted({"opened"}) /\ active = {} /\ active' # {}
    BY <1>1, <1>2, <1>5
  <2> QED
    BY <1>1, <1>3, <1>5, <2>1, CountedFacts
    DEF AccountInv, CountInv, Balanced, Held, Counters
<1>6. CASE pending # {} /\ fresh' = {}
  <2>1. count' = Counted({"rejected"}) /\ active' = active
    BY <1>1, <1>2, <1>6
  <2> QED
    BY <1>1, <1>3, <1>6, <2>1, CountedFacts
    DEF AccountInv, CountInv, Balanced, Held, Counters
<1> QED
  BY <1>4, <1>5, <1>6

LEMMA DetectExitBalances ==
  ASSUME AccountInv, DetectExit
  PROVE  AccountInv'
<1>1. /\ CountInv /\ OneTrade /\ Balanced /\ pc = "exit" /\ pending' = pending
      /\ active' = {t \in active : ~Touched(t, Newest(history))}
      /\ count' = IF active' # active THEN Counted({"closed"}) ELSE count
  BY DEF AccountInv, DetectExit
<1>2. active' \subseteq active /\ (active' # active => active # {} /\ active' = {})
  BY <1>1 DEF OneTrade, AtMostOne
<1>3. OneTrade'
  BY <1>1, <1>2 DEF OneTrade, AtMostOne
<1>4. CASE active' = active
  BY <1>1, <1>3, <1>4 DEF AccountInv, CountInv, Balanced, Held
<1>5. CASE active' # active
  <2>1. count' = Counted({"closed"})
    BY <1>1, <1>5
  <2> QED
    BY <1>1, <1>2, <1>3, <1>5, <2>1, CountedFacts
    DEF AccountInv, CountInv, Balanced, Held, Counters
<1> QED
  BY <1>4, <1>5

LEMMA DirectionType ==
  ASSUME NEW g, NEW c
  PROVE  Detected(g, c) \in {"BULLISH", "BEARISH", "none"}
<1>1. Bos(c) \in {"BULLISH", "BEARISH", "none"}
  BY DEF Bos
<1>2. OwnBos(c) \in {"BULLISH", "BEARISH", "none"}
  BY DEF OwnBos
<1> QED
  BY <1>1, <1>2 DEF Detected, PipelineBos

LEMMA DecideBalances ==
  ASSUME AccountInv, Decide
  PROVE  AccountInv'
<1> DEFINE direction == Detected(gated, Visible(history))
           Entered(last) == direction # "none" /\ ~last /\ active = {} /\ pending = {}
<1>1. /\ CountInv /\ OneTrade /\ Balanced /\ pc = "decide" /\ pending = {}
      /\ active' = active
  BY DEF AccountInv, OneTrade, Decide
<1>2. PICK last \in BOOLEAN :
        /\ pending' = IF Entered(last)
                      THEN {[direction |-> direction, stop |-> Stop(Visible(history), direction)]}
                      ELSE pending
        /\ count' = Counted({"decisions", Outcome(direction)}
                              \cup IF direction = "none" \/ Entered(last) THEN {} ELSE {"rejected"})
        /\ pc' = IF last THEN "done" ELSE "read"
  BY DEF Decide
<1>3. direction \in {"BULLISH", "BEARISH", "none"}
  BY DirectionType
<1> HIDE DEF direction
<1>4. /\ direction = "none" => Outcome(direction) = "wait" /\ ~Entered(last)
      /\ direction # "none" => Outcome(direction) \in {"buy", "sell"}
  BY <1>3 DEF Outcome
<1>5. OneTrade'
  BY <1>1, <1>2 DEF OneTrade, AtMostOne
<1>6. CASE Entered(last)
  <2>1. count' = Counted({"decisions", Outcome(direction)}) /\ pending' # {} /\ active = {}
    BY <1>2, <1>6
  <2>2. Outcome(direction) = "buy" \/ Outcome(direction) = "sell"
    BY <1>4, <1>6
  <2> HIDE DEF Entered
  <2> QED
    BY <1>1, <1>5, <2>1, <2>2, CountedFacts
    DEF AccountInv, CountInv, Balanced, Held, Counters
<1>7. CASE ~Entered(last) /\ direction # "none"
  <2>1. count' = Counted({"decisions", Outcome(direction), "rejected"}) /\ pending' = pending
    <3>1. {"decisions", Outcome(direction)} \cup {"rejected"}
            = {"decisions", Outcome(direction), "rejected"}
      OBVIOUS
    <3> QED
      BY <1>2, <1>7, <3>1
  <2>2. Outcome(direction) = "buy" \/ Outcome(direction) = "sell"
    BY <1>4, <1>7
  <2> HIDE DEF Entered
  <2> QED
    BY <1>1, <1>5, <2>1, <2>2, CountedFacts
    DEF AccountInv, CountInv, Balanced, Held, Counters
<1>8. CASE direction = "none"
  <2>1. count' = Counted({"decisions", "wait"}) /\ pending' = pending
    BY <1>2, <1>4, <1>8
  <2> HIDE DEF Entered
  <2> QED
    BY <1>1, <1>5, <2>1, CountedFacts
    DEF AccountInv, CountInv, Balanced, Held, Counters
<1> QED
  BY <1>4, <1>6, <1>7, <1>8

\* Every signal ends as a trade or a rejection, every trade ends or is open,
\* and there is one at a time.
THEOREM SignalsBalance == Spec => []SignalsAccounted
<1>1. Init => AccountInv
  <2> SUFFICES ASSUME Init
               PROVE  AccountInv
    OBVIOUS
  <2>1. count = [x \in Counters |-> 0] /\ pending = {} /\ active = {} /\ pc = "read"
    BY DEF Init
  <2> QED
    BY <2>1 DEF AccountInv, CountInv, OneTrade, AtMostOne, Balanced, Held, Counters
<1>2. AccountInv /\ [Next]_vars => AccountInv'
  <2> SUFFICES ASSUME AccountInv, [Next]_vars
               PROVE  AccountInv'
    OBVIOUS
  <2>1. CASE Read
    BY <2>1 DEF Read, AccountInv, CountInv, OneTrade, AtMostOne, Balanced, Held
  <2>2. CASE OpenPending
    BY <2>2, OpenPendingBalances
  <2>3. CASE DetectExit
    BY <2>3, DetectExitBalances
  <2>4. CASE Decide
    BY <2>4, DecideBalances
  <2>5. CASE UNCHANGED vars
    BY <2>5 DEF vars, AccountInv, CountInv, OneTrade, AtMostOne, Balanced, Held
  <2> QED
    BY <2>1, <2>2, <2>3, <2>4, <2>5 DEF Next
<1>3. AccountInv => SignalsAccounted
  <2> SUFFICES ASSUME AccountInv
               PROVE  SignalsAccounted
    OBVIOUS
  <2>1. \A S : AtMostOne(S) => Cardinality(S) = Held(S)
    <3> SUFFICES ASSUME NEW S, AtMostOne(S)
                 PROVE  Cardinality(S) = Held(S)
      OBVIOUS
    <3>1. CASE S = {}
      BY <3>1, FS_EmptySet DEF Held
    <3>2. CASE S # {}
      <4>1. PICK x \in S : S = {x}
        BY <3>2 DEF AtMostOne
      <4> QED
        BY <3>2, <4>1, FS_Singleton DEF Held
    <3> QED
      BY <3>1, <3>2
  <2>2. /\ Cardinality(pending) = Held(pending) /\ Cardinality(active) = Held(active)
        /\ active \cup pending = active \/ active \cup pending = pending
    BY <2>1 DEF AccountInv, OneTrade
  <2>3. Cardinality(active \cup pending) <= 1
    BY <2>2 DEF Held
  <2> QED
    BY <2>2, <2>3 DEF AccountInv, Balanced, SignalsAccounted
<1> QED
  BY <1>1, <1>2, <1>3, PTL DEF Spec

-----------------------------------------------------------------------------
(* Backtest and live path. *)

\* The signals of a pipeline, none or one, as a backtest has them.
Signals(g, c) ==
  {[direction |-> d, stop |-> Stop(c, d)] : d \in {x \in {"BULLISH", "BEARISH"} : Detected(g, c) = x}}

\* All candles but the newest.
Before(h) == SubSeq(h, 1, Len(h) - 1)

LEMMA BeforeAppend ==
  ASSUME NEW h \in Seq(Candle), NEW k \in Candle
  PROVE  SubSeq(Append(h, k), 1, Len(h)) = h /\ Before(Append(h, k)) = h
<1>1. /\ Append(h, k) \in Seq(Candle) /\ Len(Append(h, k)) = Len(h) + 1
      /\ \A i \in 1 .. Len(h) : Append(h, k)[i] = h[i]
  BY AppendProperties
<1>2. Len(h) \in Nat /\ 1 \in 1 .. Len(h) + 1
  BY LenProperties
<1> DEFINE s == SubSeq(Append(h, k), 1, Len(h))
<1>3. s \in Seq(Candle) /\ Len(s) = Len(h) /\ \A i \in 1 .. Len(s) : s[i] = h[i]
  BY <1>1, <1>2, SubSeqProperties
<1> HIDE DEF s
<1>4. s = h
  BY <1>3, SeqEqual
<1> QED
  BY <1>1, <1>2, <1>4 DEF s, Before

\* A signal has a stop: the adapter's test for one is never decisive.
LEMMA SignalsHaveStops ==
  ASSUME NEW g \in BOOLEAN, NEW c \in Seq(Candle)
  PROVE  /\ ArmSignal(g, c) = Signals(g, c)
         /\ \A p \in Signals(g, c) : p.stop \in Int
<1>1. ASSUME NEW d \in {"BULLISH", "BEARISH"}, Detected(g, c) = d
      PROVE  Stop(c, d) \in Nat /\ Stop(c, d) > 0
  <2>1. PipelineBos(c) = d
    BY <1>1 DEF Detected
  <2>2. Bos(c) = d
    BY <2>1, DetectorsAgree
  <2>3. Known(c)
    BY <2>2 DEF Bos
  <2> QED
    BY <2>3, Levels DEF Stop
<1>2. {x \in {"BULLISH", "BEARISH"} : Detected(g, c) = x /\ Stop(c, x) > 0}
        = {x \in {"BULLISH", "BEARISH"} : Detected(g, c) = x}
  BY <1>1
<1>3. ArmSignal(g, c) = Signals(g, c)
  BY <1>2, Zenon DEF ArmSignal, Signals
<1> QED
  BY <1>1, <1>3 DEF Signals

\* Both ways from a signal to an entry come to the same levels.
LEMMA SameEntry ==
  ASSUME NEW p, p.stop \in Int, NEW open \in Nat \ {0}
  PROVE  ActivateEntry(p, open) = Opened(p, open)
<1>1. Spread \in Nat /\ Slippage \in Nat /\ RewardRiskRatio \in Nat
  BY LiveAssumption
<1> DEFINE entry == IF p.direction = "BULLISH" THEN open + (Spread + Slippage)
                                               ELSE open - (Spread + Slippage)
           distance == IF p.direction = "BULLISH" THEN entry - p.stop ELSE p.stop - entry
           target == IF p.direction = "BULLISH" THEN entry + distance * RewardRiskRatio
                                                ELSE entry - distance * RewardRiskRatio
<1>2. EntryPrice(p.direction, open) = entry /\ entry \in Int
  BY <1>1 DEF EntryPrice
<1>3. StopDistance(p.direction, entry, p.stop) = distance /\ distance \in Int
  BY <1>2 DEF StopDistance
<1>4. Target(p.direction, entry, distance) = target
  BY DEF Target
<1>5. Opened(p, open) =
        {[direction |-> p.direction, entry |-> entry, stop |-> p.stop, target |-> target] :
           x \in {y \in {p} : distance > 0}}
  BY DEF Opened
<1>6. ActivateEntry(p, open) =
        IF open <= 0 \/ distance <= 0 THEN {}
        ELSE {[direction |-> p.direction, entry |-> entry, stop |-> p.stop, target |-> target]}
  BY <1>2, <1>3, <1>4, Zenon DEF ActivateEntry
<1> HIDE DEF entry, distance, target
<1>7. CASE distance > 0
  BY <1>3, <1>5, <1>6, <1>7
<1>8. CASE ~(distance > 0)
  BY <1>3, <1>5, <1>6, <1>8
<1> QED
  BY <1>7, <1>8

\* What waits, and what was opened, is the signal of the candles before.
SignalInv ==
  /\ pc # "read" => history # <<>>
  /\ pc = "read" /\ active = {} /\ Len(history) >= Warmup =>
       pending = Signals(gated, Visible(history))
  /\ pc = "open" /\ idle /\ Len(history) > Warmup =>
       active = {} /\ pending = Signals(gated, Visible(Before(history)))
  /\ pc = "exit" /\ idle /\ Len(history) > Warmup =>
       fresh = UNION {Opened(p, Newest(history).open) : p \in Signals(gated, Visible(Before(history)))}
  /\ pc \in {"exit", "decide"} => pending = {}

LEMMA ReadSignals ==
  ASSUME HistoryInv, SignalInv, Read
  PROVE  SignalInv'
<1>1. /\ history \in Seq(Candle) /\ Len(history) \in Nat /\ Warmup \in Nat /\ pc = "read"
      /\ idle' = (active = {}) /\ pc' = "open" /\ active' = active /\ pending' = pending
      /\ gated' = gated
  BY LenProperties, BacktestAssumption DEF HistoryInv, Read
<1>2. PICK candle \in Shape : history' = Append(history, candle)
  BY DEF Read
<1>3. /\ history' \in Seq(Candle) /\ Len(history') = Len(history) + 1
      /\ history' # <<>> /\ Before(history') = history
  <2>1. candle \in Candle
    BY BacktestAssumption
  <2>2. history' \in Seq(Candle) /\ Len(history') = Len(history) + 1
    BY <1>1, <1>2, <2>1, AppendProperties
  <2>3. Before(history') = history
    BY <1>1, <1>2, <2>1, BeforeAppend
  <2> QED
    BY <1>1, <2>2, <2>3
<1>4. active = {} /\ Len(history') > Warmup => pending' = Signals(gated', Visible(Before(history')))
  BY <1>1, <1>3 DEF SignalInv
<1> QED
  BY <1>1, <1>3, <1>4 DEF SignalInv

LEMMA OpenPendingSignals ==
  ASSUME SignalInv, OpenPending
  PROVE  SignalInv'
<1>1. /\ pc = "open" /\ pc' = "exit" /\ pending' = {} /\ idle' = idle /\ gated' = gated
      /\ history' = history
      /\ fresh' = UNION {Opened(p, Newest(history).open) : p \in {q \in pending : active = {}}}
  BY DEF OpenPending
<1>2. ASSUME idle, Len(history) > Warmup
      PROVE  fresh' = UNION {Opened(p, Newest(history).open) :
                               p \in Signals(gated, Visible(Before(history)))}
  <2>1. active = {} /\ pending = Signals(gated, Visible(Before(history)))
    BY <1>1, <1>2 DEF SignalInv
  <2>2. {q \in pending : active = {}} = pending
    BY <2>1
  <2> QED
    BY <1>1, <2>1, <2>2
<1> QED
  BY <1>1, <1>2 DEF SignalInv

LEMMA DecideSignals ==
  ASSUME SignalInv, Decide
  PROVE  SignalInv'
<1> DEFINE direction == Detected(gated, Visible(history))
<1>1. /\ pc = "decide" /\ pending = {} /\ active' = active /\ gated' = gated
      /\ history' = history /\ idle' = idle /\ history # <<>>
  BY DEF SignalInv, Decide
<1>2. PICK last \in BOOLEAN :
        /\ pending' = IF direction # "none" /\ ~last /\ active = {} /\ pending = {}
                      THEN {[direction |-> direction, stop |-> Stop(Visible(history), direction)]}
                      ELSE pending
        /\ pc' = IF last THEN "done" ELSE "read"
  BY DEF Decide
<1>3. ASSUME pc' = "read", active = {}
      PROVE  pending' = Signals(gated, Visible(history))
  <2>1. ~last
    BY <1>2, <1>3
  <2>2. direction \in {"BULLISH", "BEARISH", "none"}
    BY DirectionType
  <2>3. CASE direction = "none"
    <3>1. Signals(gated, Visible(history)) = {}
      BY <2>3 DEF Signals
    <3> QED
      BY <1>1, <1>2, <2>3, <3>1
  <2>4. CASE direction # "none"
    <3>1. {x \in {"BULLISH", "BEARISH"} : Detected(gated, Visible(history)) = x} = {direction}
      BY <2>2, <2>4
    <3>2. Signals(gated, Visible(history))
            = {[direction |-> direction, stop |-> Stop(Visible(history), direction)]}
      BY <3>1 DEF Signals
    <3> QED
      BY <1>1, <1>2, <1>3, <2>1, <2>4, <3>2
  <2> QED
    BY <2>3, <2>4
<1>4. pc' \in {"read", "done"}
  BY <1>2
<1> QED
  BY <1>1, <1>3, <1>4 DEF SignalInv

\* From enough candles on, both look at the same ones.
LEMMA SameWindow ==
  ASSUME NEW g \in BOOLEAN, NEW b \in Seq(Candle), Len(b) >= Required, NEW k \in Candle
  PROVE  Evaluate(g, Append(b, k), Len(Append(b, k))) = Signals(g, Visible(b))
<1> DEFINE r == Append(b, k)
<1>1. Len(r) = Len(b) + 1 /\ Len(b) \in Nat /\ Required \in Nat \ {0} /\ Len(r) \in DOMAIN r
  BY AppendProperties, LenProperties, LiveAssumption
<1>2. CompletedRates(r, Len(r)) = b
  BY <1>1, BeforeAppend DEF CompletedRates, Before
<1>3. SubSeq(b, Len(b) - Required + 1, Len(b)) = Visible(b)
  <2>1. CASE Len(b) > Required
    BY <2>1 DEF Visible
  <2>2. CASE Len(b) = Required
    BY <1>1, <2>2 DEF Visible
  <2> QED
    BY <1>1, <2>1, <2>2
<1> HIDE DEF r
<1>4. Evaluate(g, r, Len(r)) = ArmSignal(g, Visible(b))
  <2>1. ~(Len(b) < Required \/ Len(r) \notin DOMAIN r)
    BY <1>1
  <2> QED
    BY <1>2, <1>3, <2>1, Zenon DEF Evaluate
<1>5. Visible(b) \in Seq(Candle)
  BY VisibleFacts
<1> QED
  BY <1>4, <1>5, SignalsHaveStops DEF r

\* What the live path enters at the open of a bar is what the backtest enters
\* with that candle, whatever becomes of the bar.
THEOREM LiveIsBacktest == Spec => []LiveParity
<1>1. Init => SignalInv
  BY BacktestAssumption, LenProperties DEF Init, SignalInv
<1>2. HistoryInv /\ SignalInv /\ [Next]_vars => SignalInv'
  <2> SUFFICES ASSUME HistoryInv, SignalInv, [Next]_vars
               PROVE  SignalInv'
    OBVIOUS
  <2>1. CASE Read
    BY <2>1, ReadSignals
  <2>2. CASE OpenPending
    BY <2>2, OpenPendingSignals
  <2>3. CASE DetectExit
    <3>1. /\ history # <<>> /\ pending = {} /\ history' = history /\ pending' = pending
          /\ gated' = gated /\ idle' = idle /\ Len(history) \in Nat /\ Warmup \in Nat
          /\ pc' = IF Len(history) < Warmup THEN "read" ELSE "decide"
      BY <2>3, LenProperties, BacktestAssumption DEF SignalInv, HistoryInv, DetectExit
    <3> QED
      BY <3>1 DEF SignalInv
  <2>4. CASE Decide
    BY <2>4, DecideSignals
  <2>5. CASE UNCHANGED vars
    BY <2>5 DEF vars, SignalInv
  <2> QED
    BY <2>1, <2>2, <2>3, <2>4, <2>5 DEF Next
<1>3. HistoryInv /\ SignalInv => LiveParity
  <2> SUFFICES ASSUME HistoryInv, SignalInv, pc = "exit", idle,
                      Len(history) > Required, Len(history) > Warmup,
                      NEW forming \in Shape, forming.open = Newest(history).open
               PROVE  fresh = LiveEntry(gated, Append(Before(history), forming))
    BY DEF LiveParity, Before
  <2> DEFINE b == Before(history)
             r == Append(b, forming)
             open == Newest(history).open
  <2>1. /\ b \in Seq(Candle) /\ Len(b) >= Required /\ forming \in Candle
        /\ gated \in BOOLEAN /\ open \in Nat \ {0}
    <3>1. /\ history \in Seq(Candle) /\ Len(history) \in Nat /\ Required \in Nat \ {0}
          /\ Len(history) \in 1 .. Len(history)
      BY LenProperties, LiveAssumption DEF HistoryInv
    <3>2. b \in Seq(Candle) /\ Len(b) = Len(history) - 1
      BY <3>1, SubSeqProperties DEF Before
    <3> QED
      BY <3>1, <3>2, Prices, BacktestAssumption DEF Newest, HistoryInv
  <2>2. fresh = UNION {Opened(p, open) : p \in Signals(gated, Visible(b))}
    BY DEF SignalInv
  <2>3. Newest(r).open = open
    BY <2>1, AppendProperties DEF Newest
  <2> HIDE DEF b, open
  <2>4. Evaluate(gated, r, Len(r)) = Signals(gated, Visible(b))
    BY <2>1, SameWindow
  <2> HIDE DEF r
  <2>5. \A p \in Signals(gated, Visible(b)) : ActivateEntry(p, open) = Opened(p, open)
    BY <2>1, VisibleFacts, SignalsHaveStops, SameEntry
  <2>6. LiveEntry(gated, r) = UNION {ActivateEntry(p, open) : p \in Signals(gated, Visible(b))}
    BY <2>3, <2>4 DEF LiveEntry
  <2>7. {ActivateEntry(p, open) : p \in Signals(gated, Visible(b))}
          = {Opened(p, open) : p \in Signals(gated, Visible(b))}
    BY <2>5, Zenon
  <2> QED
    BY <2>2, <2>6, <2>7 DEF b, r
<1> QED
  BY <1>1, <1>2, <1>3, HistoryInvariant, PTL DEF Spec
=============================================================================
