-------------------------- MODULE HistoricalBacktest --------------------------
(***************************************************************************)
(* A backtest reads the candles of a symbol one after the other. With each *)
(* it opens the pending entry, looks whether stop or target was touched,   *)
(* and lets the pipeline decide on the candles read so far, or the latest  *)
(* Required of them. Candles are a free choice from Shape; sizes, account  *)
(* currency and money are left out, and every size is taken to be valid.   *)
(***************************************************************************)
EXTENDS LiveSignal

CONSTANTS
  Shape,       \* the candles that may follow
  Beginnings,  \* the histories a run may begin with, all of it warm-up
  Warmup,      \* candles read before the first decision
  MaxCandles

ASSUME BacktestAssumption ==
  /\ Shape \subseteq Candle /\ Beginnings \subseteq Seq(Candle)
  /\ \A b \in Beginnings : Len(b) < Warmup
  /\ Warmup \in Nat \ {0} /\ MaxCandles \in Nat

VARIABLES
  gated,     \* which pipeline is tested
  history,   \* the candles read so far
  pc,        \* what happens to the newest of them next
  pending,   \* the decision to be entered with the next candle, if any
  active,    \* the open trade, if any
  count,     \* the counters of the diagnostics
  idle,      \* history: no trade was open when the newest candle began
  fresh      \* history: the trade opened with the newest candle, if any

vars == <<gated, history, pc, pending, active, count, idle, fresh>>

Counters == {"decisions", "buy", "sell", "wait", "opened", "closed", "rejected"}

Init ==
  /\ gated \in BOOLEAN
  /\ history \in Beginnings
  /\ pc = "read"
  /\ pending = {} /\ active = {} /\ fresh = {}
  /\ count = [x \in Counters |-> 0]
  /\ idle = TRUE

Counted(names) == [x \in Counters |-> IF x \in names THEN count[x] + 1 ELSE count[x]]

-----------------------------------------------------------------------------
(* One candle. *)

Read ==
  /\ pc = "read"
  /\ Len(history) < MaxCandles
  /\ \E candle \in Shape : history' = Append(history, candle)
  /\ idle' = (active = {})
  /\ fresh' = {}
  /\ pc' = "open"
  /\ UNCHANGED <<gated, pending, active, count>>

\* The price of the next candle's open and the levels that follow from it.
Opened(p, open) ==
  LET buy == p.direction = "BULLISH"
      entry == IF buy THEN open + (Spread + Slippage) ELSE open - (Spread + Slippage)
      distance == IF buy THEN entry - p.stop ELSE p.stop - entry
  IN  {[direction |-> p.direction, entry |-> entry, stop |-> p.stop,
        target |-> IF buy THEN entry + distance * RewardRiskRatio
                          ELSE entry - distance * RewardRiskRatio] :
         x \in {y \in {p} : distance > 0}}

\* Mutation: an entry with an invalid stop is dropped without a rejection.
OpenPendingSilently ==
  /\ pc = "open"
  /\ fresh' = UNION {Opened(p, Newest(history).open) : p \in {q \in pending : active = {}}}
  /\ active' = active \cup fresh'
  /\ count' = IF fresh' # {} THEN Counted({"opened"}) ELSE count
  /\ pending' = {}
  /\ pc' = "exit"
  /\ UNCHANGED <<gated, history, idle>>

OpenPending ==
  /\ pc = "open"
  /\ fresh' = UNION {Opened(p, Newest(history).open) : p \in {q \in pending : active = {}}}
  /\ active' = active \cup fresh'
  /\ count' = CASE pending = {} -> count
                [] fresh' # {} -> Counted({"opened"})
                [] OTHER -> Counted({"rejected"})
  /\ pending' = {}
  /\ pc' = "exit"
  /\ UNCHANGED <<gated, history, idle>>

Touched(trade, candle) ==
  IF trade.direction = "BULLISH"
  THEN candle.low <= trade.stop \/ candle.high >= trade.target
  ELSE candle.high >= trade.stop \/ candle.low <= trade.target

DetectExit ==
  /\ pc = "exit"
  /\ active' = {t \in active : ~Touched(t, Newest(history))}
  /\ count' = IF active' # active THEN Counted({"closed"}) ELSE count
  /\ pc' = IF Len(history) < Warmup THEN "read" ELSE "decide"
  /\ UNCHANGED <<gated, history, pending, idle, fresh>>

Visible(h) == SubSeq(h, (IF Len(h) > Required THEN Len(h) - Required ELSE 0) + 1, Len(h))

Outcome(direction) ==
  CASE direction = "BULLISH" -> "buy" [] direction = "BEARISH" -> "sell" [] OTHER -> "wait"

\* With the last candle of the history nothing can follow.
Decide ==
  /\ pc = "decide"
  /\ \E last \in IF Len(history) > Warmup THEN BOOLEAN ELSE {FALSE} :
       LET direction == Detected(gated, Visible(history))
           entered == direction # "none" /\ ~last /\ active = {} /\ pending = {}
       IN  /\ pending' = IF entered
                         THEN {[direction |-> direction, stop |-> Stop(Visible(history), direction)]}
                         ELSE pending
           /\ count' = Counted({"decisions", Outcome(direction)}
                                 \cup IF direction = "none" \/ entered THEN {} ELSE {"rejected"})
           /\ pc' = IF last THEN "done" ELSE "read"
  /\ UNCHANGED <<gated, history, active, idle, fresh>>

Next == Read \/ OpenPending \/ DetectExit \/ Decide

Spec == Init /\ [][Next]_vars

-----------------------------------------------------------------------------
(* Correctness. *)

\* Swings of the visible candles, by their place in the history.
SwingsSeen(h, kind) ==
  LET c == Visible(h)
  IN  {Len(h) - Len(c) + i : i \in IF kind = "high" THEN Highs(c) ELSE Lows(c)}

\* A confirmed swing is never taken back and none appears later: the next
\* candle confirms or rejects the one candle that has just got its neighbours,
\* and whatever else changes has left the window.
SwingsNeverRepaint ==
  [][history' # history =>
       \A kind \in {"high", "low"} :
         LET place == Len(history') - Right
             gone == Len(history') - Len(Visible(history')) + Left
         IN  {i \in SwingsSeen(history, kind) : i > gone} = SwingsSeen(history', kind) \ {place}]_vars

\* The lookback is a matter of speed only: once the visible candles hold two
\* swings of each kind, structure, break and stop are those of all candles.
LookbackSuffices ==
  Known(Visible(history)) =>
    /\ Structure(Visible(history)) = Structure(history)
    /\ PipelineBos(Visible(history)) = PipelineBos(history)
    /\ PipelineChoch(Visible(history)) = PipelineChoch(history)
    /\ \A d \in {"BULLISH", "BEARISH"} : Stop(Visible(history), d) = Stop(history, d)

\* What the live path does at the open of a bar is what the backtest does with
\* that candle, from as many candles on as the live path asks for: the same
\* trade with the same levels, or none. What the bar becomes later is not
\* known to either.
LiveParity ==
  pc = "exit" /\ idle /\ Len(history) > Required /\ Len(history) > Warmup =>
    \A forming \in Shape :
      forming.open = Newest(history).open =>
        fresh = LiveEntry(gated, Append(SubSeq(history, 1, Len(history) - 1), forming))

\* Every decision is accounted for, and every signal ends as a trade or a
\* rejection; there is one trade at a time.
SignalsAccounted ==
  /\ count["decisions"] = count["buy"] + count["sell"] + count["wait"]
  /\ count["buy"] + count["sell"] = count["opened"] + count["rejected"] + Cardinality(pending)
  /\ count["opened"] = count["closed"] + Cardinality(active)
  /\ Cardinality(active \cup pending) <= 1
=============================================================================
