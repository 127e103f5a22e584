------------------------- MODULE PairLifecycle -------------------------
(***************************************************************************)
(* What the paired forward collection promises about one observation pair, *)
(* whatever crashes, restarts and deadlines happen on the way.  A pair is  *)
(* decided once, entered once with a fixed set of branches that hold an    *)
(* actual virtual trade, each of those branches is closed once at one      *)
(* instant, and the pair is settled once, after all of them.               *)
(***************************************************************************)
EXTENDS Integers

CONSTANTS Pair,      \* observation pairs (symbol, decision candle)
          Instant    \* instants at which a branch may be closed

None == -1
Branch == {"baseline", "candidate"}

VARIABLES stage,     \* stage[p]: how far the evidence of p has got
          traded,    \* traded[p]: the branches with an actual trade
          result     \* result[p][b]: the instant branch b was closed at, or None

vars == <<stage, traded, result>>

Init ==
  /\ stage = [p \in Pair |-> "unseen"]
  /\ traded = [p \in Pair |-> {}]
  /\ result = [p \in Pair |-> [b \in Branch |-> None]]

Decide(p) ==
  /\ stage[p] = "unseen"
  /\ stage' = [stage EXCEPT ![p] = "decided"]
  /\ UNCHANGED <<traded, result>>

\* A candidate trade is only counted next to a baseline trade.
Enter(p, S) ==
  /\ stage[p] = "decided"
  /\ "candidate" \in S => "baseline" \in S
  /\ stage' = [stage EXCEPT ![p] = "entered"]
  /\ traded' = [traded EXCEPT ![p] = S]
  /\ UNCHANGED result

Close(p, b, t) ==
  /\ stage[p] = "entered"
  /\ b \in traded[p]
  /\ result[p][b] = None
  /\ result' = [result EXCEPT ![p][b] = t]
  /\ UNCHANGED <<stage, traded>>

\* A pair without any trade is excluded from the evaluation: it never settles.
Settle(p) ==
  /\ stage[p] = "entered"
  /\ traded[p] # {}
  /\ \A b \in traded[p] : result[p][b] # None
  /\ stage' = [stage EXCEPT ![p] = "settled"]
  /\ UNCHANGED <<traded, result>>

Next ==
  \E p \in Pair :
    \/ Decide(p)
    \/ \E S \in SUBSET Branch : Enter(p, S)
    \/ \E b \in Branch, t \in Instant : Close(p, b, t)
    \/ Settle(p)

Spec == Init /\ [][Next]_vars
=============================================================================
