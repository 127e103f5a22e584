-------------------------- MODULE ShadowPortfolio --------------------------
(***************************************************************************)
(* What a session derives from the shadow position journals: the open      *)
(* positions of one journal, the portfolio over all of them, and what the  *)
(* risk governor makes of a further candidate.                             *)
(*                                                                         *)
(* An event is [kind, bar, order, epoch].  The position identifier of the  *)
(* code names the symbol, which is the journal, and the bar; "order" is    *)
(* the broker identity the payload carries, or NoOrder.                    *)
(***************************************************************************)
EXTENDS Integers, Sequences, FiniteSets

CONSTANTS Symbol,      \* symbols, one journal each
          AssetClass   \* AssetClass[s]: the class of s in the instrument registry

NoOrder == 0
MaxOpenShadowPositions == 1

\* Limits of the governor; the risk of a trade counts as one.
TradeRisk == 1
MaxRiskPerTrade == 1
MaxTotalOpenRisk == 2
MaxSimultaneousPositions == 2

\* The open events of journal j that no later event of their position follows.
OpenEvents(j) ==
  {j[i] : i \in {n \in DOMAIN j :
                   /\ j[n].kind = "open"
                   /\ \A m \in DOMAIN j : m > n => j[m].bar # j[n].bar}}

LifecycleValid(j) == \A e, f \in OpenEvents(j) : e = f

\* Is the position of event i open just before that event?
OpenBefore(j, i) ==
  \E n \in 1..(i - 1) :
    /\ j[n].bar = j[i].bar
    /\ j[n].kind = "open"
    /\ \A m \in (n + 1)..(i - 1) : j[m].bar # j[i].bar

\* A close needs its position open, an open needs it not to be.
RiskRecoveryValid(j) ==
  \A i \in DOMAIN j : (j[i].kind = "close") <=> OpenBefore(j, i)

OpenPositions(journal) ==
  UNION {{[symbol |-> s, bar |-> e.bar, order |-> e.order, epoch |-> e.epoch] :
            e \in OpenEvents(journal[s])} : s \in Symbol}

\* One position per symbol.
SnapshotValid(P) == \A p, q \in P : p.symbol = q.symbol => p = q

AggregateValid(journal) ==
  /\ \A s \in Symbol : RiskRecoveryValid(journal[s])
  /\ SnapshotValid(OpenPositions(journal))

PositionId(p) == <<p.symbol, p.bar>>

RecoveriesValid(journal) == AggregateValid(journal) /\ \A s \in Symbol : LifecycleValid(journal[s])

\* Both recoveries succeed, within the limit, on the positions in memory.
PortfolioConsistent(journal, memory) ==
  /\ RecoveriesValid(journal)
  /\ Cardinality(OpenPositions(journal)) <= MaxOpenShadowPositions
  /\ {PositionId(p) : p \in OpenPositions(journal)} = {PositionId(p) : p \in memory}

RiskWithin(P) ==
  /\ TradeRisk <= MaxRiskPerTrade
  /\ (Cardinality(P) + 1) * TradeRisk <= MaxTotalOpenRisk

Concentrated(s, P) == \E p \in P : AssetClass[p.symbol] = AssetClass[s]

\* What the governor lets pass next to the open positions P.
GovernorAllows(s, P) ==
  /\ RiskWithin(P)
  /\ \A p \in P : p.symbol # s
  /\ Cardinality(P) + 1 <= MaxSimultaneousPositions
  /\ ~Concentrated(s, P)

OneEach(current, predecessor) == Cardinality(current) <= 1 /\ Cardinality(predecessor) <= 1

\* One position in each namespace has to be the same in all its fields.
SamePosition(current, predecessor) == current = predecessor

\* The predecessor namespace may hold a position of an earlier session.
ContinuityAllows(current, predecessor, consumed) ==
  /\ OneEach(current, predecessor)
  /\ predecessor # {} => IF current = {} THEN consumed ELSE SamePosition(current, predecessor)
=============================================================================
