------------------------ MODULE PortfolioRiskSession ------------------------
(***************************************************************************)
(* Program 14.5b.1: it asks its predecessor's journals before it starts,   *)
(* and compares memory with the recovered portfolio in every cycle and     *)
(* around every open.  A disagreement raises, and so ends the session.     *)
(***************************************************************************)
EXTENDS ShadowLiveSession

RiskStart(list) == StartSession(list)

\* Only the journals of observable symbols are recovered one by one,
RiskRecovered(seen) == {p \in OpenPositions(View(generation)) : p.symbol \in seen}

\* but all of them as a portfolio, which has to have the same positions.
RiskRecoveriesAgree(P) == RecoveriesAgree(P)

RiskRecover ==
  /\ pc = "recover"
  /\ \E seen \in SUBSET watched : recovered' = RiskRecovered(seen) /\ EnableUsable(seen)
  /\ RiskRecoveriesAgree(recovered')
  /\ AnchorEnabled
  /\ pc' = "gate"
  /\ UNCHANGED <<world, operator, journal, watched, memory, cycle>>

RiskPredecessorValid == PredecessorValid

RiskConsumed == Consumed(Predecessor)

RiskTakeOver == TakeOver

RiskGate == pc = "gate" /\ RiskPredecessorValid /\ Continues(RiskConsumed) /\ RiskTakeOver

RiskUpdate == UpdatePosition

RiskRefreshed == Refreshed

RiskRefresh ==
  /\ pc = "refresh"
  /\ RiskRefreshed
  /\ pc' = "bars"
  /\ UNCHANGED <<world, operator, journal, watched, recovered, memory, anchor, enabled, cycle>>

RiskTransitions == FindTransitions
RiskSnapshots == TakeSnapshots
RiskAuthorities == AskAuthorities
RiskEntries == WatchEntries
RiskArbitrate == Arbitrate
RiskFinalWatch == FinalWatch

RiskRevalidate ==
  /\ pc = "revalidate"
  /\ RiskRefreshed
  /\ \/ pc' = "end"
     \/ /\ \A s \in selected : GovernorAllows(s, OpenPositions(View(generation)))
        /\ pc' = "open"
  /\ UNCHANGED <<world, operator, journal, watched, recovered, memory, anchor, enabled, cycle>>

RiskOpen == OpenShadow
RiskPostOpen == PostOpen
RiskEndCycle == EndCycle

RiskCycle ==
  \/ RiskUpdate \/ RiskRefresh \/ RiskTransitions \/ RiskSnapshots
  \/ RiskAuthorities \/ RiskEntries \/ RiskArbitrate \/ RiskFinalWatch
  \/ RiskRevalidate \/ RiskOpen \/ RiskPostOpen \/ RiskEndCycle
=============================================================================
