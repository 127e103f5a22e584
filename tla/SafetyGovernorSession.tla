----------------------- MODULE SafetyGovernorSession -----------------------
(***************************************************************************)
(* Program 14.5c: the kill switch, the watchdog and the last gate are new, *)
(* a disagreement with the journals blocks a cycle and no longer ends the  *)
(* session, and every journal is recovered, whatever the feed.  14.6 adds  *)
(* the supervisor to it.                                                   *)
(***************************************************************************)
EXTENDS ShadowLiveSession

GovernedStart(list) == StartSession(list)

GovernedUsable(seen) == EnableUsable(seen)
GovernedRecoveriesAgree(P) == RecoveriesAgree(P)

GovernedRecover ==
  /\ pc = "recover"
  /\ recovered' = OpenPositions(View(generation))
  /\ GovernedRecoveriesAgree(recovered')
  /\ GovernedUsable(watched)
  /\ AnchorEnabled
  /\ pc' = "gate"
  /\ UNCHANGED <<world, operator, journal, watched, memory, cycle>>

GovernedPredecessorValid == PredecessorValid
GovernedConsumed == Consumed(Predecessor)
GovernedTakeOver == TakeOver

GovernedGate ==
  /\ pc = "gate"
  /\ GovernedPredecessorValid
  /\ Continues(GovernedConsumed)
  /\ GovernedTakeOver

GovernedUpdate == UpdatePosition
GovernedRefreshed == Refreshed

GovernedRefresh ==
  /\ pc = "refresh"
  /\ pc' = IF GovernedRefreshed THEN "health" ELSE "update"
  /\ UNCHANGED <<world, operator, journal, watched, recovered, memory, anchor, enabled, cycle>>

\* The kill switch, the terminal and the account.
GovernedHealthy == Healthy

GovernedHealth ==
  /\ pc = "health"
  /\ \/ pc' = "update"
     \/ GovernedHealthy /\ pc' = "bars"
  /\ UNCHANGED <<world, operator, journal, watched, recovered, memory, anchor, enabled, cycle>>

GovernedTransitions == FindTransitions
GovernedSnapshots == TakeSnapshots
GovernedAuthorities == AskAuthorities
GovernedEntries == WatchEntries
GovernedArbitrate == Arbitrate
GovernedFinalWatch == FinalWatch
GovernedRevalidate == RevalidateEntry

GovernedSafe == Safe

GovernedFinalGovernor ==
  /\ pc = "governor"
  /\ \/ Again
     \/ GovernedSafe /\ pc' = "open" /\ UNCHANGED cycle
  /\ UNCHANGED <<world, operator, journal, watched, recovered, memory, anchor, enabled>>

GovernedOpen == OpenShadow
GovernedPostOpen == PostOpen
GovernedEndCycle == EndCycle

GovernedCycle ==
  \/ GovernedUpdate \/ GovernedRefresh \/ GovernedHealth
  \/ GovernedTransitions \/ GovernedSnapshots \/ GovernedAuthorities \/ GovernedEntries
  \/ GovernedArbitrate \/ GovernedFinalWatch \/ GovernedRevalidate \/ GovernedFinalGovernor
  \/ GovernedOpen \/ GovernedPostOpen \/ GovernedEndCycle
=============================================================================
