------------------------- MODULE LivePolicySession -------------------------
(***************************************************************************)
(* Program 14.5a, the first of the chain: it has no predecessor, recovers  *)
(* no portfolio and knows neither watchdog nor governor.  Its loop is the  *)
(* one the later programs were built around; where its code does the same  *)
(* as theirs, the step is theirs.                                          *)
(*                                                                         *)
(* It does not recover the journal of a symbol that could not be observed  *)
(* at startup, and may then open a position next to the one it does not    *)
(* know of; ObservedAtStart supposes that its operator never let that      *)
(* happen.  14.5b.1 refuses to start instead, and 14.5c recovers all.      *)
(***************************************************************************)
EXTENDS ShadowLiveSession

CONSTANT ObservedAtStart  \* was 14.5a only used with every symbol observable?

ASSUME ObservedAssumption == ObservedAtStart \in BOOLEAN

PolicyStart(list) == StartSession(list)

\* Symbols whose first observation and symbol information is usable.
PolicyObserved == {seen \in SUBSET watched : ObservedAtStart => seen = watched}

\* Only their journals are read, each on its own.
PolicyRecovered(seen) ==
  {p \in OpenPositions(View(generation)) :
     p.symbol \in seen /\ LifecycleValid(View(generation)[p.symbol])}

\* Mutation: a symbol without history loses its position too.
PolicyRecoverEnabled ==
  /\ pc = "recover"
  /\ \E seen \in PolicyObserved : EnableUsable(seen)
  /\ recovered' = PolicyRecovered(enabled')
  /\ AnchorEnabled
  /\ pc' = "gate"
  /\ UNCHANGED <<world, operator, journal, watched, memory, cycle>>

\* A symbol without history is disabled after its position was recovered.
PolicyRecover ==
  /\ pc = "recover"
  /\ \E seen \in PolicyObserved : recovered' = PolicyRecovered(seen) /\ EnableUsable(seen)
  /\ AnchorEnabled
  /\ pc' = "gate"
  /\ UNCHANGED <<world, operator, journal, watched, memory, cycle>>

PolicyTakeOver == pc = "gate" /\ TakeOver

\* The candidates are looked for right after the position was monitored.
PolicyUpdate == pc = "update" /\ Monitor /\ pc' = "bars"

PolicyTransitions == FindTransitions
PolicySnapshots == TakeSnapshots
PolicyAuthorities == AskAuthorities
PolicyEntries == WatchEntries

\* The governor is told of no open position: with one in memory nothing is
\* chosen, without one there should be none.
PolicyArbitrate == Choose({})

PolicyFinalWatch == FinalWatch

PolicyRevalidate ==
  /\ pc = "revalidate"
  /\ \/ pc' = "end"
     \/ (\A s \in selected : GovernorAllows(s, {})) /\ pc' = "open"
  /\ UNCHANGED <<world, operator, journal, watched, recovered, memory, anchor, enabled, cycle>>

PolicyOpen == OpenSelected("end")

PolicyEndCycle == EndCycle

PolicyCycle ==
  \/ PolicyUpdate \/ PolicyTransitions \/ PolicySnapshots \/ PolicyAuthorities
  \/ PolicyEntries \/ PolicyArbitrate \/ PolicyFinalWatch \/ PolicyRevalidate
  \/ PolicyOpen \/ PolicyEndCycle
=============================================================================
