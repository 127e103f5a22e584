------------------- MODULE PairedForwardEvidence_proofs -------------------
(***************************************************************************)
(* Proofs about PairedForwardEvidence, for every set of pairs, every       *)
(* schedule of entry windows and any number of stops.                      *)
(***************************************************************************)
EXTENDS PairedForwardEvidence, TLAPS

LEMMA ConstantFacts ==
  /\ AnyPair \in Pair
  /\ End \in Nat /\ None \notin Instant
  /\ \A t \in Instant : t \in Int
BY PairAssumption, TimeAssumption DEF AnyPair, None, Instant

\* What an update of one entry of a table, or of one branch of it, keeps.
LEMMA TableUpdate ==
  ASSUME NEW S, NEW T, NEW f \in [S -> T], NEW s \in S, NEW t \in T
  PROVE  [f EXCEPT ![s] = t] \in [S -> T]
OBVIOUS

LEMMA BranchUpdate ==
  ASSUME NEW S, NEW U, NEW T, NEW f \in [S -> [U -> T]],
         NEW s \in S, NEW u \in U, NEW t \in T
  PROVE  [f EXCEPT ![s][u] = t] \in [S -> [U -> T]]
OBVIOUS

\* A further phase of a pair, as every append to the evidence journal adds one.
LEMMA PhaseAdded ==
  ASSUME events \in [Pair -> SUBSET Phase], NEW p \in Pair, NEW phase \in Phase
  PROVE  [events EXCEPT ![p] = @ \cup {phase}] \in [Pair -> SUBSET Phase]
<1>1. events[p] \cup {phase} \in SUBSET Phase
  OBVIOUS
<1> QED
  BY <1>1, TableUpdate

\* Every step keeps the types.
LEMMA TypeStep ==
  ASSUME TypeOK, [Next]_vars
  PROVE  TypeOK'
<1> USE ConstantFacts DEF TypeOK
<1>1. CASE Start
  BY <1>1 DEF Start, StartSupervisor, StartCollector, StartManager, Launch,
    Pending, Has, evidence, journals, environment, Branch
<1>2. CASE Stop
  BY <1>2, StopAssumption DEF Stop, Unwind, evidence, journals, Branch
<1>3. CASE Tick
  BY <1>3, TimeAssumption DEF Tick, evidence, journals, process, Instant
<1>4. CASE MarketTick
  BY <1>4 DEF MarketTick, evidence, journals, process
<1>5. CASE CaptureBoundary \/ MissBoundary
  BY <1>5 DEF CaptureBoundary, MissBoundary, Due, Unwind, evidence, journals,
    environment, Branch
<1>6. ASSUME NEW p \in Pair, CollectDecision(p) \/ ResumePending(p) PROVE TypeOK'
  <2>1. CASE CollectDecision(p)
    <3>1. events' \in [Pair -> SUBSET Phase]
      BY <2>1, PhaseAdded DEF CollectDecision, Phase
    <3>2. eligible' \in [Pair -> SUBSET Branch]
      BY <2>1, TableUpdate DEF CollectDecision
    <3> QED
      BY <2>1, <3>1, <3>2 DEF CollectDecision, journals, environment
  <2>2. CASE ResumePending(p)
    BY <2>2 DEF ResumePending, evidence, journals, environment
  <2> QED
    BY <1>6, <2>1, <2>2
<1>7. CASE BeginEntry \/ RecheckWindow \/ FreezeIntent
  <2>1. events' \in [Pair -> SUBSET Phase]
    <3>1. \/ UNCHANGED events
          \/ events' = [events EXCEPT ![at] = @ \cup {"entry"}]
          \/ events' = [events EXCEPT ![at] = @ \cup {"entry_input"}]
      BY <1>7 DEF BeginEntry, RecheckWindow, FreezeIntent, RecordMissedEntry, evidence
    <3>2. [events EXCEPT ![at] = @ \cup {"entry"}] \in [Pair -> SUBSET Phase]
      BY PhaseAdded DEF Phase
    <3>3. [events EXCEPT ![at] = @ \cup {"entry_input"}] \in [Pair -> SUBSET Phase]
      BY PhaseAdded DEF Phase
    <3> QED
      BY <3>1, <3>2, <3>3
  <2>2. UNCHANGED <<eligible, actual, input, terminal, pos, close, ledger>>
    BY <1>7 DEF BeginEntry, RecheckWindow, FreezeIntent, RecordMissedEntry, evidence, journals
  <2> QED
    BY <1>7, <2>1, <2>2 DEF BeginEntry, RecheckWindow, FreezeIntent, RecordMissedEntry, EntryDone,
      Unwind, environment, Branch
<1>8. ASSUME NEW b \in Branch, OpenBranch(b) PROVE TypeOK'
  <2>1. pos' \in [Pair -> [Branch -> {"none", "open", "closed"}]]
    <3>1. UNCHANGED pos \/ pos' = [pos EXCEPT ![at][b] = "open"] \/
            pos' = [pos EXCEPT ![at][b] = pos[at][b]]
      BY <1>8 DEF OpenBranch
    <3>2. [pos EXCEPT ![at][b] = "open"] \in [Pair -> [Branch -> {"none", "open", "closed"}]]
      BY BranchUpdate
    <3>3. [pos EXCEPT ![at][b] = pos[at][b]] \in [Pair -> [Branch -> {"none", "open", "closed"}]]
      <4>1. pos[at][b] \in {"none", "open", "closed"}
        OBVIOUS
      <4> QED
        BY <4>1, BranchUpdate
    <3> QED
      BY <3>1, <3>2, <3>3
  <2> QED
    BY <1>8, <2>1 DEF OpenBranch, evidence, environment, Branch
<1>9. CASE RecordEntry \/ EntriesDone
  <2>1. CASE RecordEntry
    <3>1. events' \in [Pair -> SUBSET Phase]
      BY <2>1, PhaseAdded DEF RecordEntry, Phase
    <3>2. actual' \in [Pair -> SUBSET Branch]
      BY <2>1, TableUpdate DEF RecordEntry
    <3> QED
      BY <2>1, <3>1, <3>2 DEF RecordEntry, EntryDone, journals, environment
  <2>2. CASE EntriesDone
    BY <2>2 DEF EntriesDone, Outstanding, Unwind, evidence, journals, environment, Branch
  <2> QED
    BY <1>9, <2>1, <2>2
<1>10. CASE Poll \/ Preflight \/ PreflightFails
  BY <1>10 DEF Poll, Preflight, PreflightFails, Outstanding, Unwind, evidence,
    journals, environment, Branch
<1>11. ASSUME NEW x \in Pair \X Branch, NextBranch(x) PROVE TypeOK'
  BY <1>11 DEF NextBranch, evidence, journals, environment
<1>12. CASE CrossEnd \/ RecordBoundaryAuthority \/ Hold
  <2>1. CASE CrossEnd \/ Hold
    BY <2>1 DEF CrossEnd, Hold, Visited, Unwind, evidence, journals, environment, Branch
  <2>2. CASE RecordBoundaryAuthority
    <3>1. events' \in [Pair -> SUBSET Phase]
      BY <2>2, PhaseAdded DEF RecordBoundaryAuthority, Phase
    <3> QED
      BY <2>2, <3>1 DEF RecordBoundaryAuthority, journals, process, environment
  <2> QED
    BY <1>12, <2>1, <2>2
<1>13. CASE FreezeTrigger \/ FreezeTimebox \/ ReplayTerminalInput
  <2>1. input' \in [Pair -> [Branch -> Instant \cup {None}]]
    <3>1. UNCHANGED input \/ input' = [input EXCEPT ![at][arm] = obs]
      BY <1>13 DEF FreezeTrigger, FreezeTimebox, FreezeInput, ReplayTerminalInput, evidence
    <3>2. [input EXCEPT ![at][arm] = obs] \in [Pair -> [Branch -> Instant \cup {None}]]
      BY BranchUpdate
    <3> QED
      BY <3>1, <3>2
  <2> QED
    BY <1>13, <2>1 DEF FreezeTrigger, FreezeTimebox, FreezeInput, ReplayTerminalInput,
      evidence, journals,
      environment
<1>14. CASE ClosePosition \/ AppendTerminal \/ PassDone
  <2>1. CASE ClosePosition
    <3>1. pos' \in [Pair -> [Branch -> {"none", "open", "closed"}]]
      BY <2>1, BranchUpdate DEF ClosePosition
    <3>2. close' \in [Pair -> [Branch -> Instant \cup {None}]]
      BY <2>1, BranchUpdate DEF ClosePosition
    <3> QED
      BY <2>1, <3>1, <3>2 DEF ClosePosition, evidence, environment
  <2>2. CASE AppendTerminal
    <3>1. terminal' \in [Pair -> [Branch -> Instant \cup {None}]]
      BY <2>2, BranchUpdate DEF AppendTerminal
    <3> QED
      BY <2>2, <3>1 DEF AppendTerminal, Visited, journals, environment
  <2>3. CASE PassDone
    BY <2>3 DEF PassDone, evidence, journals, environment
  <2> QED
    BY <1>14, <2>1, <2>2, <2>3
<1>15. ASSUME NEW p \in Pair, FinalizeSettlement(p) PROVE TypeOK'
  <2>1. events' \in [Pair -> SUBSET Phase]
    BY <1>15, PhaseAdded DEF FinalizeSettlement, Phase
  <2> QED
    BY <1>15, <2>1 DEF FinalizeSettlement, journals, process, environment
<1>16. CASE SettlementsDone \/ FinishSupervisor \/ ManagerDone
  BY <1>16 DEF SettlementsDone, FinishSupervisor, ManagerDone, Unwind, evidence,
    journals, environment, Branch
<1>17. CASE UNCHANGED vars
  BY <1>17 DEF vars, evidence, journals, process, environment
<1> QED
  BY <1>1, <1>2, <1>3, <1>4, <1>5, <1>6, <1>7, <1>8, <1>9, <1>10, <1>11, <1>12,
    <1>13, <1>14, <1>15, <1>16, <1>17 DEF Next, Step

\* Every variable keeps its type: in particular the clock stays inside the
\* experiment and the number of stops inside its bound.
THEOREM TypeCorrect == Spec => []TypeOK
<1>1. Init => TypeOK
  BY ConstantFacts, TimeAssumption, StopAssumption
  DEF Init, TypeOK, Instant, Branch, Phase
<1>2. TypeOK /\ [Next]_vars => TypeOK'
  BY TypeStep
<1> QED
  BY <1>1, <1>2, PTL DEF Spec

-----------------------------------------------------------------------------
(* The inductive invariant. *)

\* The parts of the invariant that speak of durable evidence only.
DurableParts ==
  /\ PhasesInOrder /\ PositionsFollowIntent
  /\ CandidateNeedsBaseline /\ NoOrphanPosition
  /\ FrozenSettlement /\ SettlementComplete

\* They cannot be disturbed by a step that writes nothing.
LEMMA NothingWritten ==
  ASSUME Inductive, UNCHANGED <<evidence, journals>>, now' \in Instant, now <= now'
  PROVE  DurableParts'
<1> USE ConstantFacts DEF Inductive, TypeOK, evidence, journals
<1>1. PhasesInOrder'
  <2>1. \A p \in Pair : EntryAt[p] \in Int
    BY TimeAssumption
  <2>2. now \in Int /\ now' \in Int
    OBVIOUS
  <2> QED
    BY <2>1, <2>2 DEF PhasesInOrder, Has
<1>2. PositionsFollowIntent' /\ CandidateNeedsBaseline' /\ NoOrphanPosition'
  BY DEF PositionsFollowIntent, CandidateNeedsBaseline, NoOrphanPosition, Has
<1>3. FrozenSettlement' /\ SettlementComplete'
  BY DEF FrozenSettlement, SettlementComplete, Has
<1> QED
  BY <1>1, <1>2, <1>3 DEF DurableParts

LEMMA InductiveInit == Init => Inductive
<1> SUFFICES ASSUME Init PROVE Inductive
  OBVIOUS
<1> USE ConstantFacts
<1>1. TypeOK
  BY TimeAssumption, StopAssumption DEF Init, TypeOK, Instant, Branch, Phase
<1>2. PhasesInOrder /\ PositionsFollowIntent /\ CandidateNeedsBaseline
  BY DEF Init, PhasesInOrder, PositionsFollowIntent, CandidateNeedsBaseline, Has, Branch
<1>3. QueueIsFresh /\ EntryInProgress /\ CloseInProgress
  BY DEF Init, QueueIsFresh, EntryInProgress, CloseInProgress, Entering, Closing
<1>4. NoOrphanPosition /\ FrozenSettlement /\ SettlementComplete
  BY DEF Init, NoOrphanPosition, FrozenSettlement, SettlementComplete, Has, Branch
<1> QED
  BY <1>1, <1>2, <1>3, <1>4 DEF Inductive

\* Steps that write nothing only have to account for the process.
LEMMA QuietStep ==
  ASSUME Inductive, TypeOK', UNCHANGED <<evidence, journals>>, now <= now',
         QueueIsFresh', EntryInProgress', CloseInProgress'
  PROVE  Inductive'
<1>1. DurableParts'
  BY NothingWritten DEF TypeOK
<1> QED
  BY <1>1 DEF Inductive, DurableParts

LEMMA LaunchAndUnwind ==
  ASSUME Inductive, TypeOK', Start \/ Stop \/ MissBoundary \/ PreflightFails \/ CrossEnd
           \/ FinishSupervisor \/ ManagerDone
  PROVE  Inductive'
<1> USE ConstantFacts
<1>1. UNCHANGED <<evidence, journals>> /\ now' = now
  BY DEF Start, StartSupervisor, StartCollector, StartManager, Launch, Stop,
    MissBoundary, PreflightFails, CrossEnd, FinishSupervisor, ManagerDone, environment
<1>2. now <= now'
  BY <1>1 DEF Inductive, TypeOK
<1>3. todo' = {} /\ pc' \in {"idle", "next"}
  BY DEF Start, StartSupervisor, StartCollector, StartManager, Launch, Stop, Unwind,
    MissBoundary, PreflightFails, CrossEnd, FinishSupervisor, ManagerDone
<1>4. EntryInProgress' /\ CloseInProgress'
  BY <1>3 DEF EntryInProgress, CloseInProgress, Entering, Closing
<1>5. QueueIsFresh'
  <2>1. CASE StartSupervisor
    BY <2>1 DEF StartSupervisor, Launch, QueueIsFresh, Entering
  <2>2. ASSUME NEW p \in Pair, StartCollector(p) PROVE QueueIsFresh'
    <3>1. \A q \in Pair : EntryAt[q] \in Int
      BY TimeAssumption
    <3>2. now \in Int
      BY DEF Inductive, TypeOK
    <3>3. \A q \in queue' : events[q] = {}
      BY <2>2, <3>1, <3>2 DEF StartCollector, Launch, Inductive, PhasesInOrder
    <3> QED
      BY <2>2, <3>3, <1>1 DEF StartCollector, Launch, QueueIsFresh, evidence, Entering
  <2>3. CASE StartManager
    BY <2>3, <1>1 DEF StartManager, Launch, Pending, QueueIsFresh, evidence, Has
  <2>4. CASE Stop \/ MissBoundary \/ PreflightFails \/ CrossEnd \/ FinishSupervisor
               \/ ManagerDone
    BY <2>4 DEF Stop, Unwind, MissBoundary, PreflightFails, CrossEnd, FinishSupervisor,
      ManagerDone, QueueIsFresh, Entering
  <2> QED
    BY <2>1, <2>2, <2>3, <2>4 DEF Start
<1> QED
  BY <1>1, <1>2, <1>4, <1>5, QuietStep

\* A step that writes nothing but moves the clock, the market or the process on.
LEMMA QuietActions ==
  ASSUME Inductive, TypeOK',
         \/ Tick \/ MarketTick \/ CaptureBoundary \/ EntriesDone \/ Poll \/ Preflight
         \/ Hold \/ ReplayTerminalInput \/ PassDone \/ SettlementsDone
         \/ \E p \in Pair : ResumePending(p)
         \/ \E x \in Pair \X Branch : NextBranch(x)
         \/ UNCHANGED vars
  PROVE  Inductive'
<1> USE ConstantFacts
<1>0. \A p \in Pair : EntryAt[p] \in Int
  BY TimeAssumption
<1>1. CASE Tick \/ MarketTick \/ UNCHANGED vars
  <2>1. UNCHANGED <<evidence, journals, process>> /\ now <= now'
    BY <1>1 DEF Tick, MarketTick, vars, environment, Inductive, TypeOK
  <2>2. EntryInProgress' /\ CloseInProgress'
    BY <2>1 DEF Inductive, EntryInProgress, CloseInProgress, evidence, journals, process, Has
  <2>3. QueueIsFresh'
    <3>1. now \in Int /\ now' \in Int /\ queue \subseteq Pair
      BY DEF Inductive, TypeOK
    <3> QED
      BY <2>1, <3>1, <1>0 DEF Inductive, QueueIsFresh, evidence, process, Has
  <2> QED
    BY <2>1, <2>2, <2>3, QuietStep
<1>2. CASE CaptureBoundary
  <2>1. UNCHANGED <<evidence, journals>> /\ now' = now /\ now <= now'
    BY <1>2 DEF CaptureBoundary, environment, Inductive, TypeOK
  <2>2. EntryInProgress' /\ CloseInProgress'
    BY <1>2 DEF CaptureBoundary, Inductive, EntryInProgress, CloseInProgress, Entering,
      Closing, evidence, Has
  <2>3. \A p \in queue' : EntryAt[p] <= now /\ events[p] = {}
    BY <1>2, <1>0 DEF CaptureBoundary, Due, InEntryWindow, Undecided, Inductive, TypeOK,
      PhasesInOrder, QueueIsFresh
  <2>4. QueueIsFresh'
    BY <1>2, <2>1, <2>3 DEF CaptureBoundary, QueueIsFresh, evidence
  <2> QED
    BY <2>1, <2>2, <2>4, QuietStep
<1>3. ASSUME NEW p \in Pair, ResumePending(p) PROVE Inductive'
  <2>1. UNCHANGED <<evidence, journals>> /\ now' = now /\ now <= now'
    BY <1>3 DEF ResumePending, environment, Inductive, TypeOK
  <2>2. QueueIsFresh'
    BY <1>3, <2>1 DEF ResumePending, Inductive, QueueIsFresh, Entering, evidence, Has
  <2>3. EntryInProgress' /\ CloseInProgress'
    BY <1>3, <2>1 DEF ResumePending, Inductive, QueueIsFresh, EntryInProgress,
      CloseInProgress, Entering, Closing, evidence, Has
  <2> QED
    BY <2>1, <2>2, <2>3, QuietStep
<1>4. CASE EntriesDone \/ Poll \/ Preflight \/ PassDone \/ SettlementsDone
  <2>1. UNCHANGED <<evidence, journals>> /\ now' = now /\ now <= now'
    BY <1>4 DEF EntriesDone, Poll, Preflight, PassDone, SettlementsDone, environment,
      Inductive, TypeOK
  <2>2. pc' \in {"preflight", "branch", "settle", "audit", "idle"} /\ mode' # "collect"
    BY <1>4 DEF EntriesDone, Poll, Preflight, PassDone, SettlementsDone, Unwind, Inductive,
      QueueIsFresh, Entering
  <2>4. QueueIsFresh' /\ EntryInProgress'
    BY <2>2 DEF QueueIsFresh, EntryInProgress, Entering
  <2>5. CloseInProgress'
    <3>1. todo' \subseteq todo \cup Outstanding
      BY <1>4 DEF EntriesDone, Poll, Preflight, PassDone, SettlementsDone, Unwind
    <3>2. \A x \in todo' : Has(x[1], "entry")
      BY <3>1 DEF Outstanding, Inductive, CloseInProgress
    <3> QED
      BY <2>1, <2>2, <3>2 DEF CloseInProgress, Closing, evidence, Has
  <2> QED
    BY <2>1, <2>4, <2>5, QuietStep
<1>5. CASE Hold \/ ReplayTerminalInput
  <2>1. UNCHANGED <<evidence, journals>> /\ now' = now /\ now <= now'
    BY <1>5 DEF Hold, ReplayTerminalInput, environment, Inductive, TypeOK
  <2>2. pc' \in {"branch", "close", "terminal"} /\ mode' # "collect"
    BY <1>5 DEF Hold, ReplayTerminalInput, Visited, Inductive, QueueIsFresh, Entering
  <2>3. QueueIsFresh' /\ EntryInProgress'
    BY <2>2 DEF QueueIsFresh, EntryInProgress, Entering
  <2>4. CloseInProgress'
    BY <1>5, <2>1 DEF Hold, ReplayTerminalInput, Visited, Inductive, CloseInProgress,
      Closing, evidence, journals, Has
  <2> QED
    BY <2>1, <2>3, <2>4, QuietStep
<1>6. ASSUME NEW x \in Pair \X Branch, NextBranch(x) PROVE Inductive'
  <2>1. UNCHANGED <<evidence, journals>> /\ now' = now /\ now <= now'
    BY <1>6 DEF NextBranch, environment, Inductive, TypeOK
  <2>2. QueueIsFresh' /\ EntryInProgress'
    BY <1>6 DEF NextBranch, Inductive, QueueIsFresh, EntryInProgress, Entering
  <2>3. CloseInProgress'
    BY <1>6, <2>1 DEF NextBranch, Inductive, CloseInProgress, Closing, evidence, Has
  <2> QED
    BY <2>1, <2>2, <2>3, QuietStep
<1> QED
  BY <1>1, <1>2, <1>3, <1>4, <1>5, <1>6

\* What is known of the phases after a further one of pair p became durable.
LEMMA PhaseKnown ==
  ASSUME TypeOK, NEW p \in Pair, NEW phase \in Phase,
         events' = [events EXCEPT ![p] = @ \cup {phase}]
  PROVE  /\ \A q \in Pair : q # p => events'[q] = events[q]
         /\ \A q \in Pair, f \in Phase : Has(q, f)' <=> Has(q, f) \/ (q = p /\ f = phase)
BY DEF TypeOK, Has

LEMMA DecisionStep ==
  ASSUME Inductive, TypeOK', NEW p \in Pair, CollectDecision(p)
  PROVE  Inductive'
<1> USE ConstantFacts DEF Phase
<1>1. /\ events' = [events EXCEPT ![p] = @ \cup {"decision"}]
      /\ UNCHANGED <<actual, input, terminal, pos, close, mode, queue, todo, now>>
      /\ mode \in {"supervise", "collect"} /\ pc = "next" /\ p \in queue
      /\ at' = p /\ pc' = "entry"
      /\ \A q \in Pair : q # p => eligible'[q] = eligible[q]
  BY DEF CollectDecision, journals, environment, Inductive, TypeOK
<1>2. /\ \A q \in Pair : q # p => events'[q] = events[q]
      /\ \A q \in Pair, f \in Phase : Has(q, f)' <=> Has(q, f) \/ (q = p /\ f = "decision")
  BY <1>1, PhaseKnown DEF Inductive
<1>3. events[p] = {} /\ EntryAt[p] <= now /\ \A q \in queue : EntryAt[q] <= now /\ events[q] = {}
  BY <1>1 DEF Inductive, QueueIsFresh
<1>4. PhasesInOrder'
  BY <1>1, <1>2, <1>3 DEF Inductive, PhasesInOrder
<1>5. PositionsFollowIntent'
  <2>1. \A b \in Branch : pos[p][b] = "none"
    BY <1>3 DEF Inductive, PositionsFollowIntent, Has
  <2> QED
    BY <1>1, <1>2, <2>1 DEF Inductive, PositionsFollowIntent
<1>6. QueueIsFresh'
  BY <1>1, <1>2, <1>3 DEF Inductive, TypeOK, QueueIsFresh, Entering
<1>7. EntryInProgress' /\ CloseInProgress'
  <2>1. \A x \in todo : x[1] \in Pair
    BY DEF Inductive, TypeOK
  <2> QED
    BY <1>1, <1>2, <1>3, <2>1 DEF Inductive, EntryInProgress, CloseInProgress, Closing, Has
<1>8. CandidateNeedsBaseline' /\ NoOrphanPosition' /\ FrozenSettlement' /\ SettlementComplete'
  BY <1>1, <1>2 DEF Inductive, CandidateNeedsBaseline, NoOrphanPosition, FrozenSettlement,
    SettlementComplete
<1> QED
  BY <1>4, <1>5, <1>6, <1>7, <1>8 DEF Inductive

\* The entry event of the pair at hand, with the branches that were opened.
LEMMA EntryWritten ==
  ASSUME Inductive, TypeOK', pc \in Entering,
         events' = [events EXCEPT ![at] = @ \cup {"entry"}],
         UNCHANGED <<eligible, input, terminal, pos, close, now>>, todo' \subseteq todo,
         \A p \in Pair : p # at => actual'[p] = actual[p],
         \A b \in Branch : b \in actual'[at] <=> pos[at][b] # "none",
         \/ pc' = "next" /\ queue' = queue \ {at} /\ mode' = mode
         \/ pc' = "idle" /\ mode' = "down"
  PROVE  Inductive'
<1> USE ConstantFacts DEF Phase, Branch
<1>1. /\ \A q \in Pair : q # at => events'[q] = events[q]
      /\ \A q \in Pair, f \in Phase : Has(q, f)' <=> Has(q, f) \/ (q = at /\ f = "entry")
  <2>1. TypeOK /\ at \in Pair /\ "entry" \in Phase
    BY DEF Inductive, TypeOK
  <2> QED
    BY <2>1, PhaseKnown
<1>2. at \in Pair /\ Has(at, "decision") /\ ~Has(at, "entry")
  BY DEF Inductive, TypeOK, EntryInProgress
<1>3. PhasesInOrder' /\ PositionsFollowIntent'
  BY <1>1, <1>2 DEF Inductive, PhasesInOrder, PositionsFollowIntent
<1>4. QueueIsFresh'
  BY <1>1, <1>2 DEF Inductive, TypeOK, QueueIsFresh, Entering
<1>5. EntryInProgress' /\ CloseInProgress'
  <2>1. \A x \in todo : x[1] \in Pair
    BY DEF Inductive, TypeOK
  <2> QED
    BY <1>1, <2>1 DEF Inductive, EntryInProgress, CloseInProgress, Entering, Closing
<1>6. CandidateNeedsBaseline' /\ NoOrphanPosition'
  BY <1>1, <1>2 DEF Inductive, CandidateNeedsBaseline, NoOrphanPosition
<1>7. FrozenSettlement'
  BY DEF Inductive, FrozenSettlement
<1>8. SettlementComplete'
  BY <1>1, <1>2 DEF Inductive, PhasesInOrder, SettlementComplete
<1> QED
  BY <1>3, <1>4, <1>5, <1>6, <1>7, <1>8 DEF Inductive

\* No trade: the window passed with no intent, so with no position either.
LEMMA MissedEntryStep ==
  ASSUME Inductive, TypeOK', pc \in {"entry", "intent"}, ~Has(at, "entry_input"),
         RecordMissedEntry
  PROVE  Inductive'
<1>1. at \in Pair
  BY DEF Inductive, TypeOK
<1>2. \A b \in Branch : pos[at][b] = "none" /\ b \notin actual[at]
  BY <1>1 DEF Inductive, PositionsFollowIntent, EntryInProgress, PhasesInOrder, Entering
<1>3. /\ todo' \subseteq todo
      /\ \/ pc' = "next" /\ queue' = queue \ {at} /\ mode' = mode
         \/ pc' = "idle" /\ mode' = "down"
  BY DEF RecordMissedEntry, EntryDone, Unwind
<1> QED
  BY <1>1, <1>2, <1>3, EntryWritten DEF RecordMissedEntry, journals, environment, Entering

LEMMA EntryActions ==
  ASSUME Inductive, TypeOK', BeginEntry \/ RecheckWindow \/ FreezeIntent \/ RecordEntry
  PROVE  Inductive'
<1> USE ConstantFacts DEF Phase
<1>0. at \in Pair /\ now \in Int
  BY DEF Inductive, TypeOK
<1>1. CASE BeginEntry
  <2>1. CASE RecordMissedEntry /\ ~Has(at, "entry_input")
    BY <1>1, <2>1, MissedEntryStep DEF BeginEntry
  <2>2. CASE ~(RecordMissedEntry /\ ~Has(at, "entry_input"))
    <3>1. /\ UNCHANGED <<evidence, journals, mode, queue, todo, at>> /\ now' = now /\ now <= now'
          /\ pc = "entry"
          /\ \/ pc' = "baseline" /\ opened' = {} /\ Has(at, "entry_input")
             \/ pc' = "intent" /\ ~Has(at, "entry_input")
      BY <1>0, <1>1, <2>2 DEF BeginEntry, environment
    <3>2. QueueIsFresh'
      BY <3>1 DEF Inductive, QueueIsFresh, Entering, evidence, Has
    <3>3. EntryInProgress' /\ CloseInProgress'
      BY <3>1 DEF Inductive, EntryInProgress, CloseInProgress, Entering, Closing, evidence, Has
    <3> QED
      BY <3>1, <3>2, <3>3, QuietStep
  <2> QED
    BY <2>1, <2>2
<1>2. CASE RecheckWindow
  <2>1. ~Has(at, "entry_input")
    BY <1>2 DEF RecheckWindow, Inductive, EntryInProgress
  <2>2. CASE RecordMissedEntry
    BY <1>2, <2>1, <2>2, MissedEntryStep DEF RecheckWindow
  <2>3. CASE ~RecordMissedEntry
    <3>1. /\ UNCHANGED <<evidence, journals, mode, queue, todo, at>> /\ now' = now /\ now <= now'
          /\ pc = "intent" /\ pc' = "write"
      BY <1>0, <1>2, <2>3 DEF RecheckWindow, environment
    <3>2. QueueIsFresh'
      BY <3>1 DEF Inductive, QueueIsFresh, Entering, evidence, Has
    <3>3. EntryInProgress' /\ CloseInProgress'
      BY <2>1, <3>1 DEF Inductive, EntryInProgress, CloseInProgress, Entering, Closing,
        evidence, Has
    <3> QED
      BY <3>1, <3>2, <3>3, QuietStep
  <2> QED
    BY <2>2, <2>3
<1>3. CASE FreezeIntent
  <2>1. /\ events' = [events EXCEPT ![at] = @ \cup {"entry_input"}]
        /\ UNCHANGED <<eligible, actual, input, terminal, pos, close, mode, queue, todo, at, now>>
        /\ pc = "write" /\ pc' = "baseline" /\ opened' = {}
    BY <1>3 DEF FreezeIntent, journals, environment
  <2>2. /\ \A q \in Pair : q # at => events'[q] = events[q]
        /\ \A q \in Pair, f \in Phase :
             Has(q, f)' <=> Has(q, f) \/ (q = at /\ f = "entry_input")
    BY <1>0, <2>1, PhaseKnown DEF Inductive
  <2>3. Has(at, "decision") /\ ~Has(at, "entry")
    BY <2>1 DEF Inductive, EntryInProgress, Entering
  <2>4. PhasesInOrder' /\ PositionsFollowIntent'
    BY <2>1, <2>2, <2>3 DEF Inductive, PhasesInOrder, PositionsFollowIntent
  <2>5. QueueIsFresh'
    BY <2>1, <2>2 DEF Inductive, TypeOK, QueueIsFresh, Entering
  <2>6. EntryInProgress'
    BY <1>0, <2>1, <2>2, <2>3 DEF EntryInProgress
  <2>7. CloseInProgress'
    <3>1. \A x \in todo : x[1] \in Pair
      BY DEF Inductive, TypeOK
    <3> QED
      BY <2>1, <2>2, <3>1 DEF Inductive, CloseInProgress, Closing
  <2>8. CandidateNeedsBaseline' /\ NoOrphanPosition' /\ FrozenSettlement' /\ SettlementComplete'
    BY <2>1, <2>2 DEF Inductive, CandidateNeedsBaseline, NoOrphanPosition, FrozenSettlement,
      SettlementComplete
  <2> QED
    BY <2>4, <2>5, <2>6, <2>7, <2>8 DEF Inductive
<1>4. CASE RecordEntry
  <2>1. /\ \A p \in Pair : p # at => actual'[p] = actual[p]
        /\ actual'[at] = opened
    BY <1>0, <1>4 DEF RecordEntry, Inductive, TypeOK
  <2>2. \A b \in Branch : b \in actual'[at] <=> pos[at][b] # "none"
    BY <1>4, <2>1 DEF RecordEntry, Inductive, EntryInProgress, Branch
  <2> QED
    BY <1>4, <2>1, <2>2, EntryWritten DEF RecordEntry, EntryDone, Entering, journals, environment
<1> QED
  BY <1>1, <1>2, <1>3, <1>4

\* Opening a branch, recovering it, or finding it blocked.
LEMMA OpenStep ==
  ASSUME Inductive, TypeOK', NEW b \in Branch, OpenBranch(b)
  PROVE  Inductive'
<1> USE ConstantFacts DEF Branch
<1>1. /\ UNCHANGED <<evidence, close, mode, queue, todo, at, now>>
      /\ at \in Pair /\ now <= now'
      /\ pc = b /\ pc \in {"baseline", "candidate"}
      /\ pc' = IF b = "baseline" THEN "candidate" ELSE "record"
  BY DEF OpenBranch, environment, Inductive, TypeOK
<1>2. Has(at, "decision") /\ ~Has(at, "entry") /\ Has(at, "entry_input")
  BY <1>1 DEF Inductive, EntryInProgress, Entering
<1>3. QueueIsFresh' /\ CloseInProgress' /\ PhasesInOrder' /\ SettlementComplete'
  BY <1>1 DEF Inductive, QueueIsFresh, CloseInProgress, PhasesInOrder, SettlementComplete,
    Entering, Closing, evidence, Has
<1>4. CASE UNCHANGED <<opened, pos>>
  <2>1. \/ b \notin eligible[at]
        \/ b = "candidate" /\ "baseline" \notin opened
        \/ pos[at][b] = "none"
        \/ b \in opened
    BY <1>4 DEF OpenBranch
  <2>2. pos[at][b] # "none" => b \in opened
    BY <1>1, <2>1 DEF Inductive, PositionsFollowIntent, EntryInProgress, CandidateNeedsBaseline
  <2>3. EntryInProgress'
    BY <1>1, <1>2, <1>4, <2>2 DEF Inductive, EntryInProgress, Entering, evidence, Has
  <2>4. PositionsFollowIntent' /\ CandidateNeedsBaseline' /\ NoOrphanPosition' /\ FrozenSettlement'
    BY <1>1, <1>4 DEF Inductive, PositionsFollowIntent, CandidateNeedsBaseline,
      NoOrphanPosition, FrozenSettlement, evidence, Has
  <2> QED
    BY <1>3, <2>3, <2>4 DEF Inductive
<1>5. CASE ~ UNCHANGED <<opened, pos>>
  <2>1. /\ b \in eligible[at] /\ (b = "candidate" => "baseline" \in opened)
        /\ opened' = opened \cup {b}
        /\ pos' = [pos EXCEPT ![at][b] = IF @ = "none" THEN "open" ELSE @]
    BY <1>5 DEF OpenBranch
  <2>2. /\ \A p \in Pair, c \in Branch : p # at \/ c # b => pos'[p][c] = pos[p][c]
        /\ pos'[at][b] = IF pos[at][b] = "none" THEN "open" ELSE pos[at][b]
    BY <1>1, <2>1 DEF Inductive, TypeOK
  <2>3. pos'[at][b] # "none"
    BY <2>2
  <2>4. EntryInProgress'
    <3>1. CASE b = "baseline"
      BY <1>1, <1>2, <2>1, <2>3, <3>1 DEF Inductive, EntryInProgress, Entering, evidence, Has
    <3>2. CASE b = "candidate"
      BY <1>1, <1>2, <2>1, <2>2, <2>3, <3>2 DEF Inductive, EntryInProgress, Entering, evidence, Has
    <3> QED
      BY <3>1, <3>2
  <2>5. PositionsFollowIntent' /\ NoOrphanPosition'
    BY <1>1, <1>2, <2>1, <2>2 DEF Inductive, PositionsFollowIntent, NoOrphanPosition, evidence, Has
  <2>6. CandidateNeedsBaseline'
    BY <1>1, <2>1, <2>2, <2>3 DEF Inductive, EntryInProgress, CandidateNeedsBaseline, evidence
  <2>7. FrozenSettlement'
    BY <1>1, <2>2 DEF Inductive, FrozenSettlement, evidence
  <2> QED
    BY <1>3, <2>4, <2>5, <2>6, <2>7 DEF Inductive
<1> QED
  BY <1>4, <1>5

\* Freezing a terminal input, closing a position, recording the terminal.
LEMMA ClosingActions ==
  ASSUME Inductive, TypeOK', FreezeTrigger \/ FreezeTimebox \/ ClosePosition \/ AppendTerminal
  PROVE  Inductive'
<1> USE ConstantFacts
<1>1. /\ UNCHANGED <<events, eligible, actual, mode, queue, at, arm, now>>
      /\ at \in Pair /\ arm \in Branch
      /\ pc \in Closing /\ mode # "collect"
      /\ pc' \in {"close", "terminal", "branch"} /\ todo' \subseteq todo
  <2>1. pc \in Closing /\ pc' \in {"close", "terminal", "branch"}
    BY DEF FreezeTrigger, FreezeTimebox, FreezeInput, ClosePosition, AppendTerminal, Visited,
      Closing
  <2>2. /\ UNCHANGED <<events, eligible, actual, mode, queue, at, arm, now>>
        /\ todo' \subseteq todo
    BY DEF FreezeTrigger, FreezeTimebox, FreezeInput, ClosePosition, AppendTerminal, Visited,
      evidence, journals,
      environment
  <2>3. at \in Pair /\ arm \in Branch
    BY DEF Inductive, TypeOK
  <2>4. mode # "collect"
    BY <2>1 DEF Inductive, QueueIsFresh, Entering, Closing
  <2> QED
    BY <2>1, <2>2, <2>3, <2>4
<1>2. PhasesInOrder' /\ QueueIsFresh' /\ EntryInProgress'
  BY <1>1 DEF Inductive, PhasesInOrder, QueueIsFresh, EntryInProgress, Entering, Has
<1>3. (\A x \in todo' : Has(x[1], "entry")') /\ Has(at, "entry")'
  BY <1>1 DEF Inductive, CloseInProgress, Has
<1>4. CASE FreezeTrigger \/ FreezeTimebox
  <2>0. obs # None
    BY <1>4 DEF FreezeTrigger, FreezeTimebox, None
  <2>1. /\ UNCHANGED <<pos, close, terminal>> /\ pc' = "close"
        /\ pos[at][arm] = "open" /\ input[at][arm] = None /\ obs # None
        /\ input' = [input EXCEPT ![at][arm] = obs]
    BY <1>4, <2>0 DEF FreezeTrigger, FreezeTimebox, FreezeInput, journals
  <2>2. /\ \A p \in Pair, c \in Branch : p # at \/ c # arm => input'[p][c] = input[p][c]
        /\ input'[at][arm] # None
    BY <1>1, <2>1 DEF Inductive, TypeOK
  <2>3. CloseInProgress'
    BY <1>1, <1>3, <2>1, <2>2 DEF CloseInProgress
  <2>4. PositionsFollowIntent' /\ CandidateNeedsBaseline' /\ NoOrphanPosition' /\ SettlementComplete'
    BY <1>1, <2>1 DEF Inductive, PositionsFollowIntent, CandidateNeedsBaseline,
      NoOrphanPosition, SettlementComplete, Has
  <2>5. FrozenSettlement'
    BY <1>1, <2>1, <2>2 DEF Inductive, FrozenSettlement
  <2> QED
    BY <1>2, <2>3, <2>4, <2>5 DEF Inductive
<1>5. CASE ClosePosition
  <2>1. /\ UNCHANGED <<input, terminal>> /\ pc' = "terminal"
        /\ pos[at][arm] = "open" /\ input[at][arm] # None
        /\ pos' = [pos EXCEPT ![at][arm] = "closed"]
        /\ close' = [close EXCEPT ![at][arm] = input[at][arm]]
    BY <1>5 DEF ClosePosition, evidence, Inductive, CloseInProgress
  <2>2. /\ \A p \in Pair, c \in Branch : p # at \/ c # arm =>
             pos'[p][c] = pos[p][c] /\ close'[p][c] = close[p][c]
        /\ pos'[at][arm] = "closed" /\ close'[at][arm] = input[at][arm]
    BY <1>1, <2>1 DEF Inductive, TypeOK
  <2>3. CloseInProgress'
    BY <1>1, <1>3, <2>1, <2>2 DEF CloseInProgress
  <2>4. \A p \in Pair, c \in Branch : pos'[p][c] = "none" <=> pos[p][c] = "none"
    BY <2>1, <2>2
  <2>5. PositionsFollowIntent' /\ CandidateNeedsBaseline' /\ NoOrphanPosition' /\ SettlementComplete'
    BY <1>1, <2>1, <2>4 DEF Inductive, PositionsFollowIntent, CandidateNeedsBaseline,
      NoOrphanPosition, SettlementComplete, Has, Branch
  <2>6. FrozenSettlement'
    BY <1>1, <2>1, <2>2 DEF Inductive, FrozenSettlement
  <2> QED
    BY <1>2, <2>3, <2>5, <2>6 DEF Inductive
<1>6. CASE AppendTerminal
  <2>1. /\ UNCHANGED <<pos, close, input>> /\ pc' = "branch"
        /\ pos[at][arm] = "closed"
        /\ terminal' = [terminal EXCEPT ![at][arm] = close[at][arm]]
    BY <1>6 DEF AppendTerminal, Visited, journals, Inductive, CloseInProgress
  <2>2. /\ \A p \in Pair, c \in Branch : p # at \/ c # arm => terminal'[p][c] = terminal[p][c]
        /\ terminal'[at][arm] = close[at][arm] /\ close[at][arm] # None
    BY <1>1, <2>1 DEF Inductive, TypeOK, FrozenSettlement
  <2>3. CloseInProgress'
    BY <1>3, <2>1 DEF CloseInProgress, Closing
  <2>4. PositionsFollowIntent' /\ CandidateNeedsBaseline' /\ NoOrphanPosition'
    BY <1>1, <2>1 DEF Inductive, PositionsFollowIntent, CandidateNeedsBaseline,
      NoOrphanPosition, Has
  <2>5. FrozenSettlement' /\ SettlementComplete'
    <3>1. \A p \in Pair, c \in Branch : terminal[p][c] # None => terminal'[p][c] # None
      BY <2>2
    <3> QED
      BY <1>1, <2>1, <2>2, <3>1 DEF Inductive, TypeOK, FrozenSettlement, SettlementComplete, Has
  <2> QED
    BY <1>2, <2>3, <2>4, <2>5 DEF Inductive
<1> QED
  BY <1>4, <1>5, <1>6

\* The two phases a lifecycle pass adds: boundary authority and settlement.
LEMMA PassPhases ==
  ASSUME Inductive, TypeOK', NEW p \in Pair, NEW phase \in {"boundary_authority", "settlement"},
         pc \in Closing \cup {"settle"}, Has(p, "entry"),
         phase = "settlement" => p \in Ready,
         events' = [events EXCEPT ![p] = @ \cup {phase}],
         UNCHANGED <<eligible, actual, input, terminal, journals, process, now>>
  PROVE  Inductive'
<1>0. TypeOK /\ phase \in Phase
  BY DEF Inductive, Phase
<1>1. \A q \in Pair, f \in Phase : Has(q, f)' <=> Has(q, f) \/ (q = p /\ f = phase)
  BY <1>0, PhaseKnown
<1> USE ConstantFacts DEF Phase, journals, process
<1>2. PhasesInOrder'
  <2>1. \A q \in Pair : q # p => events'[q] = events[q]
    BY <1>0, PhaseKnown
  <2>2. Has(p, "decision")
    BY DEF Inductive, PhasesInOrder, Has
  <2> QED
    BY <1>1, <2>1, <2>2 DEF Inductive, PhasesInOrder
<1>3. mode # "collect" /\ QueueIsFresh' /\ EntryInProgress'
  BY DEF Inductive, QueueIsFresh, EntryInProgress, Entering, Closing
<1>4. CloseInProgress'
  <2>1. at \in Pair /\ \A x \in todo : x[1] \in Pair
    BY DEF Inductive, TypeOK
  <2> QED
    BY <1>1, <2>1 DEF Inductive, CloseInProgress
<1>5. PositionsFollowIntent' /\ CandidateNeedsBaseline' /\ NoOrphanPosition' /\ FrozenSettlement'
  BY <1>1 DEF Inductive, PositionsFollowIntent, CandidateNeedsBaseline, NoOrphanPosition,
    FrozenSettlement
<1>6. SettlementComplete'
  BY <1>1 DEF Inductive, SettlementComplete, Ready
<1> QED
  BY <1>2, <1>3, <1>4, <1>5, <1>6 DEF Inductive

\* Every step of every process, of the clock and of the market.
LEMMA InductiveStep ==
  ASSUME Inductive, [Next]_vars
  PROVE  Inductive'
<1>0. TypeOK'
  BY TypeStep DEF Inductive
<1>1. CASE Start \/ Stop \/ MissBoundary \/ PreflightFails \/ CrossEnd \/ FinishSupervisor
           \/ ManagerDone
  BY <1>0, <1>1, LaunchAndUnwind
<1>2. CASE \/ Tick \/ MarketTick \/ CaptureBoundary \/ EntriesDone \/ Poll \/ Preflight
           \/ Hold \/ ReplayTerminalInput \/ PassDone \/ SettlementsDone
           \/ \E p \in Pair : ResumePending(p)
           \/ \E x \in Pair \X Branch : NextBranch(x)
           \/ UNCHANGED vars
  BY <1>0, <1>2, QuietActions
<1>3. CASE \E p \in Pair : CollectDecision(p)
  BY <1>0, <1>3, DecisionStep
<1>4. CASE BeginEntry \/ RecheckWindow \/ FreezeIntent \/ RecordEntry
  BY <1>0, <1>4, EntryActions
<1>5. CASE \E b \in Branch : OpenBranch(b)
  BY <1>0, <1>5, OpenStep
<1>6. CASE FreezeTrigger \/ FreezeTimebox \/ ClosePosition \/ AppendTerminal
  BY <1>0, <1>6, ClosingActions
<1>7. CASE RecordBoundaryAuthority
  <2>1. at \in Pair /\ pc \in Closing /\ Has(at, "entry")
    BY <1>7 DEF RecordBoundaryAuthority, Inductive, TypeOK, CloseInProgress, Closing
  <2> QED
    BY <1>0, <1>7, <2>1, PassPhases DEF RecordBoundaryAuthority, environment
<1>8. ASSUME NEW p \in Pair, FinalizeSettlement(p) PROVE Inductive'
  BY <1>0, <1>8, PassPhases DEF FinalizeSettlement, Ready, environment
<1> QED
  BY <1>1, <1>2, <1>3, <1>4, <1>5, <1>6, <1>7, <1>8 DEF Next, Step

\* Whatever was written before the last crash, what the next process finds is
\* consistent: the parts of the inductive invariant hold in every state.
THEOREM AlwaysInductive == Spec => []Inductive
<1> QED
  BY InductiveInit, InductiveStep, PTL DEF Spec

\* open_virtual_entries and its replay never count, or leave open, a candidate
\* branch next to a baseline that was not opened.
THEOREM CandidateAlwaysNeedsBaseline == Spec => []CandidateNeedsBaseline
<1>1. Inductive => CandidateNeedsBaseline
  BY DEF Inductive
<1> QED
  BY <1>1, AlwaysInductive, PTL

\* However a command dies between the position journals and the entry event,
\* the committed entry calls actual exactly the branches that hold a position.
THEOREM NeverOrphanPosition == Spec => []NoOrphanPosition
<1>1. Inductive => NoOrphanPosition
  BY DEF Inductive
<1> QED
  BY <1>1, AlwaysInductive, PTL

\* Terminal event, position close and frozen input of a branch name the same
\* instant, whichever process wrote which of them.
THEOREM AlwaysFrozenSettlement == Spec => []FrozenSettlement
<1>1. Inductive => FrozenSettlement
  BY DEF Inductive
<1> QED
  BY <1>1, AlwaysInductive, PTL

\* finalize_settlement only ever settles pairs with all their terminals.
THEOREM AlwaysSettlementComplete == Spec => []SettlementComplete
<1>1. Inductive => SettlementComplete
  BY DEF Inductive
<1> QED
  BY <1>1, AlwaysInductive, PTL

\* The duplicate boundary evidence failure of a commanded boundary cannot be
\* raised: what is about to be decided has no evidence yet.
THEOREM AlwaysFreshBoundary == Spec => []FreshBoundary
<1>1. Inductive => FreshBoundary
  BY DEF Inductive, TypeOK, QueueIsFresh, EntryInProgress, FreshBoundary, Entering
<1> QED
  BY <1>1, AlwaysInductive, PTL

-----------------------------------------------------------------------------
(* What a step may never do. *)

\* Every way a step touches the position journals.
LEMMA PositionWriters ==
  ASSUME Inductive, [Next]_vars
  PROVE  UNCHANGED <<pos, close>> \/ (\E b \in Branch : OpenBranch(b)) \/ ClosePosition
<1>1. CASE Start \/ Stop \/ Tick \/ MarketTick \/ UNCHANGED vars
  BY <1>1 DEF Start, StartSupervisor, StartCollector, StartManager, Launch, Stop, Tick,
    MarketTick, vars, journals
<1>2. CASE Step
  BY <1>2 DEF Step, CaptureBoundary, MissBoundary, CollectDecision, ResumePending, BeginEntry,
    RecheckWindow, FreezeIntent, RecordMissedEntry, RecordEntry, EntriesDone, Poll, Preflight, PreflightFails,
    NextBranch, CrossEnd, RecordBoundaryAuthority, Hold, FreezeTrigger, FreezeTimebox, FreezeInput,
    ReplayTerminalInput, AppendTerminal, PassDone, FinalizeSettlement, SettlementsDone,
    FinishSupervisor, ManagerDone, journals
<1> QED
  BY <1>1, <1>2 DEF Next

\* Every way a step touches the phases of the evidence journal.
LEMMA PhaseWriters ==
  ASSUME Inductive, [Next]_vars
  PROVE  \/ UNCHANGED events
         \/ \E p \in Pair : CollectDecision(p) /\ events' = [events EXCEPT ![p] = @ \cup {"decision"}]
         \/ events' = [events EXCEPT ![at] = @ \cup {"entry"}]
         \/ pc = "write" /\ events' = [events EXCEPT ![at] = @ \cup {"entry_input"}]
         \/ events' = [events EXCEPT ![at] = @ \cup {"boundary_authority"}]
         \/ \E p \in Pair : events' = [events EXCEPT ![p] = @ \cup {"settlement"}]
<1>1. CASE Start \/ Stop \/ Tick \/ MarketTick \/ UNCHANGED vars
  BY <1>1 DEF Start, StartSupervisor, StartCollector, StartManager, Launch, Stop, Tick,
    MarketTick, vars, evidence
<1>2. CASE Step
  BY <1>2 DEF Step, CaptureBoundary, MissBoundary, CollectDecision, ResumePending, BeginEntry,
    RecheckWindow, FreezeIntent, RecordMissedEntry, OpenBranch, RecordEntry, EntriesDone, Poll, Preflight,
    PreflightFails, NextBranch, CrossEnd, RecordBoundaryAuthority, Hold, FreezeTrigger,
    FreezeTimebox, FreezeInput,
    ReplayTerminalInput, ClosePosition, AppendTerminal, PassDone, FinalizeSettlement,
    SettlementsDone, FinishSupervisor, ManagerDone, evidence
<1> QED
  BY <1>1, <1>2 DEF Next

\* Only the check itself takes a process to the write, and never to that of a
\* pair whose window it has found closed.
LEMMA WriteReached ==
  ASSUME Inductive, [Next]_vars, pc' = "write"
  PROVE  UNCHANGED at /\ (pc = "write" \/ InEntryWindow(at))
<1>1. CASE Start \/ Stop \/ Tick \/ MarketTick \/ UNCHANGED vars
  BY <1>1 DEF Start, StartSupervisor, StartCollector, StartManager, Launch, Stop, Unwind, Tick,
    MarketTick, vars, process
<1>2. CASE RecheckWindow
  BY <1>2 DEF RecheckWindow, RecordMissedEntry, EntryDone, Unwind
<1>3. CASE Step /\ ~RecheckWindow
  <2>1. pc' = pc \/ pc' # "write"
    BY <1>3 DEF Step, CaptureBoundary, MissBoundary, CollectDecision, ResumePending, BeginEntry,
      FreezeIntent, RecordMissedEntry, EntryDone, OpenBranch, RecordEntry, EntriesDone, Poll,
      Preflight, PreflightFails, NextBranch, CrossEnd, RecordBoundaryAuthority, Hold,
      FreezeTrigger, FreezeTimebox, FreezeInput, ReplayTerminalInput, ClosePosition,
      AppendTerminal, Visited, PassDone, FinalizeSettlement, SettlementsDone, FinishSupervisor,
      ManagerDone, Unwind, process
  <2>2. pc = "write" => UNCHANGED at
    BY <1>3 DEF Step, CaptureBoundary, MissBoundary, CollectDecision, ResumePending, BeginEntry,
      FreezeIntent, OpenBranch, RecordEntry, EntriesDone, Poll, Branch,
      Preflight, PreflightFails, NextBranch, CrossEnd, RecordBoundaryAuthority, Hold,
      FreezeTrigger, FreezeTimebox, FreezeInput, ReplayTerminalInput, ClosePosition,
      AppendTerminal, PassDone, FinalizeSettlement, SettlementsDone, FinishSupervisor,
      ManagerDone, Unwind, process
  <2> QED
    BY <2>1, <2>2
<1> QED
  BY <1>1, <1>2, <1>3 DEF Next

\* A missed window stays missed, whatever the next step is.
LEMMA MissedStep ==
  ASSUME Inductive, [Next]_vars, NEW p \in Pair, WindowMissed(p)
  PROVE  WindowMissed(p)'
<1>0. TypeOK /\ at \in Pair
  BY DEF Inductive, TypeOK
<1>1. now' > EntryAt[p]
  <2>1. now' = now \/ now' = now + 1
    BY DEF Next, Start, StartSupervisor, StartCollector, StartManager, Launch, Stop, Tick,
      MarketTick, vars, environment, Step, CaptureBoundary, MissBoundary, CollectDecision,
      ResumePending, BeginEntry, RecheckWindow, FreezeIntent, RecordMissedEntry, OpenBranch,
      RecordEntry, EntriesDone, Poll, Preflight, PreflightFails, NextBranch, CrossEnd,
      RecordBoundaryAuthority, Hold, FreezeTrigger, FreezeTimebox, FreezeInput,
      ReplayTerminalInput, ClosePosition, AppendTerminal, PassDone, FinalizeSettlement,
      SettlementsDone, FinishSupervisor, ManagerDone
  <2>2. now \in Int /\ EntryAt[p] \in Int
    BY <1>0, ConstantFacts, TimeAssumption DEF TypeOK
  <2> QED
    BY <2>1, <2>2 DEF WindowMissed
<1>2. ~Has(p, "entry_input")'
  <2>1. CASE pc = "write" /\ events' = [events EXCEPT ![at] = @ \cup {"entry_input"}]
    BY <1>0, <2>1 DEF WindowMissed, Has, TypeOK
  <2>2. ASSUME NEW q \in Pair, NEW f \in Phase \ {"entry_input"},
               events' = [events EXCEPT ![q] = @ \cup {f}]
        PROVE  ~Has(p, "entry_input")'
    BY <1>0, <2>2 DEF WindowMissed, Has, TypeOK
  <2>3. UNCHANGED events => ~Has(p, "entry_input")'
    BY DEF WindowMissed, Has
  <2> QED
    BY <1>0, <2>1, <2>2, <2>3, PhaseWriters DEF Phase
<1>3. ~(pc = "write" /\ at = p)'
  <2> SUFFICES ASSUME pc' = "write", at' = p PROVE FALSE
    OBVIOUS
  <2>1. at = p /\ (pc = "write" \/ InEntryWindow(p))
    BY WriteReached
  <2>2. now \in Int /\ EntryAt[p] \in Int
    BY <1>0, ConstantFacts, TimeAssumption DEF TypeOK
  <2> QED
    BY <2>1, <2>2 DEF WindowMissed, InEntryWindow
<1> QED
  BY <1>1, <1>2, <1>3 DEF WindowMissed

\* require_entry_window_at_durable_write decides once: after a missed window
\* neither the command that found it closed nor any later recovery freezes an
\* intent or opens a position, however often processes die and come back.
THEOREM MissedWindowAlwaysFinal == Spec => MissedWindowIsFinal
<1> SUFFICES ASSUME NEW p \in Pair
             PROVE  Spec => [](WindowMissed(p) =>
                      [](~Has(p, "entry_input") /\ \A b \in Branch : pos[p][b] = "none"))
  BY DEF MissedWindowIsFinal
<1>1. Inductive /\ [Next]_vars /\ WindowMissed(p) => WindowMissed(p)'
  BY MissedStep
<1>2. Inductive /\ WindowMissed(p) =>
        ~Has(p, "entry_input") /\ \A b \in Branch : pos[p][b] = "none"
  BY DEF Inductive, PositionsFollowIntent, WindowMissed
<1> QED
  BY <1>1, <1>2, AlwaysInductive, PTL DEF Spec

\* Every way a step touches what the evidence records besides its phases.
LEMMA ValueWriters ==
  ASSUME Inductive, [Next]_vars
  PROVE  \/ UNCHANGED <<eligible, actual, input, terminal>>
         \/ /\ \E p \in Pair : CollectDecision(p)
            /\ UNCHANGED <<actual, input, terminal>>
         \/ RecordEntry /\ UNCHANGED <<eligible, input, terminal>>
         \/ (FreezeTrigger \/ FreezeTimebox) /\ UNCHANGED <<eligible, actual, terminal>>
         \/ AppendTerminal /\ UNCHANGED <<eligible, actual, input>>
<1>1. CASE Start \/ Stop \/ Tick \/ MarketTick \/ UNCHANGED vars
  BY <1>1 DEF Start, StartSupervisor, StartCollector, StartManager, Launch, Stop, Tick,
    MarketTick, vars, evidence
<1>2. CASE Step
  BY <1>2 DEF Step, CaptureBoundary, MissBoundary, CollectDecision, ResumePending, BeginEntry,
    RecheckWindow, FreezeIntent, RecordMissedEntry, OpenBranch, RecordEntry, EntriesDone, Poll, Preflight,
    PreflightFails, NextBranch, CrossEnd, RecordBoundaryAuthority, Hold, FreezeTrigger,
    FreezeTimebox, FreezeInput,
    ReplayTerminalInput, ClosePosition, AppendTerminal, PassDone, FinalizeSettlement,
    SettlementsDone, FinishSupervisor, ManagerDone, evidence
<1> QED
  BY <1>1, <1>2 DEF Next

\* What pair p has on record stays as it is.
LEMMA ImmutableStep ==
  ASSUME Inductive, [Next]_vars, NEW p \in Pair
  PROVE  /\ events[p] \subseteq events'[p]
         /\ Has(p, "decision") => eligible'[p] = eligible[p]
         /\ Has(p, "entry") => actual'[p] = actual[p]
         /\ \A b \in Branch :
              /\ input[p][b] # None => input'[p][b] = input[p][b]
              /\ terminal[p][b] # None => terminal'[p][b] = terminal[p][b]
              /\ close[p][b] # None => close'[p][b] = close[p][b]
<1>0. TypeOK /\ at \in Pair /\ arm \in Branch
  BY DEF Inductive, TypeOK
<1>1. events[p] \subseteq events'[p]
  <2>1. ASSUME NEW q \in Pair, NEW f, events' = [events EXCEPT ![q] = @ \cup {f}]
        PROVE  events[p] \subseteq events'[p]
    BY <1>0, <2>1 DEF TypeOK
  <2> QED
    BY <1>0, <2>1, PhaseWriters
<1>2. Has(p, "decision") => eligible'[p] = eligible[p]
  <2>1. ASSUME NEW q \in Pair, CollectDecision(q), Has(p, "decision")
        PROVE  eligible'[p] = eligible[p]
    <3>1. events[q] = {}
      BY <2>1 DEF CollectDecision, Inductive, QueueIsFresh
    <3>2. p # q
      BY <2>1, <3>1 DEF Has
    <3> QED
      BY <1>0, <2>1, <3>2 DEF CollectDecision, TypeOK
  <2> QED
    BY <2>1, ValueWriters
<1>3. Has(p, "entry") => actual'[p] = actual[p]
  <2>1. CASE RecordEntry /\ Has(p, "entry")
    <3>1. p # at
      BY <2>1 DEF RecordEntry, Inductive, EntryInProgress, Entering
    <3> QED
      BY <1>0, <2>1, <3>1 DEF RecordEntry, TypeOK
  <2> QED
    BY <2>1, ValueWriters
<1>4. ASSUME NEW b \in Branch, input[p][b] # None PROVE input'[p][b] = input[p][b]
  <2>1. CASE FreezeTrigger \/ FreezeTimebox
    <3>1. ~(p = at /\ b = arm)
      BY <1>4, <2>1 DEF FreezeTrigger, FreezeTimebox, FreezeInput
    <3> QED
      BY <1>0, <2>1, <3>1 DEF FreezeTrigger, FreezeTimebox, FreezeInput, TypeOK
  <2> QED
    BY <2>1, ValueWriters
<1>5. ASSUME NEW b \in Branch, terminal[p][b] # None PROVE terminal'[p][b] = terminal[p][b]
  <2>1. CASE AppendTerminal
    <3>1. terminal[p][b] = close[p][b]
      BY <1>5 DEF Inductive, FrozenSettlement
    <3> QED
      BY <1>0, <2>1, <3>1 DEF AppendTerminal, TypeOK
  <2> QED
    BY <2>1, ValueWriters
<1>6. ASSUME NEW b \in Branch, close[p][b] # None PROVE close'[p][b] = close[p][b]
  <2>1. CASE ClosePosition
    <3>1. ~(p = at /\ b = arm)
      BY <1>6, <2>1 DEF ClosePosition, Inductive, CloseInProgress, FrozenSettlement
    <3> QED
      BY <1>0, <2>1, <3>1 DEF ClosePosition, TypeOK
  <2>2. ASSUME NEW c \in Branch, OpenBranch(c) PROVE close'[p][b] = close[p][b]
    BY <2>2 DEF OpenBranch
  <2> QED
    BY <2>1, <2>2, PositionWriters
<1> QED
  BY <1>1, <1>2, <1>3, <1>4, <1>5, <1>6

\* Recovery and replay only ever add: what the paired evidence journal and the
\* position journals have on record is never rewritten with another value.
THEOREM EvidenceAlwaysImmutable == Spec => EvidenceIsImmutable
<1>1. Inductive /\ [Next]_vars =>
        [\A p \in Pair :
           /\ events[p] \subseteq events'[p]
           /\ Has(p, "decision") => eligible'[p] = eligible[p]
           /\ Has(p, "entry") => actual'[p] = actual[p]
           /\ \A b \in Branch :
                /\ input[p][b] # None => input'[p][b] = input[p][b]
                /\ terminal[p][b] # None => terminal'[p][b] = terminal[p][b]
                /\ close[p][b] # None => close'[p][b] = close[p][b]]_vars
  BY ImmutableStep
<1> QED
  BY <1>1, AlwaysInductive, PTL DEF Spec, EvidenceIsImmutable

-----------------------------------------------------------------------------
(* What the snapshots have seen, and what the final audit relies on.       *)

\* The market has reached the window of every decided pair, and so has the
\* snapshot a pass closes branches with; a boundary is captured no earlier.
MarketReachedEntry ==
  /\ \A p \in Pair : Has(p, "decision") =>
       EntryAt[p] <= market /\ (obs # None => EntryAt[p] <= obs)
  /\ mode \in {"supervise", "collect"} /\ pc \in Entering \cup {"next"} =>
       \A p \in queue : EntryAt[p] <= market /\ EntryAt[p] <= obs

\* The audit comes right after the settlements of its pass.
NothingLeftToSettle == pc = "audit" => Ready = {}

\* Every way a step touches the market and the snapshots at hand, and the one
\* way a process comes to have pairs to decide and enter.
LEMMA SnapshotWriters ==
  ASSUME Inductive, [Next]_vars
  PROVE  /\ market' = market \/ (market < market' /\ UNCHANGED obs)
         /\ \/ obs' \in {obs, None}
            \/ obs' = market /\ UNCHANGED market
         /\ \/ ~(mode' \in {"supervise", "collect"} /\ pc' \in Entering \cup {"next"})
            \/ CaptureBoundary
            \/ /\ mode \in {"supervise", "collect"} /\ pc \in Entering \cup {"next"}
               /\ queue' \subseteq queue /\ UNCHANGED obs
<1>1. CASE Start \/ Stop
  BY <1>1 DEF Start, StartSupervisor, StartCollector, StartManager, Launch, Stop, Unwind,
    environment, Entering
<1>2. CASE Tick \/ MarketTick \/ UNCHANGED vars
  <2>1. market < market' \/ market' = market
    <3>1. market \in Int /\ now \in Int
      BY ConstantFacts DEF Inductive, TypeOK
    <3> QED
      BY <1>2, <3>1 DEF Tick, MarketTick, vars, environment
  <2> QED
    BY <1>2, <2>1 DEF Tick, MarketTick, vars, process
<1>3. CASE \/ CaptureBoundary \/ MissBoundary \/ Poll \/ Preflight \/ PreflightFails \/ CrossEnd
           \/ SettlementsDone \/ FinishSupervisor \/ ManagerDone \/ EntriesDone \/ PassDone
           \/ Hold \/ ReplayTerminalInput \/ ClosePosition \/ AppendTerminal
           \/ FreezeTrigger \/ FreezeTimebox
           \/ \E x \in Pair \X Branch : NextBranch(x)
  BY <1>3 DEF CaptureBoundary, MissBoundary, Poll, Preflight, PreflightFails, CrossEnd,
    SettlementsDone, FinishSupervisor, ManagerDone, EntriesDone, PassDone, Hold,
    ReplayTerminalInput, ClosePosition, AppendTerminal, FreezeTrigger, FreezeTimebox,
    FreezeInput, Visited, NextBranch, Unwind, environment, Entering
<1>4. CASE \/ \E p \in Pair : CollectDecision(p) \/ ResumePending(p)
           \/ RecordEntry \/ \E b \in Branch : OpenBranch(b)
  BY <1>4 DEF CollectDecision, ResumePending, RecordEntry, EntryDone, OpenBranch, Branch,
    environment, Entering
<1>5. CASE BeginEntry \/ RecheckWindow \/ FreezeIntent
  BY <1>5 DEF BeginEntry, RecheckWindow, FreezeIntent, RecordMissedEntry, EntryDone, Unwind, environment,
    Entering
<1>6. CASE RecordBoundaryAuthority \/ \E p \in Pair : FinalizeSettlement(p)
  BY <1>6 DEF RecordBoundaryAuthority, FinalizeSettlement, process, environment
<1> QED
  BY <1>1, <1>2, <1>3, <1>4, <1>5, <1>6 DEF Next, Step

\* Neither a stale snapshot nor a late tick takes the market back before the
\* window of a decided pair.
LEMMA MarketStep ==
  ASSUME Inductive, MarketReachedEntry, [Next]_vars
  PROVE  MarketReachedEntry'
<1>0. /\ \A p \in Pair : EntryAt[p] \in Int /\ 1 <= EntryAt[p]
      /\ market \in Int /\ market' \in Int /\ obs \in Int /\ now \in Int
      /\ TypeOK /\ queue' \subseteq Pair /\ None = -1
  BY ConstantFacts, TimeAssumption, InductiveStep DEF Inductive, TypeOK, None
<1>1. /\ market <= market'
      /\ obs' \in {obs, None} \/ obs' = market
  BY <1>0, SnapshotWriters
<1>2. ASSUME NEW p \in Pair, Has(p, "decision")'
      PROVE  EntryAt[p] <= market' /\ (obs' # None => EntryAt[p] <= obs')
  <2>1. CASE Has(p, "decision")
    BY <1>0, <1>1, <2>1 DEF MarketReachedEntry
  <2>2. ASSUME ~Has(p, "decision") PROVE CollectDecision(p)
    <3>1. ASSUME NEW q \in Pair, NEW f \in Phase, events' = [events EXCEPT ![q] = @ \cup {f}]
          PROVE  q = p /\ f = "decision"
      BY <1>0, <1>2, <2>2, <3>1 DEF Has, TypeOK
    <3>2. at \in Pair
      BY <1>0 DEF TypeOK
    <3>3. UNCHANGED events => FALSE
      BY <1>2, <2>2 DEF Has
    <3> QED
      BY <3>1, <3>2, <3>3, PhaseWriters DEF Phase
  <2>3. ASSUME CollectDecision(p) PROVE EntryAt[p] <= market' /\ EntryAt[p] <= obs'
    <3>1. /\ mode \in {"supervise", "collect"} /\ pc \in Entering \cup {"next"} /\ p \in queue
          /\ UNCHANGED <<obs, market>>
      BY <2>3 DEF CollectDecision, environment
    <3> QED
      BY <3>1 DEF MarketReachedEntry
  <2> QED
    BY <2>1, <2>2, <2>3
<1>3. ASSUME mode' \in {"supervise", "collect"}, pc' \in Entering \cup {"next"}, NEW p \in queue'
      PROVE  EntryAt[p] <= market' /\ EntryAt[p] <= obs'
  <2>1. CASE CaptureBoundary
    BY <1>0, <1>3, <2>1 DEF CaptureBoundary, Due, InEntryWindow, environment
  <2>2. CASE /\ mode \in {"supervise", "collect"} /\ pc \in Entering \cup {"next"}
             /\ queue' \subseteq queue /\ UNCHANGED obs
    <3>1. EntryAt[p] <= market /\ EntryAt[p] <= obs
      BY <1>3, <2>2 DEF MarketReachedEntry
    <3> QED
      BY <1>0, <1>1, <1>3, <2>2, <3>1
  <2> QED
    BY <1>3, <2>1, <2>2, SnapshotWriters
<1> QED
  BY <1>2, <1>3 DEF MarketReachedEntry

\* A terminal input is frozen from a snapshot of after the entry, and at the
\* exclusive end only under the boundary authority of its pair.
LEMMA InsideStep ==
  ASSUME Inductive, MarketReachedEntry, SettlesInsideExperiment, [Next]_vars
  PROVE  SettlesInsideExperiment'
<1>0. TypeOK /\ at \in Pair /\ arm \in Branch /\ None = -1 /\ End \in Nat
  BY TimeAssumption DEF Inductive, TypeOK, None
<1>1. \A p \in Pair : events[p] \subseteq events'[p]
  BY ImmutableStep
<1>2. CASE UNCHANGED input
  BY <1>1, <1>2 DEF SettlesInsideExperiment, Has
<1>3. CASE FreezeTrigger \/ FreezeTimebox
  <2>1. input' = [input EXCEPT ![at][arm] = obs] /\ UNCHANGED events /\ pc \in Closing
    BY <1>3 DEF FreezeTrigger, FreezeTimebox, FreezeInput, Closing
  <2>2. obs # None /\ (obs = End => Has(at, "boundary_authority"))
    BY <1>0, <1>3 DEF FreezeTrigger, FreezeTimebox
  <2>3. Has(at, "decision")
    BY <1>0, <2>1 DEF Inductive, CloseInProgress, PhasesInOrder, Has
  <2>4. EntryAt[at] <= obs
    BY <1>0, <2>2, <2>3 DEF MarketReachedEntry
  <2>5. ASSUME NEW p \in Pair, NEW b \in Branch, ~(p = at /\ b = arm)
        PROVE  input'[p][b] = input[p][b]
    BY <1>0, <2>1, <2>5 DEF TypeOK
  <2>6. input'[at][arm] = obs
    BY <1>0, <2>1 DEF TypeOK
  <2>7. ASSUME NEW p \in Pair, NEW b \in Branch, input'[p][b] # None
        PROVE  input'[p][b] >= EntryAt[p] /\ (input'[p][b] = End => Has(p, "boundary_authority"))
    <3>1. CASE p = at /\ b = arm
      <4>1. obs \in Int /\ EntryAt[at] \in Int
        BY <1>0, ConstantFacts, TimeAssumption DEF TypeOK
      <4> QED
        BY <2>2, <2>4, <2>6, <3>1, <4>1
    <3>2. CASE ~(p = at /\ b = arm)
      BY <2>5, <2>7, <3>2 DEF SettlesInsideExperiment
    <3> QED
      BY <3>1, <3>2
  <2> QED
    BY <2>1, <2>7 DEF SettlesInsideExperiment, Has
<1> QED
  BY <1>2, <1>3, ValueWriters

\* No virtual position closes at a price from before its entry, and none closes
\* at the exclusive end without a broker offset observed in the final bar.
THEOREM AlwaysInsideExperiment == Spec => []SettlesInsideExperiment
<1>1. Init => MarketReachedEntry /\ SettlesInsideExperiment
  BY DEF Init, MarketReachedEntry, SettlesInsideExperiment, Has
<1>2. Inductive /\ MarketReachedEntry /\ SettlesInsideExperiment /\ [Next]_vars =>
        MarketReachedEntry' /\ SettlesInsideExperiment'
  BY MarketStep, InsideStep
<1> QED
  BY <1>1, <1>2, AlwaysInductive, PTL DEF Spec

\* The audit is only reached, and only left, with no pair ready to settle.
LEMMA AuditStep ==
  ASSUME Inductive, NothingLeftToSettle, [Next]_vars
  PROVE  NothingLeftToSettle'
<1>1. CASE Tick \/ MarketTick \/ UNCHANGED vars
  BY <1>1 DEF Tick, MarketTick, vars, evidence, process, NothingLeftToSettle, Ready, Has
<1>2. CASE SettlementsDone
  BY <1>2 DEF SettlementsDone, evidence, NothingLeftToSettle, Ready, Has
<1>3. CASE Start \/ Stop
  BY <1>3 DEF Start, StartSupervisor, StartCollector, StartManager, Launch, Stop, Unwind,
    NothingLeftToSettle
<1>4. CASE Step /\ ~SettlementsDone
  <2>1. pc' # "audit"
    BY <1>4 DEF Step, CaptureBoundary, MissBoundary, CollectDecision, ResumePending, BeginEntry,
      RecheckWindow, FreezeIntent, RecordMissedEntry, EntryDone, OpenBranch, RecordEntry, EntriesDone, Poll,
      Preflight, PreflightFails, NextBranch, CrossEnd, RecordBoundaryAuthority, Hold,
      FreezeTrigger, FreezeTimebox, FreezeInput, ReplayTerminalInput, ClosePosition,
      AppendTerminal, Visited, PassDone, FinalizeSettlement, FinishSupervisor,
      ManagerDone, Unwind, process
  <2> QED
    BY <2>1 DEF NothingLeftToSettle
<1> QED
  BY <1>1, <1>2, <1>3, <1>4 DEF Next

\* Only the audit finishes the ledger, and nothing un-finishes it.
LEMMA LedgerWriters ==
  ASSUME [Next]_vars, ledger' = "finished"
  PROVE  ledger = "finished" \/ FinishSupervisor
<1>1. CASE Start \/ Stop \/ Tick \/ MarketTick \/ UNCHANGED vars
  BY <1>1 DEF Start, StartSupervisor, StartCollector, StartManager, Launch, Stop, Tick,
    MarketTick, vars
<1>2. CASE Step
  BY <1>2 DEF Step, CaptureBoundary, MissBoundary, CollectDecision, ResumePending, BeginEntry,
    RecheckWindow, FreezeIntent, RecordMissedEntry, OpenBranch, RecordEntry, EntriesDone, Poll, Preflight,
    PreflightFails, NextBranch, CrossEnd, RecordBoundaryAuthority, Hold, FreezeTrigger,
    FreezeTimebox, FreezeInput, ReplayTerminalInput, ClosePosition, AppendTerminal, PassDone,
    FinalizeSettlement, SettlementsDone, ManagerDone
<1> QED
  BY <1>1, <1>2 DEF Next

\* What the audit found complete stays complete.
LEMMA FinishedStep ==
  ASSUME Inductive, NothingLeftToSettle, FinishedMeansComplete, [Next]_vars
  PROVE  FinishedMeansComplete'
<1> SUFFICES ASSUME ledger' = "finished", NEW p \in Pair
             PROVE  Has(p, "entry")' /\ (actual'[p] # {} => Has(p, "settlement")')
  BY DEF FinishedMeansComplete
<1>1. Has(p, "entry") /\ (actual[p] # {} => Has(p, "settlement"))
  <2>1. CASE ledger = "finished"
    BY <2>1 DEF FinishedMeansComplete
  <2>2. CASE FinishSupervisor
    <3>1. Has(p, "entry")
      BY <2>2 DEF FinishSupervisor, Undecided, Pending
    <3>2. ASSUME NEW b \in actual[p] PROVE terminal[p][b] # None
      <4>1. actual[p] \subseteq Branch
        BY DEF Inductive, TypeOK
      <4>2. <<p, b>> \in Pair \X Branch /\ <<p, b>> \notin Outstanding
        BY <2>2, <4>1 DEF FinishSupervisor
      <4> QED
        BY <3>1, <4>2 DEF Outstanding
    <3>3. Ready = {}
      BY <2>2 DEF FinishSupervisor, NothingLeftToSettle
    <3> QED
      BY <3>1, <3>2, <3>3 DEF Ready
  <2> QED
    BY <2>1, <2>2, LedgerWriters
<1>2. events[p] \subseteq events'[p] /\ actual'[p] = actual[p]
  BY <1>1, ImmutableStep
<1> QED
  BY <1>1, <1>2 DEF Has

\* When the supervisor has written its finished status, no pair lacks its entry
\* outcome and no actual trade its settlement, then and ever after.
THEOREM FinishedAlwaysComplete == Spec => []FinishedMeansComplete
<1>1. Init => NothingLeftToSettle /\ FinishedMeansComplete
  BY DEF Init, NothingLeftToSettle, FinishedMeansComplete
<1>2. Inductive /\ NothingLeftToSettle /\ FinishedMeansComplete /\ [Next]_vars =>
        NothingLeftToSettle' /\ FinishedMeansComplete'
  BY AuditStep, FinishedStep
<1> QED
  BY <1>1, <1>2, AlwaysInductive, PTL DEF Spec

-----------------------------------------------------------------------------
(* The collector implements the pair lifecycle. *)

StageOf == [p \in Pair |-> Stage(p)]

\* How the stages move when a further phase of pair p becomes durable.
LEMMA StageMoves ==
  ASSUME TypeOK, NEW p \in Pair, NEW phase \in Phase,
         events' = [events EXCEPT ![p] = @ \cup {phase}]
  PROVE  /\ phase \in {"entry_input", "boundary_authority"} => StageOf' = StageOf
         /\ phase = "decision" /\ events[p] = {} =>
              Stage(p) = "unseen" /\ StageOf' = [StageOf EXCEPT ![p] = "decided"]
         /\ phase = "entry" /\ Has(p, "decision") /\ ~Has(p, "entry") /\ ~Has(p, "settlement") =>
              Stage(p) = "decided" /\ StageOf' = [StageOf EXCEPT ![p] = "entered"]
         /\ phase = "settlement" /\ Has(p, "entry") /\ ~Has(p, "settlement") =>
              Stage(p) = "entered" /\ StageOf' = [StageOf EXCEPT ![p] = "settled"]
<1>1. /\ \A q \in Pair : q # p => events'[q] = events[q]
      /\ \A q \in Pair, f \in Phase : Has(q, f)' <=> Has(q, f) \/ (q = p /\ f = phase)
  BY PhaseKnown
<1>2. \A q \in Pair : q # p => Stage(q)' = Stage(q)
  BY <1>1 DEF Stage, Phase
<1> USE DEF StageOf
<1>3. ASSUME phase \in {"entry_input", "boundary_authority"} PROVE StageOf' = StageOf
  BY <1>1, <1>3 DEF Stage, Phase
<1>4. ASSUME phase = "decision", events[p] = {}
      PROVE  Stage(p) = "unseen" /\ StageOf' = [StageOf EXCEPT ![p] = "decided"]
  <2>1. Stage(p) = "unseen" /\ Stage(p)' = "decided"
    BY <1>1, <1>4 DEF Stage, Phase, Has
  <2> QED
    BY <1>2, <2>1
<1>5. ASSUME phase = "entry", Has(p, "decision"), ~Has(p, "entry"), ~Has(p, "settlement")
      PROVE  Stage(p) = "decided" /\ StageOf' = [StageOf EXCEPT ![p] = "entered"]
  <2>1. Stage(p) = "decided" /\ Stage(p)' = "entered"
    BY <1>1, <1>5 DEF Stage, Phase
  <2> QED
    BY <1>2, <2>1
<1>6. ASSUME phase = "settlement", Has(p, "entry"), ~Has(p, "settlement")
      PROVE  Stage(p) = "entered" /\ StageOf' = [StageOf EXCEPT ![p] = "settled"]
  <2>1. Stage(p) = "entered" /\ Stage(p)' = "settled"
    BY <1>1, <1>6 DEF Stage, Phase
  <2> QED
    BY <1>2, <2>1
<1> QED
  BY <1>3, <1>4, <1>5, <1>6

\* The entry event, with or without trades, enters the pair once.
LEMMA EnterStep ==
  ASSUME Inductive, pc \in Entering, NEW S \in SUBSET Branch,
         "candidate" \in S => "baseline" \in S,
         events' = [events EXCEPT ![at] = @ \cup {"entry"}],
         actual' = [actual EXCEPT ![at] = S], UNCHANGED terminal
  PROVE  Lifecycle!Next
<1>1. TypeOK /\ at \in Pair /\ "entry" \in Phase
  BY DEF Inductive, TypeOK, Phase
<1>2. Has(at, "decision") /\ ~Has(at, "entry") /\ ~Has(at, "settlement")
  BY <1>1 DEF Inductive, EntryInProgress, PhasesInOrder
<1>3. Stage(at) = "decided" /\ StageOf' = [StageOf EXCEPT ![at] = "entered"]
  BY <1>1, <1>2, StageMoves
<1>4. Lifecycle!Enter(at, S)
  BY <1>1, <1>3 DEF Lifecycle!Enter, StageOf
<1> QED
  BY <1>1, <1>4 DEF Lifecycle!Next, Branch, Lifecycle!Branch

\* A branch is closed once, before its pair is settled.
LEMMA CloseStep ==
  ASSUME Inductive, AppendTerminal
  PROVE  Lifecycle!Next \/ UNCHANGED Lifecycle!vars
<1>1. TypeOK /\ at \in Pair /\ arm \in Branch
  BY DEF Inductive, TypeOK
<1>2. /\ UNCHANGED <<events, actual>>
      /\ terminal' = [terminal EXCEPT ![at][arm] = close[at][arm]]
      /\ pos[at][arm] = "closed" /\ Has(at, "entry")
  BY DEF AppendTerminal, Inductive, CloseInProgress, Closing
<1>3. StageOf' = StageOf
  BY <1>2 DEF StageOf, Stage, Has
<1>4. arm \in actual[at] /\ close[at][arm] \in Instant
  BY <1>1, <1>2 DEF Inductive, TypeOK, NoOrphanPosition, FrozenSettlement
<1>5. CASE terminal[at][arm] = None
  <2>1. ~Has(at, "settlement")
    BY <1>1, <1>4, <1>5 DEF Inductive, SettlementComplete
  <2>2. Stage(at) = "entered"
    BY <1>2, <2>1 DEF Stage
  <2>3. Lifecycle!Close(at, arm, close[at][arm])
    BY <1>1, <1>2, <1>3, <1>4, <1>5, <2>2 DEF Lifecycle!Close, StageOf, None, Lifecycle!None
  <2> QED
    BY <1>1, <1>4, <2>3 DEF Lifecycle!Next, Branch, Lifecycle!Branch
<1>6. CASE terminal[at][arm] # None
  <2>1. close[at][arm] = terminal[at][arm]
    BY <1>1, <1>6 DEF Inductive, FrozenSettlement
  <2>2. terminal' = terminal
    BY <1>1, <1>2, <2>1 DEF TypeOK
  <2> QED
    BY <1>2, <1>3, <2>2 DEF Lifecycle!vars, StageOf
<1> QED
  BY <1>5, <1>6

LEMMA LifecycleInit == Init => Lifecycle!Init
BY DEF Init, Lifecycle!Init, Stage, Has, None, Lifecycle!None, Branch, Lifecycle!Branch

LEMMA LifecycleStep ==
  ASSUME Inductive, [Next]_vars
  PROVE  [Lifecycle!Next]_(Lifecycle!vars)
<1>0. TypeOK /\ at \in Pair
  BY DEF Inductive, TypeOK
<1> USE DEF Lifecycle!vars, StageOf
<1>1. CASE \/ Start \/ Stop \/ Tick \/ MarketTick \/ UNCHANGED vars
           \/ CaptureBoundary \/ MissBoundary \/ (\E p \in Pair : ResumePending(p))
           \/ (\E b \in Branch : OpenBranch(b)) \/ EntriesDone
           \/ Poll \/ Preflight \/ PreflightFails
           \/ (\E x \in Pair \X Branch : NextBranch(x)) \/ CrossEnd
           \/ Hold \/ FreezeTrigger \/ FreezeTimebox \/ ReplayTerminalInput
           \/ ClosePosition \/ PassDone \/ SettlementsDone \/ FinishSupervisor \/ ManagerDone
  <2>1. UNCHANGED <<events, actual, terminal>>
    BY <1>1 DEF Start, StartSupervisor, StartCollector, StartManager, Launch, Stop, Tick,
      MarketTick, vars, CaptureBoundary, MissBoundary, ResumePending, OpenBranch, EntriesDone,
      Poll, Preflight, PreflightFails, NextBranch, CrossEnd, Hold, FreezeTrigger,
      FreezeTimebox, FreezeInput, ReplayTerminalInput, ClosePosition, PassDone,
      SettlementsDone, FinishSupervisor, ManagerDone, evidence
  <2>2. StageOf' = StageOf
    BY <2>1 DEF Stage, Has
  <2> QED
    BY <2>1, <2>2
<1>2. ASSUME NEW p \in Pair, CollectDecision(p) PROVE Lifecycle!Next
  <2>1. /\ events' = [events EXCEPT ![p] = @ \cup {"decision"}]
        /\ events[p] = {} /\ UNCHANGED <<actual, terminal>>
    BY <1>2 DEF CollectDecision, Inductive, QueueIsFresh
  <2>2. Stage(p) = "unseen" /\ StageOf' = [StageOf EXCEPT ![p] = "decided"]
    BY <1>0, <2>1, StageMoves DEF Phase
  <2>3. Lifecycle!Decide(p)
    BY <2>1, <2>2 DEF Lifecycle!Decide
  <2> QED
    BY <2>3 DEF Lifecycle!Next
<1>3. ASSUME pc \in {"entry", "intent"}, RecordMissedEntry PROVE Lifecycle!Next
  <2>1. actual[at] = {} /\ pc \in Entering
    BY <1>0, <1>3 DEF Inductive, EntryInProgress, PhasesInOrder, Entering
  <2>2. actual' = [actual EXCEPT ![at] = {}]
    BY <1>0, <1>3, <2>1 DEF RecordMissedEntry, TypeOK
  <2> QED
    BY <1>3, <2>1, <2>2, EnterStep DEF RecordMissedEntry
<1>4. CASE (BeginEntry \/ RecheckWindow) /\ ~RecordMissedEntry
  <2>1. UNCHANGED <<events, actual, terminal>>
    BY <1>4 DEF BeginEntry, RecheckWindow, evidence
  <2>2. StageOf' = StageOf
    BY <2>1 DEF Stage, Has
  <2> QED
    BY <2>1, <2>2
<1>5. CASE FreezeIntent
  <2>1. /\ events' = [events EXCEPT ![at] = @ \cup {"entry_input"}]
        /\ UNCHANGED <<actual, terminal>>
    BY <1>5 DEF FreezeIntent
  <2>2. StageOf' = StageOf
    BY <1>0, <2>1, StageMoves DEF Phase
  <2> QED
    BY <2>1, <2>2
<1>6. CASE RecordEntry
  <2>1. pc \in Entering /\ opened \in SUBSET Branch /\ ("candidate" \in opened => "baseline" \in opened)
    BY <1>0, <1>6 DEF RecordEntry, Inductive, TypeOK, EntryInProgress, CandidateNeedsBaseline,
      Entering
  <2> QED
    BY <1>6, <2>1, EnterStep DEF RecordEntry
<1>7. CASE RecordBoundaryAuthority
  <2>1. /\ events' = [events EXCEPT ![at] = @ \cup {"boundary_authority"}]
        /\ UNCHANGED <<actual, terminal>>
    BY <1>7 DEF RecordBoundaryAuthority
  <2>2. StageOf' = StageOf
    BY <1>0, <2>1, StageMoves DEF Phase
  <2> QED
    BY <2>1, <2>2
<1>8. CASE AppendTerminal
  BY <1>8, CloseStep
<1>9. ASSUME NEW p \in Pair, FinalizeSettlement(p) PROVE Lifecycle!Next
  <2>1. /\ events' = [events EXCEPT ![p] = @ \cup {"settlement"}]
        /\ Has(p, "entry") /\ ~Has(p, "settlement")
        /\ actual[p] # {} /\ \A b \in actual[p] : terminal[p][b] # None
        /\ UNCHANGED <<actual, terminal>>
    BY <1>9 DEF FinalizeSettlement, Ready
  <2>2. Stage(p) = "entered" /\ StageOf' = [StageOf EXCEPT ![p] = "settled"]
    BY <1>0, <2>1, StageMoves DEF Phase
  <2>3. Lifecycle!Settle(p)
    BY <2>1, <2>2 DEF Lifecycle!Settle, None, Lifecycle!None
  <2> QED
    BY <2>3 DEF Lifecycle!Next
<1>10. CASE BeginEntry \/ RecheckWindow
  <2>1. pc \in {"entry", "intent"}
    BY <1>10 DEF BeginEntry, RecheckWindow
  <2> QED
    BY <1>3, <1>4, <1>10, <2>1
<1> QED
  BY <1>1, <1>2, <1>5, <1>6, <1>7, <1>8, <1>9, <1>10 DEF Next, Step

\* Seen from the evidence journal, every execution with its crashes, restarts,
\* replays and missed deadlines is one of the abstract pair lifecycles.
THEOREM CollectorImplementsLifecycle == Spec => ImplementsLifecycle
<1>1. Init => Lifecycle!Init
  BY LifecycleInit
<1>2. Inductive /\ [Next]_vars => [Lifecycle!Next]_(Lifecycle!vars)
  BY LifecycleStep
<1> QED
  BY <1>1, <1>2, AlwaysInductive, PTL DEF Spec, ImplementsLifecycle, Lifecycle!Spec
=============================================================================
