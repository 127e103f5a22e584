---------------------- MODULE ShadowGenerations_proofs ----------------------
(***************************************************************************)
(* Proofs about the chain of shadow programs, for every set of symbols,    *)
(* any number of bars and whichever program is used first and last.        *)
(*                                                                         *)
(* What they show depends on the operator, in four layers: whatever the    *)
(* operator does; if every session is started with all symbols; if 14.5a,  *)
(* moreover, was only used with all of them observable; and if, moreover,  *)
(* no import runs next to a session.  The programs check none of the three.*)
(***************************************************************************)
EXTENDS ShadowGenerations, SequenceTheorems, FiniteSetTheorems, TLAPS

\* Every session is started with all symbols.
AllSymbols == SymbolLists \subseteq {Symbol}

\* Then every program reads all journals of its namespace before it trades.
JournalsRead == AllSymbols /\ (FirstGeneration = LivePolicy => ObservedAtStart)

\* And nothing is imported while a session reads them.
CarefulOperator == JournalsRead /\ ~ImportAnytime

-----------------------------------------------------------------------------
\* Constants

\* What the assumptions say of generations and bars.
LEMMA ConstantFacts ==
  /\ LastGeneration \in 0 .. 3 /\ FirstGeneration \in 0 .. LastGeneration
  /\ Generation \subseteq Nat /\ FirstGeneration \in Generation
  /\ Bar \subseteq Nat /\ None \notin Bar /\ None \in Int
  /\ \A s \in Symbol : 0 \in Bar /\ 0 .. Last[s] \subseteq Bar
<1>1. LastGeneration \in 0 .. 3 /\ FirstGeneration \in 0 .. LastGeneration
  BY ShadowAssumption DEF LivePolicy, LongRunning
<1>2. \A s \in Symbol : Last[s] \in Nat /\ 0 \in 0 .. Last[s] /\ 0 .. Last[s] \subseteq Bar
  BY ShadowAssumption DEF Bar
<1>3. ASSUME NEW b \in Bar PROVE b \in Nat
  <2>1. PICK s \in Symbol : b \in 0 .. Last[s]
    BY DEF Bar
  <2> QED
    BY <2>1, <1>2
<1> QED
  BY <1>1, <1>2, <1>3 DEF Generation, None

-----------------------------------------------------------------------------
\* What an event does to the open positions of a namespace

\* Entry i of journal j opens a position that nothing follows.
OpenAt(j, i) == j[i].kind = "open" /\ \A m \in DOMAIN j : m > i => j[m].bar # j[i].bar

AsPosition(s, e) == [symbol |-> s, bar |-> e.bar, order |-> e.order, epoch |-> e.epoch]

\* An open position is an open entry of the journal of its symbol.
LEMMA PositionIn ==
  ASSUME NEW J
  PROVE  \A p : p \in OpenPositions(J) <=>
           \E s \in Symbol : \E i \in DOMAIN J[s] : OpenAt(J[s], i) /\ p = AsPosition(s, J[s][i])
<1>1. ASSUME NEW s \in Symbol
      PROVE  OpenEvents(J[s]) = {J[s][i] : i \in {n \in DOMAIN J[s] : OpenAt(J[s], n)}}
  BY DEF OpenEvents, OpenAt
<1>2. \A p : p \in OpenPositions(J) <=>
        \E s \in Symbol : \E e \in OpenEvents(J[s]) : p = AsPosition(s, e)
  BY DEF OpenPositions, AsPosition
<1>3. ASSUME NEW s \in Symbol, NEW p
      PROVE  (\E e \in OpenEvents(J[s]) : p = AsPosition(s, e)) <=>
             (\E i \in DOMAIN J[s] : OpenAt(J[s], i) /\ p = AsPosition(s, J[s][i]))
  BY <1>1
<1> QED
  BY <1>2, <1>3

\* An append keeps the entries before it.
LEMMA AppendedEntry ==
  ASSUME NEW S, NEW j \in Seq(S), NEW e \in S
  PROVE  /\ DOMAIN Append(j, e) = 1 .. Len(j) + 1
         /\ DOMAIN j = 1 .. Len(j) /\ Len(j) \in Nat
         /\ Append(j, e)[Len(j) + 1] = e
         /\ \A i \in 1 .. Len(j) : Append(j, e)[i] = j[i]
OBVIOUS

\* An entry stays open unless an event of the same bar comes after it.
LEMMA OpenAtAppend ==
  ASSUME NEW S, NEW j \in Seq(S), NEW e \in S
  PROVE  /\ \A i \in 1 .. Len(j) : OpenAt(Append(j, e), i) <=> OpenAt(j, i) /\ j[i].bar # e.bar
         /\ OpenAt(Append(j, e), Len(j) + 1) <=> e.kind = "open"
<1> DEFINE k == Append(j, e)
<1>1. /\ DOMAIN k = 1 .. Len(j) + 1 /\ DOMAIN j = 1 .. Len(j) /\ Len(j) \in Nat
      /\ k[Len(j) + 1] = e /\ \A i \in 1 .. Len(j) : k[i] = j[i]
  BY AppendedEntry
<1> HIDE DEF k
<1>2. ASSUME NEW i \in 1 .. Len(j) PROVE OpenAt(k, i) <=> OpenAt(j, i) /\ j[i].bar # e.bar
  <2>1. DOMAIN k = DOMAIN j \cup {Len(j) + 1} /\ Len(j) + 1 > i
    BY <1>1
  <2> QED
    BY <1>1, <2>1 DEF OpenAt
<1>3. OpenAt(k, Len(j) + 1) <=> e.kind = "open"
  BY <1>1 DEF OpenAt
<1> QED
  BY <1>2, <1>3 DEF k

\* A journal stays recoverable if an event is a close just when its position
\* is open.
LEMMA RecoverableAppend ==
  ASSUME NEW S, NEW j \in Seq(S), NEW e \in S, RiskRecoveryValid(j),
         (e.kind = "close") <=> \E i \in DOMAIN j : OpenAt(j, i) /\ j[i].bar = e.bar
  PROVE  RiskRecoveryValid(Append(j, e))
<1> DEFINE k == Append(j, e)
           last == Len(j) + 1
<1>1. /\ DOMAIN k = 1 .. last /\ DOMAIN j = 1 .. Len(j) /\ Len(j) \in Nat
      /\ k[last] = e /\ \A i \in 1 .. Len(j) : k[i] = j[i]
  BY AppendedEntry
<1> HIDE DEF k
<1>2. ASSUME NEW i \in 1 .. Len(j) PROVE OpenBefore(k, i) <=> OpenBefore(j, i)
  <2>1. \A n \in 1 .. (i - 1) : n \in 1 .. Len(j) /\ \A m \in (n + 1) .. (i - 1) : m \in 1 .. Len(j)
    BY <1>1
  <2> QED
    BY <1>1, <2>1 DEF OpenBefore
<1>3. OpenBefore(k, last) <=> \E i \in DOMAIN j : OpenAt(j, i) /\ j[i].bar = e.bar
  <2>1. \A n \in DOMAIN j, m \in Int : m \in (n + 1) .. (last - 1) <=> m \in DOMAIN j /\ m > n
    BY <1>1
  <2>2. 1 .. (last - 1) = DOMAIN j
    BY <1>1
  <2>3. ASSUME NEW n \in DOMAIN j
        PROVE  (\A m \in (n + 1) .. (last - 1) : k[m].bar # k[last].bar) <=>
               (\A m \in DOMAIN j : m > n => j[m].bar # e.bar)
    BY <1>1, <2>1
  <2> QED
    BY <1>1, <2>2, <2>3 DEF OpenBefore, OpenAt
<1>4. ASSUME NEW i \in DOMAIN k PROVE (k[i].kind = "close") <=> OpenBefore(k, i)
  <2>1. CASE i \in 1 .. Len(j)
    BY <1>1, <1>2, <2>1 DEF RiskRecoveryValid
  <2>2. CASE i = last
    BY <1>1, <1>3, <2>2
  <2> QED
    BY <1>1, <2>1, <2>2
<1> QED
  BY <1>4 DEF RiskRecoveryValid, k

\* The journals K are the journals J with event e added to the one of s.
Adds(J, K, s, e) == K[s] = Append(J[s], e) /\ \A t \in Symbol \ {s} : K[t] = J[t]

\* An event takes the place of the open position of its bar.
LEMMA PositionsAfter ==
  ASSUME NEW S, NEW J \in [Symbol -> Seq(S)], NEW s \in Symbol, NEW e \in S,
         NEW K, Adds(J, K, s, e), NEW p
  PROVE  p \in OpenPositions(K) <=>
           \/ p \in OpenPositions(J) /\ ~(p.symbol = s /\ p.bar = e.bar)
           \/ e.kind = "open" /\ p = AsPosition(s, e)
<1> DEFINE Shows(X, t, i) == OpenAt(X[t], i) /\ p = AsPosition(t, X[t][i])
<1>1. /\ p \in OpenPositions(K) <=> \E t \in Symbol : \E i \in DOMAIN K[t] : Shows(K, t, i)
      /\ p \in OpenPositions(J) <=> \E t \in Symbol : \E i \in DOMAIN J[t] : Shows(J, t, i)
  BY PositionIn
<1>2. \A t \in Symbol : \A i : AsPosition(t, J[t][i]).symbol = t /\ AsPosition(t, J[t][i]).bar = J[t][i].bar
  BY DEF AsPosition
<1>3. ASSUME NEW t \in Symbol \ {s}
      PROVE  (\E i \in DOMAIN K[t] : Shows(K, t, i)) <=>
             (\E i \in DOMAIN J[t] : Shows(J, t, i)) /\ (p.symbol = t)
  BY <1>2, <1>3 DEF Adds
<1>4. (\E i \in DOMAIN K[s] : Shows(K, s, i)) <=>
        \/ \E i \in DOMAIN J[s] : Shows(J, s, i) /\ p.bar # e.bar
        \/ e.kind = "open" /\ p = AsPosition(s, e)
  <2>1. /\ K[s] = Append(J[s], e) /\ DOMAIN K[s] = 1 .. Len(J[s]) + 1
        /\ DOMAIN J[s] = 1 .. Len(J[s]) /\ Len(J[s]) \in Nat
        /\ K[s][Len(J[s]) + 1] = e /\ \A i \in 1 .. Len(J[s]) : K[s][i] = J[s][i]
    BY AppendedEntry DEF Adds
  <2>2. /\ \A i \in 1 .. Len(J[s]) : OpenAt(K[s], i) <=> OpenAt(J[s], i) /\ J[s][i].bar # e.bar
        /\ OpenAt(K[s], Len(J[s]) + 1) <=> e.kind = "open"
    BY <2>1, OpenAtAppend
  <2>3. \A i \in 1 .. Len(J[s]) : Shows(K, s, i) <=> Shows(J, s, i) /\ p.bar # e.bar
    BY <1>2, <2>1, <2>2
  <2>4. Shows(K, s, Len(J[s]) + 1) <=> e.kind = "open" /\ p = AsPosition(s, e)
    BY <2>1, <2>2
  <2> HIDE DEF Shows
  <2> QED
    BY <2>1, <2>3, <2>4
<1>5. \A t \in Symbol : (\E i \in DOMAIN J[t] : Shows(J, t, i)) => p.symbol = t
  BY <1>2
<1> HIDE DEF Shows
<1> QED
  BY <1>1, <1>3, <1>4, <1>5

\* An import is the first event of its journal.
LEMMA FirstEvent ==
  ASSUME NEW S, NEW e \in S
  PROVE  <<>> \in Seq(S) /\ <<e>> = Append(<<>>, e) /\ DOMAIN <<e>> = {1} /\ <<e>>[1] = e
OBVIOUS

-----------------------------------------------------------------------------
\* Types

\* Open positions of well-typed journals are positions.
LEMMA PositionTypes ==
  ASSUME NEW J, \A s \in Symbol : J[s] \in Seq(Event)
  PROVE  OpenPositions(J) \subseteq Position
<1> SUFFICES ASSUME NEW p \in OpenPositions(J) PROVE p \in Position
  OBVIOUS
<1>1. PICK s \in Symbol : \E i \in DOMAIN J[s] : OpenAt(J[s], i) /\ p = AsPosition(s, J[s][i])
  BY PositionIn
<1>2. PICK i \in DOMAIN J[s] : p = AsPosition(s, J[s][i])
  BY <1>1
<1>3. J[s][i] \in Event
  <2>1. J[s] \in Seq(Event)
    OBVIOUS
  <2> QED
    BY <2>1, ElementOfSeq
<1> QED
  BY <1>2, <1>3 DEF AsPosition, Event, Position

\* The session sees what there is if it was started with all symbols.
LEMMA FullView ==
  ASSUME TypeOK, NEW g \in Generation
  PROVE  /\ \A s \in Symbol : View(g)[s] \in Seq(Event) /\ journal[g][s] \in Seq(Event)
         /\ OpenPositions(View(g)) \subseteq Position /\ OpenPositions(journal[g]) \subseteq Position
         /\ watched = Symbol => View(g) = journal[g]
<1>1. \A s \in Symbol : View(g)[s] \in Seq(Event) /\ journal[g][s] \in Seq(Event)
  <2>1. <<>> \in Seq(Event)
    OBVIOUS
  <2> QED
    BY <2>1 DEF View, TypeOK
<1>2. watched = Symbol => View(g) = journal[g]
  BY DEF View, TypeOK
<1> QED
  BY <1>1, <1>2, PositionTypes

\* What the programs write are events.
LEMMA EventTypes ==
  ASSUME TypeOK
  PROVE  /\ \A b \in Bar, i \in BOOLEAN : OpenEvent(b, i) \in Event
         /\ \A p \in Position : CloseEvent(p) \in Event
BY DEF TypeOK, OpenEvent, CloseEvent, Event, Position

\* A further event in one journal of one namespace, as every write appends it.
LEMMA JournalTypes ==
  ASSUME TypeOK, NEW g \in Generation, NEW s \in Symbol, NEW e \in Event
  PROVE  /\ [journal EXCEPT ![g][s] = Append(@, e)] \in [Generation -> [Symbol -> Seq(Event)]]
         /\ [journal EXCEPT ![g][s] = <<e>>] \in [Generation -> [Symbol -> Seq(Event)]]
         /\ Adds(journal[g], [journal EXCEPT ![g][s] = Append(@, e)][g], s, e)
         /\ \A h \in Generation \ {g} : [journal EXCEPT ![g][s] = Append(@, e)][h] = journal[h]
         /\ journal[g][s] = <<>> =>
              [journal EXCEPT ![g][s] = <<e>>] = [journal EXCEPT ![g][s] = Append(@, e)]
<1>1. journal \in [Generation -> [Symbol -> Seq(Event)]] /\ journal[g][s] \in Seq(Event)
  BY DEF TypeOK
<1>2. Append(journal[g][s], e) \in Seq(Event) /\ <<e>> \in Seq(Event)
  BY <1>1, AppendProperties
<1>3. ASSUME NEW q \in Seq(Event)
      PROVE  [journal EXCEPT ![g][s] = q] \in [Generation -> [Symbol -> Seq(Event)]]
  BY <1>1
<1>4. Adds(journal[g], [journal EXCEPT ![g][s] = Append(@, e)][g], s, e)
  BY <1>1 DEF Adds
<1> QED
  BY <1>1, <1>2, <1>3, <1>4, FirstEvent

-----------------------------------------------------------------------------
\* The steps of the programs, told apart by what they change

\* The steps at which a candidate is entered, and those that have due candidates.
Entering == {"watch", "revalidate", "governor", "open"}
Dealing == {"entries", "policy"} \cup Entering

\* The steps after memory was compared with the journals.
Checked == Loop \ {"update", "refresh"}

\* A step of the loop that changes nothing but where the session is.
Move ==
  /\ pc \in Loop /\ pc' \in Loop
  /\ pc' \in Entering => pc \in Entering
  /\ pc' \in Dealing => pc \in Dealing
  /\ pc' \in Checked => pc \in Checked \/ Refreshed
  /\ pc \in {"opened", "end"} => pc' \in {"opened", "end"}
  /\ UNCHANGED <<world, operator, journal, watched, recovered, memory, anchor, enabled, cycle>>

\* The entry is given up, and what the cycle has found with it.
Retreat ==
  /\ pc \in Entering /\ Again
  /\ UNCHANGED <<world, operator, journal, watched, recovered, memory, anchor, enabled>>

\* Startup, and the steps of the loop that the programs share.
Recover == (generation = LivePolicy /\ PolicyRecover) \/ RiskRecover \/ RecoverCurrent

Admit ==
  /\ pc = "gate" /\ TakeOver
  /\ generation = LivePolicy \/ Continues(Consumed(Predecessor))

Watch ==
  /\ pc = "update" /\ Monitor
  /\ pc' = "refresh" \/ (generation = LivePolicy /\ pc' = "bars")

Look == FindTransitions \/ TakeSnapshots \/ AskAuthorities \/ WatchEntries

Pick == Choose({}) \/ Arbitrate

Enter == OpenSelected("opened") \/ OpenSelected("end")

\* The four programs differ in which of these steps they have, not in what
\* the steps do.
LEMMA ProgramSteps ==
  ASSUME Start \/ Polling
  PROVE  \/ \E list \in SymbolLists : StartSession(list)
         \/ Recover \/ Admit \/ Watch \/ Move \/ Retreat \/ Look \/ Pick \/ Enter \/ EndCycle
<1>1. CASE \E list \in SymbolLists : StartNamed(list)
  BY <1>1 DEF StartNamed, PolicyStart, RiskStart, GovernedStart
<1>2. CASE Start /\ ~\E list \in SymbolLists : StartNamed(list)
  <2>1. generation = LivePolicy /\ PolicyTakeOver => Admit
    BY DEF PolicyTakeOver, Admit
  <2>2. RiskGate \/ GovernedGate \/ PassGate => Admit
    BY DEF RiskGate, GovernedGate, PassGate, Admit, RiskConsumed, GovernedConsumed,
      RiskTakeOver, GovernedTakeOver
  <2>3. GovernedRecover => RecoverCurrent
    BY DEF GovernedRecover, RecoverCurrent, GovernedRecoveriesAgree, GovernedUsable
  <2> QED
    BY <1>2, <2>1, <2>2, <2>3 DEF Start, LongRunningStart, Recover
<1>3. CASE generation = LivePolicy /\ PolicyCycle
  <2>1. PolicyFinalWatch \/ PolicyRevalidate => Move
    BY DEF PolicyFinalWatch, FinalWatch, PolicyRevalidate, Move, Loop, Entering, Dealing, Checked
  <2>2. PolicyUpdate => Watch
    BY <1>3 DEF PolicyUpdate, Watch
  <2> QED
    BY <1>3, <2>1, <2>2 DEF PolicyCycle, PolicyTransitions, PolicySnapshots, PolicyAuthorities,
      PolicyEntries, PolicyArbitrate, PolicyOpen, PolicyEndCycle, Look, Pick, Enter
<1>4. UpdatePosition => Watch
  BY DEF UpdatePosition, Watch
<1>5. PostOpen \/ FinalWatch => Move
  BY DEF PostOpen, FinalWatch, Move, Loop, Entering, Dealing, Checked
<1>6. RevalidateEntry => Move \/ Retreat
  BY DEF RevalidateEntry, Again, Move, Retreat, Loop, Entering, Dealing, Checked
<1>7. CASE RiskCycle
  <2>1. RiskRefresh \/ RiskRevalidate => Move
    BY DEF RiskRefresh, RiskRevalidate, RiskRefreshed, Move, Loop, Entering, Dealing, Checked
  <2> QED
    BY <1>4, <1>5, <1>7, <2>1 DEF RiskCycle, RiskUpdate, RiskTransitions, RiskSnapshots,
      RiskAuthorities, RiskEntries, RiskArbitrate, RiskFinalWatch, RiskOpen, OpenShadow,
      RiskPostOpen, RiskEndCycle, Look, Pick, Enter
<1>8. CASE GovernedCycle
  <2>1. GovernedRefresh \/ GovernedHealth => Move
    BY DEF GovernedRefresh, GovernedHealth, GovernedRefreshed, Move, Loop, Entering, Dealing,
      Checked
  <2>2. GovernedFinalGovernor => Move \/ Retreat
    BY DEF GovernedFinalGovernor, Again, Move, Retreat, Loop, Entering, Dealing, Checked
  <2> QED
    BY <1>4, <1>5, <1>6, <1>8, <2>1, <2>2 DEF GovernedCycle, GovernedUpdate,
      GovernedTransitions, GovernedSnapshots, GovernedAuthorities, GovernedEntries,
      GovernedArbitrate, GovernedFinalWatch, GovernedRevalidate, GovernedOpen, OpenShadow,
      GovernedPostOpen, GovernedEndCycle, Look, Pick, Enter
<1>9. CASE LongRunningCycle
  <2>1. RefreshPortfolio \/ CheckHealth \/ Supervise => Move
    BY DEF RefreshPortfolio, CheckHealth, Supervise, Move, Loop, Entering, Dealing, Checked
  <2>2. FinalGovernor => Move \/ Retreat
    BY DEF FinalGovernor, Again, Move, Retreat, Loop, Entering, Dealing, Checked
  <2> QED
    BY <1>4, <1>5, <1>6, <1>9, <2>1, <2>2 DEF LongRunningCycle, OpenShadow, Look, Pick, Enter
<1> QED
  BY <1>1, <1>2, <1>3, <1>7, <1>8, <1>9 DEF Polling

-----------------------------------------------------------------------------
\* The invariants

\* Future namespaces are empty.
ChainInv ==
  /\ generation >= FirstGeneration
  /\ \A g \in Generation : g > generation => journal[g] = NoEvents

\* Before a program is past its gate, its namespace holds nothing but imports.
ImportedFrom(s) ==
  /\ generation > LivePolicy
  /\ \E p \in OpenPositions(journal[generation - 1]) :
       p.symbol = s /\ journal[generation][s] = <<OpenEvent(p.bar, TRUE)>>

ImportInv ==
  /\ ~entered => \A s \in Symbol : journal[generation][s] = <<>> \/ ImportedFrom(s)
  /\ staged # {} => generation > LivePolicy /\ staged \subseteq OpenPositions(journal[generation - 1])

\* A session monitors nothing that its journals do not say is open.
MemoryInv ==
  /\ pc = "gate" => recovered \subseteq OpenPositions(journal[generation])
  /\ pc \in Loop => entered /\ memory \subseteq OpenPositions(journal[generation])
  /\ pc \in Entering => memory = {}

\* Candidates have a new bar.
DealInv == pc \in Dealing => selected \subseteq Due

\* The bars of a journal, and those of s in all namespaces.
BarsOf(j) == {j[i].bar : i \in DOMAIN j}
Traded(s) == UNION {BarsOf(journal[g][s]) : g \in Generation}

\* Bars are traded in their order, up to the anchor of an enabled symbol.
BarWithin(s, b) ==
  /\ b <= latest[s]
  /\ pc \in Loop \cup {"gate"} /\ s \in enabled =>
       \/ b <= anchor[s]
       \/ pc \in {"opened", "end"} /\ b = due[s]

BarInv ==
  /\ \A s \in Symbol : \A b \in Traded(s) : BarWithin(s, b)
  /\ \A s \in Due : s \in enabled /\ anchor[s] < due[s] /\ due[s] <= latest[s]
  /\ pc \in {"down"} \cup Startup => due = NoBar

\* Every journal replays: each close has its open, no open has another.
Recoverable == \A g \in Generation, s \in Symbol : RiskRecoveryValid(journal[g][s])

\* Whatever the operator does.
RecordInv ==
  /\ TypeOK
  /\ ChainInv /\ ImportInv /\ MemoryInv /\ DealInv /\ BarInv
  /\ EachBarOnce /\ Recoverable

CarriedOver(g) == \A p \in OpenPositions(journal[g - 1]) : Imported(g, p)

\* A program that was ever past its gate has what its predecessor left open.
HandOverInv ==
  \A g \in Generation :
    g > LivePolicy /\ (g < generation \/ (g = generation /\ entered)) => CarriedOver(g)

\* If every session has all symbols.
CarryInv ==
  /\ RecordInv
  /\ pc # "down" => watched = Symbol
  /\ HandOverInv

\* A namespace has one open position at most.
OneInv == \A g \in Generation : \A p, q \in OpenPositions(journal[g]) : p = q

\* The first program always knows it, the others once they have compared
\* their memory with the journals.
KnownInv ==
  /\ pc = "gate" /\ generation = LivePolicy => recovered = OpenPositions(journal[generation])
  /\ pc \in Loop /\ (generation = LivePolicy \/ pc \in Checked) =>
       memory = OpenPositions(journal[generation])

\* If every session has read all journals.
PortfolioInv == CarryInv /\ OneInv /\ KnownInv

\* If no import runs next to a session.
MonitorInv ==
  /\ pc = "gate" => recovered = OpenPositions(journal[generation])
  /\ PositionIsMonitored

-----------------------------------------------------------------------------
\* The three writes

\* Event e is appended to the journal of s in the namespace in use.
Written(s, e) ==
  /\ s \in Symbol /\ e \in Event
  /\ journal' \in [Generation -> [Symbol -> Seq(Event)]]
  /\ Adds(journal[generation], journal'[generation], s, e)
  /\ \A h \in Generation \ {generation} : journal'[h] = journal[h]

\* Every write has this form.
LEMMA WrittenBy ==
  ASSUME TypeOK, NEW s \in Symbol, NEW e \in Event,
         journal' = [journal EXCEPT ![generation][s] = Append(@, e)]
  PROVE  Written(s, e)
<1>1. generation \in Generation
  BY DEF TypeOK
<1> QED
  BY <1>1, JournalTypes DEF Written

\* Monitoring writes the close of the position in memory, or nothing.
LEMMA WatchWrites ==
  ASSUME TypeOK, Watch
  PROVE  \/ UNCHANGED <<journal, memory, reached>>
         \/ \E p \in memory : /\ Written(p.symbol, CloseEvent(p))
                              /\ memory' = {} /\ reached' = FALSE
<1>1. ASSUME NEW p \in memory, Close(p) PROVE Written(p.symbol, CloseEvent(p))
  <2>1. p \in Position /\ p.symbol \in Symbol
    BY DEF TypeOK, Position
  <2> QED
    BY <1>1, <2>1, EventTypes, WrittenBy DEF Close
<1> QED
  BY <1>1 DEF Watch, Monitor, Monitored

\* Entering writes the open of a selected candidate at its new bar, or nothing.
LEMMA EnterWrites ==
  ASSUME TypeOK, DealInv, Enter
  PROVE  \/ UNCHANGED <<journal, memory>> /\ pc' = "end"
         \/ \E s \in selected : /\ s \in Due /\ due[s] \in Bar
                                /\ Written(s, OpenEvent(due[s], FALSE))
                                /\ memory' = {AsPosition(s, OpenEvent(due[s], FALSE))}
                                /\ pc' \in {"opened", "end"}
<1>1. pc = "open" /\ selected \subseteq Due
  BY DEF Enter, OpenSelected, DealInv, Dealing, Entering
<1>2. ASSUME NEW s \in selected PROVE s \in Symbol /\ s \in Due /\ due[s] \in Bar
  BY <1>1 DEF TypeOK, Due
<1>3. ASSUME NEW s \in selected,
             journal' = [journal EXCEPT ![generation][s] = Append(@, OpenEvent(due[s], FALSE))]
      PROVE  Written(s, OpenEvent(due[s], FALSE))
  BY <1>2, <1>3, EventTypes, WrittenBy
<1>4. \A s : [symbol |-> s, bar |-> due[s], order |-> NoOrder, epoch |-> due[s]] =
               AsPosition(s, OpenEvent(due[s], FALSE))
  BY DEF AsPosition, OpenEvent
<1> QED
  BY <1>2, <1>3, <1>4 DEF Enter, OpenSelected

\* A commit writes the open of the staged position, into an empty journal.
LEMMA ImportWrites ==
  ASSUME TypeOK, CommitImport
  PROVE  \E p \in staged : /\ p \in Position /\ journal[generation][p.symbol] = <<>>
                           /\ Written(p.symbol, OpenEvent(p.bar, TRUE))
<1>1. PICK p \in staged :
        /\ journal[generation][p.symbol] = <<>>
        /\ journal' = [journal EXCEPT ![generation][p.symbol] = <<OpenEvent(p.bar, TRUE)>>]
  BY DEF CommitImport
<1>2. p \in Position /\ p.symbol \in Symbol /\ p.bar \in Bar /\ generation \in Generation
  BY DEF TypeOK, Position
<1>3. OpenEvent(p.bar, TRUE) \in Event
  BY <1>2, EventTypes
<1>4. journal' = [journal EXCEPT ![generation][p.symbol] = Append(@, OpenEvent(p.bar, TRUE))]
  BY <1>1, <1>2, <1>3, JournalTypes
<1>5. Written(p.symbol, OpenEvent(p.bar, TRUE))
  BY <1>2, <1>3, <1>4, WrittenBy
<1> QED
  BY <1>1, <1>2, <1>5

-----------------------------------------------------------------------------
\* Types are kept

\* The variables begin with their types,
LEMMA TypeInit == Init => TypeOK
<1> SUFFICES ASSUME Init PROVE TypeOK
  OBVIOUS
<1>1. PICK open \in {{}} \cup {{s} : s \in Symbol} :
        journal = [g \in Generation |->
                     IF g = FirstGeneration - 1
                     THEN [s \in Symbol |-> IF s \in open THEN <<OpenEvent(0, FALSE)>> ELSE <<>>]
                     ELSE NoEvents]
  BY DEF Init
<1>2. <<>> \in Seq(Event) /\ \A s \in Symbol : <<OpenEvent(0, FALSE)>> \in Seq(Event)
  BY ConstantFacts DEF OpenEvent, Event
<1>3. journal \in [Generation -> [Symbol -> Seq(Event)]]
  BY <1>1, <1>2 DEF NoEvents
<1> QED
  BY <1>3, ConstantFacts DEF Init, EmptySession, NoBar, TypeOK

\* and no step takes them away.
LEMMA TypeStep ==
  ASSUME TypeOK, DealInv, [Next]_vars
  PROVE  TypeOK'
<1>0. TypeOK /\ DealInv /\ generation \in Generation
  BY DEF TypeOK
<1> USE ConstantFacts
<1>1. CASE \E list \in SymbolLists : StartSession(list)
  BY <1>0, <1>1, ShadowAssumption DEF StartSession, TypeOK, Startup, world, operator, cycle
<1>2. CASE Recover
  <2>1. recovered' \subseteq OpenPositions(View(generation))
    BY <1>2 DEF Recover, PolicyRecover, PolicyRecovered, RiskRecover, RiskRecovered, RecoverCurrent
  <2>2. enabled' \subseteq Symbol
    BY <1>0, <1>2 DEF Recover, PolicyRecover, PolicyObserved, RiskRecover, RecoverCurrent,
      EnableUsable, TypeOK
  <2>3. anchor' \in [Symbol -> Bar]
    BY <1>0, <1>2 DEF Recover, PolicyRecover, RiskRecover, RecoverCurrent, AnchorEnabled, TypeOK
  <2> QED
    BY <1>0, <1>2, <2>1, <2>2, <2>3, FullView DEF Recover, PolicyRecover, RiskRecover,
      RecoverCurrent, TypeOK, Startup, world, operator, cycle
<1>3. CASE Admit
  BY <1>0, <1>3 DEF Admit, TakeOver, TypeOK, Loop, world, cycle
<1>4. CASE Watch
  BY <1>0, <1>4, WatchWrites DEF Watch, Monitor, Written, TypeOK, Loop, operator, cycle
<1>5. CASE Move \/ Retreat
  BY <1>0, <1>5 DEF Move, Retreat, Again, NoBar, TypeOK, Loop, world, operator, cycle
<1>6. CASE FindTransitions
  BY <1>0, <1>6 DEF FindTransitions, TypeOK, Loop, world, operator
<1>7. CASE TakeSnapshots
  <2>1. PICK outcome \in [Due -> {"taken", "passed", "failed"}] :
          LET With(o) == {s \in Due : outcome[s] = o}
          IN  /\ anchor' = [s \in Symbol |-> IF s \in With("passed") THEN due[s] ELSE anchor[s]]
              /\ enabled' = enabled \ With("failed")
              /\ due' = [s \in Symbol |-> IF s \in With("taken") THEN due[s] ELSE None]
    BY <1>7 DEF TakeSnapshots
  <2>2. anchor' \in [Symbol -> Bar] /\ enabled' \subseteq Symbol /\ due' \in [Symbol -> Bar \cup {None}]
    BY <1>0, <2>1 DEF Due, TypeOK
  <2> QED
    BY <1>0, <1>7, <2>2 DEF TakeSnapshots, TypeOK, Loop, world, operator
<1>8. CASE AskAuthorities \/ WatchEntries
  BY <1>0, <1>8 DEF AskAuthorities, Analysed, WatchEntries, Due, TypeOK, Loop, world, operator
<1>9. CASE Pick
  <2>1. selected' \subseteq selected /\ pc' \in {"end", "watch"}
    BY <1>9 DEF Pick, Choose, Arbitrate, FirstOf
  <2> QED
    BY <1>0, <1>9, <2>1 DEF Pick, Arbitrate, Choose, TypeOK, Loop, world, operator
<1>10. CASE Enter
  <2>1. memory' \subseteq Position
    <3>1. ASSUME NEW s \in Symbol, due[s] \in Bar PROVE AsPosition(s, OpenEvent(due[s], FALSE)) \in Position
      BY <3>1 DEF AsPosition, OpenEvent, Position
    <3> QED
      BY <1>0, <1>10, <3>1, EnterWrites DEF TypeOK, Due
  <2>2. journal' \in [Generation -> [Symbol -> Seq(Event)]] /\ pc' \in Loop
    BY <1>0, <1>10, EnterWrites DEF Written, TypeOK, Loop
  <2> QED
    BY <1>0, <1>10, <2>1, <2>2 DEF Enter, OpenSelected, TypeOK, world, operator, cycle
<1>11. CASE EndCycle
  <2>1. ASSUME NEW s \in Symbol, anchor[s] < due[s] PROVE due[s] \in Bar
    <3>1. due[s] \in Bar \cup {-1} /\ anchor[s] \in Nat
      BY <1>0 DEF TypeOK, None
    <3> QED
      BY <2>1, <3>1
  <2>2. anchor' \in [Symbol -> Bar]
    BY <1>0, <1>11, <2>1 DEF EndCycle, TypeOK
  <2> QED
    BY <1>0, <1>11, <2>2 DEF EndCycle, Again, NoBar, TypeOK, Loop, world, operator
<1>12. CASE Stop
  BY <1>0, <1>12 DEF Stop, Forget, NoBar, TypeOK, operator
<1>13. CASE CommitImport
  BY <1>0, <1>13, ImportWrites DEF CommitImport, Written, TypeOK, world, session, cycle
<1>14. CASE StageImport \/ AbandonImport \/ ToggleSwitch
  BY <1>0, <1>14 DEF StageImport, AbandonImport, ToggleSwitch, TypeOK, world, operator, session, cycle
<1>15. CASE NextProgram
  <2>1. generation + 1 \in Generation
    BY <1>0, <1>15 DEF NextProgram, Generation
  <2> QED
    BY <1>0, <1>15, <2>1 DEF NextProgram, TypeOK, world, session, cycle
<1>16. CASE Market
  <2>1. ASSUME NEW s \in Symbol, NewBar(s) PROVE latest' \in [Symbol -> Bar]
    <3>1. latest[s] \in Nat /\ Last[s] \in Nat
      BY <1>0, ShadowAssumption DEF TypeOK
    <3>2. latest[s] + 1 \in 0 .. Last[s]
      BY <2>1, <3>1 DEF NewBar
    <3>3. latest[s] + 1 \in Bar
      BY <3>2
    <3> QED
      BY <1>0, <2>1, <3>3 DEF NewBar, TypeOK
  <2> QED
    BY <1>0, <1>16, <2>1 DEF Market, Quote, NewBar, TypeOK, operator, session, cycle
<1>17. CASE UNCHANGED vars
  BY <1>0, <1>17 DEF vars, world, operator, session, cycle, TypeOK
<1> QED
  BY <1>1, <1>2, <1>3, <1>4, <1>5, <1>6, <1>7, <1>8, <1>9, <1>10, <1>11, <1>12, <1>13,
    <1>14, <1>15, <1>16, <1>17, ProgramSteps DEF Next, Operator, Look

\* The candidates of a cycle keep their bars until it ends.
LEMMA DealStep ==
  ASSUME DealInv, [Next]_vars
  PROVE  DealInv'
<1> USE DEF DealInv, Loop, Entering, Dealing
<1>1. CASE (\E list \in SymbolLists : StartSession(list)) \/ Recover \/ Admit \/ Watch
  BY <1>1 DEF StartSession, Recover, PolicyRecover, RiskRecover, RecoverCurrent, Admit, TakeOver,
    Watch
<1>2. CASE Move \/ Retreat \/ Enter \/ EndCycle
  BY <1>2 DEF Move, Retreat, Again, Enter, OpenSelected, EndCycle, cycle, Due
<1>3. CASE Look
  BY <1>3 DEF Look, FindTransitions, TakeSnapshots, AskAuthorities, Analysed, WatchEntries, Due
<1>4. CASE Pick
  <2>1. pc = "policy" /\ selected' \subseteq selected /\ UNCHANGED due
    BY <1>4 DEF Pick, Choose, Arbitrate, FirstOf
  <2> QED
    BY <2>1 DEF Due
<1>5. CASE Stop
  BY <1>5 DEF Stop, Forget
<1>6. CASE Operator \/ Market \/ UNCHANGED vars
  BY <1>6 DEF Operator, StageImport, CommitImport, AbandonImport, NextProgram, ToggleSwitch,
    Market, Quote, NewBar, vars, session, cycle, Due
<1> QED
  BY <1>1, <1>2, <1>3, <1>4, <1>5, <1>6, ProgramSteps DEF Next

\* Whatever the operator does, all variables keep their types.
THEOREM TypeCorrect == Spec => []TypeOK
<1> DEFINE TInv == TypeOK /\ DealInv
<1>1. Init => TInv
  BY TypeInit DEF Init, EmptySession, DealInv, Dealing, Entering
<1>2. TInv /\ [Next]_vars => TInv'
  BY TypeStep, DealStep
<1> QED
  BY <1>1, <1>2, PTL DEF Spec


-----------------------------------------------------------------------------
\* What a write adds

\* One entry more in one journal, and all others as they were.
LEMMA EntriesAfter ==
  ASSUME TypeOK, NEW s, NEW e, Written(s, e)
  PROVE  \E last \in Nat :
           /\ last \notin DOMAIN journal[generation][s]
           /\ DOMAIN journal'[generation][s] = DOMAIN journal[generation][s] \cup {last}
           /\ journal'[generation][s][last] = e
           /\ \A i \in DOMAIN journal[generation][s] :
                i < last /\ journal'[generation][s][i] = journal[generation][s][i]
           /\ \A t \in Symbol \ {s} : journal'[generation][t] = journal[generation][t]
           /\ \A g \in Generation \ {generation} : journal'[g] = journal[g]
<1> DEFINE j == journal[generation][s]
<1>1. s \in Symbol /\ e \in Event /\ j \in Seq(Event) /\ journal'[generation][s] = Append(j, e)
  BY DEF Written, Adds, TypeOK
<1>2. /\ DOMAIN journal'[generation][s] = 1 .. Len(j) + 1
      /\ DOMAIN j = 1 .. Len(j) /\ Len(j) \in Nat
      /\ journal'[generation][s][Len(j) + 1] = e
      /\ \A i \in 1 .. Len(j) : journal'[generation][s][i] = j[i]
  BY <1>1, AppendedEntry
<1>3. /\ \A t \in Symbol \ {s} : journal'[generation][t] = journal[generation][t]
      /\ \A g \in Generation \ {generation} : journal'[g] = journal[g]
  BY DEF Written, Adds
<1> HIDE DEF j
<1>4. /\ Len(j) + 1 \in Nat /\ Len(j) + 1 \notin DOMAIN j
      /\ DOMAIN journal'[generation][s] = DOMAIN j \cup {Len(j) + 1}
      /\ \A i \in DOMAIN j : i < Len(j) + 1 /\ journal'[generation][s][i] = j[i]
  BY <1>2
<1> QED
  BY <1>2, <1>3, <1>4 DEF j

\* Every open position is an entry of its journal.
LEMMA PositionEntry ==
  ASSUME TypeOK, NEW g \in Generation, NEW p \in OpenPositions(journal[g])
  PROVE  /\ p \in Position /\ p.symbol \in Symbol
         /\ \E i \in DOMAIN journal[g][p.symbol] :
              journal[g][p.symbol][i].bar = p.bar /\ journal[g][p.symbol][i].kind = "open"
<1>1. PICK s \in Symbol : \E i \in DOMAIN journal[g][s] :
               OpenAt(journal[g][s], i) /\ p = AsPosition(s, journal[g][s][i])
  BY PositionIn
<1>2. p.symbol = s /\ \E i \in DOMAIN journal[g][s] : OpenAt(journal[g][s], i) /\ p.bar = journal[g][s][i].bar
  BY <1>1 DEF AsPosition
<1>3. p \in Position
  BY FullView
<1> QED
  BY <1>2, <1>3 DEF OpenAt

\* A close leaves nothing of the one open position,
LEMMA ClosedAfter ==
  ASSUME TypeOK, OneInv, NEW p \in OpenPositions(journal[generation]),
         Written(p.symbol, CloseEvent(p))
  PROVE  OpenPositions(journal'[generation]) = {}
<1>1. generation \in Generation
  BY DEF TypeOK
<1>2. ASSUME NEW q \in OpenPositions(journal'[generation]) PROVE FALSE
  <2>1. journal[generation] \in [Symbol -> Seq(Event)]
    BY <1>1 DEF TypeOK
  <2>2. q \in OpenPositions(journal'[generation]) <=>
          \/ q \in OpenPositions(journal[generation]) /\ ~(q.symbol = p.symbol /\ q.bar = CloseEvent(p).bar)
          \/ CloseEvent(p).kind = "open" /\ q = AsPosition(p.symbol, CloseEvent(p))
    BY <2>1, PositionsAfter DEF Written
  <2>3. CloseEvent(p).kind # "open" /\ CloseEvent(p).bar = p.bar
    BY DEF CloseEvent
  <2>4. q \in OpenPositions(journal[generation]) => q = p
    BY <1>1 DEF OneInv
  <2> QED
    BY <1>2, <2>2, <2>3, <2>4
<1> QED
  BY <1>2

\* an open adds its own,
LEMMA OpenedIn ==
  ASSUME TypeOK, NEW s, NEW b, NEW i, Written(s, OpenEvent(b, i))
  PROVE  AsPosition(s, OpenEvent(b, i)) \in OpenPositions(journal'[generation])
<1>1. /\ journal[generation] \in [Symbol -> Seq(Event)]
      /\ s \in Symbol /\ OpenEvent(b, i) \in Event
      /\ Adds(journal[generation], journal'[generation], s, OpenEvent(b, i))
  BY DEF TypeOK, Written
<1>2. OpenEvent(b, i).kind = "open"
  BY DEF OpenEvent
<1> QED
  BY <1>1, <1>2, PositionsAfter

\* an import takes nothing away,
LEMMA KeptByImport ==
  ASSUME TypeOK, NEW s, NEW e, Written(s, e), journal[generation][s] = <<>>
  PROVE  OpenPositions(journal[generation]) \subseteq OpenPositions(journal'[generation])
<1>1. /\ journal[generation] \in [Symbol -> Seq(Event)] /\ generation \in Generation
      /\ s \in Symbol /\ e \in Event
      /\ Adds(journal[generation], journal'[generation], s, e)
  BY DEF TypeOK, Written
<1>2. ASSUME NEW p \in OpenPositions(journal[generation]) PROVE p.symbol # s
  <2>1. DOMAIN journal[generation][s] = {}
    OBVIOUS
  <2> QED
    BY <1>1, <2>1, PositionEntry
<1> QED
  BY <1>1, <1>2, PositionsAfter

\* and an open into an empty portfolio leaves nothing but its own.
LEMMA OpenedAfter ==
  ASSUME TypeOK, OpenPositions(journal[generation]) = {}, NEW s, NEW b, NEW i,
         Written(s, OpenEvent(b, i))
  PROVE  OpenPositions(journal'[generation]) = {AsPosition(s, OpenEvent(b, i))}
<1>1. journal[generation] \in [Symbol -> Seq(Event)]
  BY DEF TypeOK
<1>2. ASSUME NEW q
      PROVE  q \in OpenPositions(journal'[generation]) <=> q = AsPosition(s, OpenEvent(b, i))
  <2>1. q \in OpenPositions(journal'[generation]) <=>
          \/ q \in OpenPositions(journal[generation]) /\ ~(q.symbol = s /\ q.bar = OpenEvent(b, i).bar)
          \/ OpenEvent(b, i).kind = "open" /\ q = AsPosition(s, OpenEvent(b, i))
    <3>1. /\ s \in Symbol /\ OpenEvent(b, i) \in Event
          /\ Adds(journal[generation], journal'[generation], s, OpenEvent(b, i))
      BY DEF Written
    <3> QED
      BY <1>1, <3>1, PositionsAfter
  <2>2. OpenEvent(b, i).kind = "open"
    BY DEF OpenEvent
  <2> QED
    BY <2>1, <2>2
<1> QED
  BY <1>2

-----------------------------------------------------------------------------
\* The bars of the journals

\* The bar of the event is the only one that is new.
LEMMA BarsAfter ==
  ASSUME TypeOK, NEW s, NEW e, Written(s, e)
  PROVE  /\ BarsOf(journal'[generation][s]) = BarsOf(journal[generation][s]) \cup {e.bar}
         /\ \A g \in Generation, t \in Symbol :
              ~(g = generation /\ t = s) => journal'[g][t] = journal[g][t]
<1>1. PICK last \in Nat :
           /\ last \notin DOMAIN journal[generation][s]
           /\ DOMAIN journal'[generation][s] = DOMAIN journal[generation][s] \cup {last}
           /\ journal'[generation][s][last] = e
           /\ \A i \in DOMAIN journal[generation][s] :
                i < last /\ journal'[generation][s][i] = journal[generation][s][i]
           /\ \A t \in Symbol \ {s} : journal'[generation][t] = journal[generation][t]
           /\ \A h \in Generation \ {generation} : journal'[h] = journal[h]
  BY EntriesAfter
<1> QED
  BY <1>1 DEF BarsOf

\* Traded bars are bars.
LEMMA TradedTypes ==
  ASSUME TypeOK, NEW s \in Symbol
  PROVE  Traded(s) \subseteq Bar /\ Traded(s) \subseteq Nat
<1>1. ASSUME NEW g \in Generation, NEW i \in DOMAIN journal[g][s] PROVE journal[g][s][i].bar \in Bar
  <2>1. journal[g][s] \in Seq(Event)
    BY DEF TypeOK
  <2>2. journal[g][s][i] \in Event
    BY <2>1, ElementOfSeq
  <2> QED
    BY <2>2 DEF Event
<1>2. Traded(s) \subseteq Bar
  BY <1>1 DEF Traded, BarsOf
<1> QED
  BY <1>2, ConstantFacts

\* The bar of an open position is one of those traded.
LEMMA PositionTraded ==
  ASSUME TypeOK, NEW g \in Generation, NEW p \in OpenPositions(journal[g])
  PROVE  p.symbol \in Symbol /\ p.bar \in Traded(p.symbol)
BY PositionEntry DEF Traded, BarsOf

\* The same for the bars of all namespaces.
LEMMA TradedAfter ==
  ASSUME TypeOK, NEW s, NEW e, Written(s, e)
  PROVE  /\ Traded(s)' \subseteq Traded(s) \cup {e.bar}
         /\ \A t \in Symbol \ {s} : Traded(t)' = Traded(t)
<1>1. generation \in Generation /\ s \in Symbol
  BY DEF TypeOK, Written
<1>2. ASSUME NEW t \in Symbol \ {s} PROVE Traded(t)' = Traded(t)
  BY BarsAfter DEF Traded
<1>3. ASSUME NEW g \in Generation, NEW b \in BarsOf(journal'[g][s])
      PROVE  b \in Traded(s) \cup {e.bar}
  <2>1. CASE g = generation
    BY <1>1, <1>3, <2>1, BarsAfter DEF Traded
  <2>2. CASE g # generation
    BY <1>1, <1>3, <2>2, BarsAfter DEF Traded
  <2> QED
    BY <2>1, <2>2
<1> QED
  BY <1>2, <1>3 DEF Traded

-----------------------------------------------------------------------------
\* The invariants hold in the beginning

\* All there is then is one open position in the namespace before the first.
LEMMA InitialEntries ==
  ASSUME Init
  PROVE  /\ generation = FirstGeneration /\ ~entered /\ staged = {} /\ pc = "down" /\ due = NoBar
         /\ \A g \in Generation : g # FirstGeneration - 1 => journal[g] = NoEvents
         /\ \A g \in Generation, s \in Symbol :
              journal[g][s] = <<>> \/ journal[g][s] = <<OpenEvent(0, FALSE)>>
         /\ \E left \in {{}} \cup {{s} : s \in Symbol} :
              \A g \in Generation, s \in Symbol : \A i \in DOMAIN journal[g][s] :
                /\ g = FirstGeneration - 1 /\ s \in left /\ i = 1
                /\ journal[g][s][i] = OpenEvent(0, FALSE)
<1>1. PICK left \in {{}} \cup {{s} : s \in Symbol} :
        journal = [g \in Generation |->
                     IF g = FirstGeneration - 1
                     THEN [s \in Symbol |-> IF s \in left THEN <<OpenEvent(0, FALSE)>> ELSE <<>>]
                     ELSE NoEvents]
  BY DEF Init
<1>2. ASSUME NEW g \in Generation, NEW s \in Symbol
      PROVE  journal[g][s] = IF g = FirstGeneration - 1 /\ s \in left
                             THEN <<OpenEvent(0, FALSE)>> ELSE <<>>
  BY <1>1 DEF NoEvents
<1>3. ASSUME NEW g \in Generation, NEW s \in Symbol, NEW i \in DOMAIN journal[g][s]
      PROVE  g = FirstGeneration - 1 /\ s \in left /\ i = 1 /\ journal[g][s][i] = OpenEvent(0, FALSE)
  <2>1. DOMAIN <<OpenEvent(0, FALSE)>> = {1} /\ <<OpenEvent(0, FALSE)>>[1] = OpenEvent(0, FALSE)
        /\ DOMAIN <<>> = {}
    OBVIOUS
  <2> QED
    BY <1>2, <1>3, <2>1
<1>4. \A g \in Generation : g # FirstGeneration - 1 => journal[g] = NoEvents
  BY <1>1
<1>5. \A g \in Generation, s \in Symbol :
        journal[g][s] = <<>> \/ journal[g][s] = <<OpenEvent(0, FALSE)>>
  BY <1>2
<1>6. \E l \in {{}} \cup {{s} : s \in Symbol} :
        \A g \in Generation, s \in Symbol : \A i \in DOMAIN journal[g][s] :
          /\ g = FirstGeneration - 1 /\ s \in l /\ i = 1
          /\ journal[g][s][i] = OpenEvent(0, FALSE)
  BY <1>3
<1> QED
  BY <1>4, <1>5, <1>6 DEF Init, EmptySession

\* An open without a predecessor replays.
LEMMA RecoverableInit == Init => Recoverable
<1> SUFFICES ASSUME Init, NEW g \in Generation, NEW s \in Symbol
             PROVE  RiskRecoveryValid(journal[g][s])
  BY DEF Recoverable
<1>1. journal[g][s] = <<>> \/ journal[g][s] = <<OpenEvent(0, FALSE)>>
  BY InitialEntries
<1>2. RiskRecoveryValid(<<>>)
  BY DEF RiskRecoveryValid
<1>3. RiskRecoveryValid(<<OpenEvent(0, FALSE)>>)
  <2> DEFINE e == OpenEvent(0, FALSE)
  <2>1. e.kind # "close" /\ DOMAIN <<>> = {}
    BY DEF OpenEvent
  <2> HIDE DEF e
  <2>2. <<>> \in Seq({e}) /\ <<e>> = Append(<<>>, e)
    OBVIOUS
  <2>3. RiskRecoveryValid(Append(<<>>, e))
    BY <1>2, <2>1, <2>2, RecoverableAppend
  <2> QED
    BY <2>2, <2>3 DEF e
<1> QED
  BY <1>1, <1>2, <1>3

\* So the order of the records holds.
LEMMA RecordInit == Init => RecordInv
<1> SUFFICES ASSUME Init PROVE RecordInv
  OBVIOUS
<1> USE ConstantFacts
<1>1. /\ generation = FirstGeneration /\ ~entered /\ staged = {} /\ pc = "down" /\ due = NoBar
      /\ \A g \in Generation : g # FirstGeneration - 1 => journal[g] = NoEvents
      /\ \A g \in Generation, s \in Symbol : \A i \in DOMAIN journal[g][s] :
           g = FirstGeneration - 1 /\ i = 1 /\ journal[g][s][i] = OpenEvent(0, FALSE)
  BY InitialEntries
<1>2. ChainInv
  BY <1>1 DEF ChainInv
<1>3. ImportInv
  <2>1. journal[generation] = NoEvents
    BY <1>1
  <2> QED
    BY <1>1, <2>1 DEF ImportInv, NoEvents
<1>4. MemoryInv /\ DealInv
  BY <1>1 DEF MemoryInv, DealInv, Loop, Entering, Dealing
<1>5. BarInv
  <2>1. Due = {}
    BY <1>1 DEF Due, NoBar
  <2>2. \A s \in Symbol : latest[s] = 0
    BY DEF Init
  <2>3. OpenEvent(0, FALSE).bar = 0
    BY DEF OpenEvent
  <2>4. ASSUME NEW g \in Generation, NEW s \in Symbol, NEW i \in DOMAIN journal[g][s]
        PROVE  journal[g][s][i].bar <= latest[s]
    <3>1. journal[g][s][i] = OpenEvent(0, FALSE)
      BY <1>1
    <3>2. journal[g][s][i].bar = 0 /\ latest[s] = 0
      BY <2>2, <2>3, <3>1
    <3> QED
      BY <3>2
  <2>5. pc \notin Loop \cup {"gate"}
    BY <1>1 DEF Loop
  <2>6. \A s \in Symbol : \A b \in Traded(s) : BarWithin(s, b)
    BY <2>4, <2>5 DEF Traded, BarsOf, BarWithin
  <2> QED
    BY <1>1, <2>1, <2>6 DEF BarInv
<1>6. EachBarOnce
  <2>1. ASSUME NEW g \in Generation, NEW s \in Symbol, NEW bar \in Bar, NEW i \in Opens(g, s, bar)
        PROVE  i = 1 /\ g = FirstGeneration - 1
    BY <1>1 DEF Opens
  <2> QED
    BY <2>1 DEF EachBarOnce
<1> QED
  BY <1>2, <1>3, <1>4, <1>5, <1>6, TypeInit, RecoverableInit DEF RecordInv

-----------------------------------------------------------------------------
\* Steps that write no journal

\* What an operator or a journal write does not touch stays as it was.
LEMMA QuietStep ==
  ASSUME RecordInv, UNCHANGED <<operator, journal>>
  PROVE  ChainInv' /\ ImportInv' /\ EachBarOnce' /\ Recoverable'
<1> USE DEF operator
<1>1. \A J : OpenPositions(J)' = OpenPositions(J)
  BY DEF OpenPositions, OpenEvents
<1>2. ChainInv'
  BY DEF RecordInv, ChainInv, NoEvents
<1>3. \A s : ImportedFrom(s)' <=> ImportedFrom(s)
  BY DEF ImportedFrom
<1>4. ImportInv'
  BY <1>3 DEF RecordInv, ImportInv
<1>5. \A g, s, bar : Opens(g, s, bar)' = Opens(g, s, bar)
  BY DEF Opens
<1>6. EachBarOnce'
  BY <1>5 DEF RecordInv, EachBarOnce
<1>7. Recoverable'
  BY DEF RecordInv, Recoverable
<1> QED
  BY <1>2, <1>4, <1>6, <1>7

\* Admission and the steps of the operator leave the journals alone.
LEMMA OperatorStep ==
  ASSUME RecordInv, Admit \/ StageImport \/ AbandonImport \/ NextProgram
  PROVE  ChainInv' /\ ImportInv' /\ EachBarOnce' /\ Recoverable'
<1>0. generation \in Generation /\ generation \in Nat /\ Generation \subseteq Nat
  BY ConstantFacts DEF RecordInv, TypeOK
<1>1. UNCHANGED journal
  BY DEF Admit, TakeOver, StageImport, AbandonImport, NextProgram
<1>2. EachBarOnce' /\ Recoverable'
  BY <1>1 DEF RecordInv, EachBarOnce, Opens, Recoverable
<1>3. CASE Admit
  <2>1. UNCHANGED <<generation, staged>> /\ entered'
    BY <1>3 DEF Admit, TakeOver
  <2> QED
    BY <1>1, <1>2, <2>1 DEF RecordInv, ChainInv, ImportInv, NoEvents
<1>4. CASE StageImport \/ AbandonImport
  <2>1. UNCHANGED <<generation, entered>>
    BY <1>4 DEF StageImport, AbandonImport
  <2>2. staged' # {} => generation > LivePolicy /\ staged' \subseteq OpenPositions(journal[generation - 1])
    BY <1>4 DEF StageImport, AbandonImport, Importable
  <2>3. ImportInv'
    BY <1>1, <2>1, <2>2 DEF RecordInv, ImportInv, ImportedFrom
  <2> QED
    BY <1>1, <1>2, <2>1, <2>3 DEF RecordInv, ChainInv, NoEvents
<1>5. CASE NextProgram
  <2>1. /\ generation' = generation + 1 /\ generation' \in Generation
        /\ ~entered' /\ staged' = {}
    BY <1>0, <1>5, ConstantFacts DEF NextProgram, Generation
  <2>2. \A g \in Generation : g > generation' => g > generation
    BY <1>0, <2>1
  <2>3. ChainInv'
    <3>1. generation' >= FirstGeneration
      BY <1>0, <2>1, ConstantFacts DEF RecordInv, ChainInv
    <3> QED
      BY <1>1, <2>2, <3>1 DEF RecordInv, ChainInv, NoEvents
  <2>4. journal'[generation'] = NoEvents
    BY <1>0, <1>1, <2>1 DEF RecordInv, ChainInv
  <2>5. ImportInv'
    BY <2>1, <2>4 DEF ImportInv, NoEvents
  <2> QED
    BY <1>2, <2>3, <2>5
<1> QED
  BY <1>3, <1>4, <1>5

-----------------------------------------------------------------------------
\* What is monitored is open

\* A session sees no position that is not there.
LEMMA ViewOpen ==
  ASSUME NEW g
  PROVE  OpenPositions(View(g)) \subseteq OpenPositions(journal[g])
<1> SUFFICES ASSUME NEW p \in OpenPositions(View(g)) PROVE p \in OpenPositions(journal[g])
  OBVIOUS
<1>1. PICK s \in Symbol : \E i \in DOMAIN View(g)[s] :
        OpenAt(View(g)[s], i) /\ p = AsPosition(s, View(g)[s][i])
  BY PositionIn
<1>2. View(g)[s] = journal[g][s]
  <2>1. DOMAIN <<>> = {}
    OBVIOUS
  <2>2. View(g)[s] = IF s \in watched THEN journal[g][s] ELSE <<>>
    BY DEF View
  <2> QED
    BY <1>1, <2>1, <2>2
<1> QED
  BY <1>1, <1>2, PositionIn

\* Whatever a session recovers is in its journals, and stays so.
LEMMA MemoryStep ==
  ASSUME RecordInv, [Next]_vars
  PROVE  MemoryInv'
<1>0. TypeOK /\ MemoryInv /\ DealInv /\ generation \in Generation
  BY DEF RecordInv, TypeOK
<1> USE DEF Loop, Entering
<1>1. CASE \E list \in SymbolLists : StartSession(list)
  BY <1>1 DEF StartSession, MemoryInv
<1>2. CASE Recover
  <2>1. recovered' \subseteq OpenPositions(View(generation))
    BY <1>2 DEF Recover, PolicyRecover, PolicyRecovered, RiskRecover, RiskRecovered, RecoverCurrent
  <2>2. recovered' \subseteq OpenPositions(journal[generation])
    BY <2>1, ViewOpen
  <2> QED
    BY <1>2, <2>2 DEF Recover, PolicyRecover, RiskRecover, RecoverCurrent, MemoryInv, operator
<1>3. CASE Admit
  BY <1>0, <1>3 DEF Admit, TakeOver, MemoryInv
<1>4. CASE Watch
  <2>1. /\ pc = "update" /\ pc' \in {"refresh", "bars"} /\ UNCHANGED <<generation, entered>>
        /\ entered /\ memory \subseteq OpenPositions(journal[generation])
    BY <1>0, <1>4 DEF Watch, Monitor, operator, MemoryInv
  <2>2. UNCHANGED <<journal, memory>> \/ memory' = {}
    BY <1>0, <1>4, WatchWrites
  <2> QED
    BY <2>1, <2>2 DEF MemoryInv
<1>5. CASE Move \/ Retreat
  BY <1>0, <1>5 DEF Move, Retreat, Again, MemoryInv, operator
<1>6. CASE Look
  BY <1>0, <1>6 DEF Look, FindTransitions, TakeSnapshots, AskAuthorities, WatchEntries,
    MemoryInv, operator
<1>7. CASE Pick
  <2>1. /\ pc = "policy" /\ pc' \in {"end", "watch"}
        /\ pc' = "watch" => memory = {}
    BY <1>7 DEF Pick, Choose, Arbitrate
  <2> QED
    BY <1>0, <1>7, <2>1 DEF Pick, Arbitrate, Choose, MemoryInv, operator
<1>8. CASE Enter
  <2>1. /\ pc = "open" /\ pc' \in {"opened", "end"} /\ UNCHANGED <<generation, entered>>
        /\ entered /\ memory \subseteq OpenPositions(journal[generation])
    BY <1>0, <1>8, EnterWrites DEF Enter, OpenSelected, operator, MemoryInv
  <2>2. memory' \subseteq OpenPositions(journal'[generation])
    <3>1. CASE UNCHANGED <<journal, memory>>
      BY <2>1, <3>1
    <3>2. CASE ~UNCHANGED <<journal, memory>>
      <4>1. PICK s : /\ Written(s, OpenEvent(due[s], FALSE))
                     /\ memory' = {AsPosition(s, OpenEvent(due[s], FALSE))}
        BY <1>0, <1>8, <3>2, EnterWrites
      <4> QED
        BY <1>0, <4>1, OpenedIn
    <3> QED
      BY <3>1, <3>2
  <2> QED
    BY <2>1, <2>2 DEF MemoryInv
<1>9. CASE EndCycle
  BY <1>0, <1>9 DEF EndCycle, Again, MemoryInv, operator
<1>10. CASE Stop
  BY <1>10 DEF Stop, Forget, MemoryInv
<1>11. CASE CommitImport
  <2>1. OpenPositions(journal[generation]) \subseteq OpenPositions(journal'[generation])
    BY <1>0, <1>11, ImportWrites, KeptByImport
  <2>2. UNCHANGED <<pc, recovered, memory, generation, entered>>
    BY <1>11 DEF CommitImport, session
  <2> QED
    BY <1>0, <2>1, <2>2 DEF MemoryInv
<1>12. CASE NextProgram
  BY <1>12 DEF NextProgram, session, MemoryInv
<1>13. CASE StageImport \/ AbandonImport \/ ToggleSwitch \/ Market
  BY <1>0, <1>13 DEF StageImport, AbandonImport, ToggleSwitch, Market, Quote, NewBar, operator,
    session, MemoryInv
<1>14. CASE UNCHANGED vars
  BY <1>0, <1>14 DEF vars, operator, session, MemoryInv
<1> QED
  BY <1>1, <1>2, <1>3, <1>4, <1>5, <1>6, <1>7, <1>8, <1>9, <1>10, <1>11, <1>12, <1>13, <1>14,
    ProgramSteps DEF Next, Operator

\* Anchors stay ahead of what was traded, and behind the new bars.
LEMMA BarStep ==
  ASSUME RecordInv, [Next]_vars
  PROVE  BarInv'
<1>0. TypeOK /\ MemoryInv /\ ImportInv /\ DealInv /\ BarInv /\ generation \in Generation
  BY DEF RecordInv, TypeOK
<1>types. ASSUME NEW s \in Symbol
          PROVE  /\ Traded(s) \subseteq Nat /\ latest[s] \in Nat /\ anchor[s] \in Nat
                 /\ s \in Due => due[s] \in Nat
  BY <1>0, TradedTypes, ConstantFacts DEF TypeOK, Due
<1>quiet. UNCHANGED journal => \A s \in Symbol : Traded(s)' = Traded(s)
  BY DEF Traded
<1>idle. ASSUME due = NoBar PROVE Due = {}
  BY <1>idle DEF Due, NoBar
<1>idle2. ASSUME due' = NoBar PROVE Due' = {}
  BY <1>idle2 DEF Due, NoBar
<1>1. CASE \E list \in SymbolLists : StartSession(list)
  BY <1>0, <1>1, <1>quiet DEF StartSession, BarInv, BarWithin, Due, Startup, Loop, world, cycle
<1>2. CASE Recover
  <2>1. /\ pc = "recover" /\ pc' = "gate" /\ UNCHANGED <<journal, latest, due>>
        /\ \A s \in enabled' : s \in Symbol => anchor'[s] = latest[s]
    BY <1>2 DEF Recover, PolicyRecover, RiskRecover, RecoverCurrent, AnchorEnabled, world, cycle
  <2>2. due = NoBar
    BY <1>0, <2>1 DEF BarInv, Startup
  <2>3. ASSUME NEW s \in Symbol, NEW b \in Traded(s) PROVE BarWithin(s, b)'
    BY <1>0, <2>1, <2>3 DEF BarInv, BarWithin
  <2> QED
    BY <1>quiet, <1>idle2, <2>1, <2>2, <2>3 DEF BarInv
<1>3. CASE Admit
  BY <1>0, <1>3, <1>quiet DEF Admit, TakeOver, BarInv, BarWithin, Due, Startup, Loop, world, cycle
<1>4. CASE Watch
  <2>1. /\ pc = "update" /\ pc' \in {"refresh", "bars"}
        /\ UNCHANGED <<latest, anchor, enabled, due>>
    BY <1>4 DEF Watch, Monitor, cycle
  <2>2. ASSUME NEW s \in Symbol PROVE Traded(s)' \subseteq Traded(s)
    <3>1. CASE UNCHANGED journal
      BY <1>quiet, <3>1
    <3>2. CASE ~UNCHANGED journal
      <4>1. PICK p \in memory : Written(p.symbol, CloseEvent(p))
        BY <1>0, <1>4, <3>2, WatchWrites
      <4>2. p \in OpenPositions(journal[generation])
        BY <1>0, <2>1 DEF MemoryInv, Loop
      <4>3. CloseEvent(p).bar \in Traded(p.symbol)
        BY <1>0, <4>2, PositionTraded DEF CloseEvent
      <4> QED
        BY <1>0, <4>1, <4>3, TradedAfter
    <3> QED
      BY <3>1, <3>2
  <2>3. ASSUME NEW s \in Symbol, NEW b \in Traded(s) PROVE BarWithin(s, b)'
    BY <1>0, <2>1, <2>3 DEF BarInv, BarWithin, Loop
  <2> QED
    BY <1>0, <2>1, <2>2, <2>3 DEF BarInv, Due, Startup
<1>5. CASE Move
  <2>1. /\ pc \in Loop /\ pc' \in Loop
        /\ pc \in {"opened", "end"} => pc' \in {"opened", "end"}
        /\ UNCHANGED <<journal, latest, anchor, enabled, due>>
    BY <1>5 DEF Move, world, cycle
  <2>2. ASSUME NEW s \in Symbol, NEW b \in Traded(s) PROVE BarWithin(s, b)'
    BY <1>0, <2>1, <2>2 DEF BarInv, BarWithin
  <2> QED
    BY <1>0, <1>quiet, <2>1, <2>2 DEF BarInv, Due, Startup, Loop
<1>6. CASE Retreat
  <2>1. /\ pc \in Entering /\ pc' = "update" /\ due' = NoBar
        /\ UNCHANGED <<journal, latest, anchor, enabled>>
    BY <1>6 DEF Retreat, Again, world
  <2>2. ASSUME NEW s \in Symbol, NEW b \in Traded(s) PROVE BarWithin(s, b)'
    BY <1>0, <2>1, <2>2 DEF BarInv, BarWithin, Loop, Entering
  <2> QED
    BY <1>quiet, <1>idle2, <2>1, <2>2 DEF BarInv
<1>7. CASE FindTransitions
  <2>1. /\ pc = "bars" /\ pc' \in {"update", "snapshots"}
        /\ UNCHANGED <<journal, latest, anchor, enabled>>
        /\ \A s \in Symbol : due'[s] # None =>
             s \in enabled /\ latest[s] > anchor[s] /\ due'[s] = latest[s]
    BY <1>7 DEF FindTransitions, world
  <2>2. ASSUME NEW s \in Symbol, NEW b \in Traded(s) PROVE BarWithin(s, b)'
    BY <1>0, <2>1, <2>2 DEF BarInv, BarWithin, Loop
  <2>3. ASSUME NEW s \in Due' PROVE s \in enabled' /\ anchor'[s] < due'[s] /\ due'[s] <= latest'[s]
    BY <1>types, <2>1, <2>3 DEF Due
  <2> QED
    BY <1>quiet, <2>1, <2>2, <2>3 DEF BarInv, Startup
<1>8. CASE TakeSnapshots
  <2>1. PICK outcome \in [Due -> {"taken", "passed", "failed"}] :
          LET With(o) == {s \in Due : outcome[s] = o}
          IN  /\ anchor' = [s \in Symbol |-> IF s \in With("passed") THEN due[s] ELSE anchor[s]]
              /\ enabled' = enabled \ With("failed")
              /\ due' = [s \in Symbol |-> IF s \in With("taken") THEN due[s] ELSE None]
    BY <1>8 DEF TakeSnapshots
  <2>2. pc = "snapshots" /\ pc' = "candidates" /\ UNCHANGED <<journal, latest>>
    BY <1>8 DEF TakeSnapshots, world
  <2>3. ASSUME NEW s \in Symbol
        PROVE  /\ s \in enabled' => s \in enabled
               /\ \/ anchor'[s] = anchor[s]
                  \/ s \in Due /\ anchor'[s] = due[s]
               /\ due'[s] # None => s \in Due /\ due'[s] = due[s] /\ anchor'[s] = anchor[s]
                                    /\ (s \in enabled => s \in enabled')
    BY <2>1 DEF Due
  <2>4. ASSUME NEW s \in Symbol, NEW b \in Traded(s) PROVE BarWithin(s, b)'
    <3>1. anchor[s] <= anchor'[s]
      BY <1>0, <1>types, <2>3 DEF BarInv
    <3>2. b \in Nat /\ anchor[s] \in Nat /\ anchor'[s] \in Nat
      BY <1>types, <2>3, <2>4
    <3>3. BarWithin(s, b)
      BY <1>0, <2>4 DEF BarInv
    <3>4. s \in enabled' => b <= anchor'[s]
      BY <2>2, <2>3, <3>1, <3>2, <3>3 DEF BarWithin, Loop
    <3> QED
      BY <2>2, <3>3, <3>4 DEF BarWithin
  <2>5. ASSUME NEW s \in Due' PROVE s \in enabled' /\ anchor'[s] < due'[s] /\ due'[s] <= latest'[s]
    BY <1>0, <2>2, <2>3, <2>5 DEF Due, BarInv
  <2> QED
    BY <1>quiet, <2>2, <2>4, <2>5 DEF BarInv, Startup
<1>9. CASE AskAuthorities \/ WatchEntries \/ Pick
  <2>1. /\ pc \in {"candidates", "entries", "policy"} /\ pc' \in Loop
        /\ UNCHANGED <<journal, latest, anchor, enabled, due>>
    BY <1>9 DEF AskAuthorities, WatchEntries, Pick, Arbitrate, Choose, Loop, world
  <2>2. ASSUME NEW s \in Symbol, NEW b \in Traded(s) PROVE BarWithin(s, b)'
    BY <1>0, <2>1, <2>2 DEF BarInv, BarWithin, Loop
  <2> QED
    BY <1>0, <1>quiet, <2>1, <2>2 DEF BarInv, Due, Startup, Loop
<1>10. CASE Enter
  <2>1. pc = "open" /\ pc' \in {"opened", "end"} /\ UNCHANGED <<latest, anchor, enabled, due>>
    BY <1>0, <1>10, EnterWrites DEF Enter, OpenSelected, world, cycle
  <2>2. ASSUME NEW s \in Symbol, NEW b \in Traded(s) PROVE BarWithin(s, b)'
    BY <1>0, <2>1, <2>2 DEF BarInv, BarWithin, Loop
  <2>3. ASSUME NEW s \in Symbol, NEW b \in Traded(s)' PROVE BarWithin(s, b)'
    <3>1. CASE b \in Traded(s)
      BY <2>2, <3>1
    <3>2. CASE b \notin Traded(s)
      <4>1. PICK t \in selected : t \in Due /\ Written(t, OpenEvent(due[t], FALSE))
        BY <1>0, <1>10, <1>quiet, <2>3, <3>2, EnterWrites
      <4>2. s = t /\ b = due[s]
        BY <1>0, <2>3, <3>2, <4>1, TradedAfter DEF OpenEvent
      <4> QED
        BY <1>0, <2>1, <4>1, <4>2 DEF BarInv, BarWithin
    <3> QED
      BY <3>1, <3>2
  <2> QED
    BY <1>0, <2>1, <2>3 DEF BarInv, Due, Startup
<1>11. CASE EndCycle
  <2>1. /\ pc = "end" /\ pc' = "update" /\ due' = NoBar /\ UNCHANGED <<journal, latest, enabled>>
        /\ anchor' = [s \in Symbol |-> IF anchor[s] < due[s] THEN due[s] ELSE anchor[s]]
    BY <1>11 DEF EndCycle, Again, world
  <2>2. ASSUME NEW s \in Symbol, NEW b \in Traded(s) PROVE BarWithin(s, b)'
    <3>1. BarWithin(s, b)
      BY <1>0, <2>2 DEF BarInv
    <3>2. b \in Nat /\ anchor[s] \in Nat /\ (due[s] \in Nat \/ due[s] = -1)
      BY <1>types, <2>2 DEF Due, None
    <3>3. anchor'[s] = IF anchor[s] < due[s] THEN due[s] ELSE anchor[s]
      BY <2>1
    <3>4. s \in enabled => b <= anchor[s] \/ b = due[s]
      BY <2>1, <3>1 DEF BarWithin, Loop
    <3>5. s \in enabled => b <= anchor'[s]
      BY <3>2, <3>3, <3>4
    <3> QED
      BY <2>1, <3>1, <3>5 DEF BarWithin
  <2> QED
    BY <1>quiet, <1>idle2, <2>1, <2>2 DEF BarInv
<1>12. CASE Stop
  <2>1. pc' = "down" /\ due' = NoBar /\ UNCHANGED <<journal, latest>>
    BY <1>12 DEF Stop, Forget
  <2>2. ASSUME NEW s \in Symbol, NEW b \in Traded(s) PROVE BarWithin(s, b)'
    BY <1>0, <2>1, <2>2 DEF BarInv, BarWithin, Loop
  <2> QED
    BY <1>quiet, <1>idle2, <2>1, <2>2 DEF BarInv
<1>13. CASE CommitImport
  <2>1. UNCHANGED <<latest, pc, anchor, enabled, due>>
    BY <1>13 DEF CommitImport, world, session, cycle
  <2>2. PICK p \in staged : /\ generation > LivePolicy
                            /\ p \in OpenPositions(journal[generation - 1])
                            /\ Written(p.symbol, OpenEvent(p.bar, TRUE))
    BY <1>0, <1>13, ImportWrites DEF ImportInv
  <2>3. generation - 1 \in Generation
    BY <1>0, <2>2, ConstantFacts DEF Generation, LivePolicy
  <2>4. OpenEvent(p.bar, TRUE).bar \in Traded(p.symbol)
    BY <1>0, <2>2, <2>3, PositionTraded DEF OpenEvent
  <2>5. \A s \in Symbol : Traded(s)' \subseteq Traded(s)
    BY <1>0, <2>2, <2>4, TradedAfter
  <2>6. ASSUME NEW s \in Symbol, NEW b \in Traded(s) PROVE BarWithin(s, b)'
    BY <1>0, <2>1, <2>6 DEF BarInv, BarWithin
  <2> QED
    BY <1>0, <2>1, <2>5, <2>6 DEF BarInv, Due
<1>14. CASE \E s \in Symbol : NewBar(s)
  <2>1. UNCHANGED <<journal, pc, anchor, enabled, due>>
    BY <1>14 DEF NewBar, session, cycle
  <2>2. ASSUME NEW s \in Symbol PROVE latest[s] <= latest'[s] /\ latest'[s] \in Nat
    BY <1>0, <1>14, <1>types DEF NewBar, TypeOK
  <2>3. ASSUME NEW s \in Symbol, NEW b \in Traded(s) PROVE BarWithin(s, b)'
    <3>1. BarWithin(s, b) /\ b \in Nat
      BY <1>0, <1>types, <2>3 DEF BarInv
    <3>2. b <= latest'[s]
      BY <1>types, <2>2, <3>1 DEF BarWithin
    <3> QED
      BY <2>1, <3>1, <3>2 DEF BarWithin
  <2>4. ASSUME NEW s \in Due PROVE s \in enabled /\ anchor[s] < due[s] /\ due[s] <= latest'[s]
    BY <1>0, <1>types, <2>2, <2>4 DEF BarInv, Due
  <2> QED
    BY <1>0, <1>quiet, <2>1, <2>3, <2>4 DEF BarInv, Due
<1>15. CASE StageImport \/ AbandonImport \/ NextProgram \/ ToggleSwitch \/ Quote \/ UNCHANGED vars
  <2>1. UNCHANGED <<journal, latest, pc, anchor, enabled, due>>
    BY <1>15 DEF StageImport, AbandonImport, NextProgram, ToggleSwitch, Quote, vars, world,
      operator, session, cycle
  <2>2. ASSUME NEW s \in Symbol, NEW b \in Traded(s) PROVE BarWithin(s, b)'
    BY <1>0, <2>1, <2>2 DEF BarInv, BarWithin
  <2> QED
    BY <1>0, <1>quiet, <2>1, <2>2 DEF BarInv, Due
<1> QED
  BY <1>1, <1>2, <1>3, <1>4, <1>5, <1>6, <1>7, <1>8, <1>9, <1>10, <1>11, <1>12, <1>13, <1>14,
    <1>15, ProgramSteps DEF Next, Operator, Market, Look

-----------------------------------------------------------------------------
\* Steps that write a journal

\* A write into the namespace in use leaves the later ones empty.
LEMMA ChainAfter ==
  ASSUME TypeOK, ChainInv, NEW s, NEW e, Written(s, e), UNCHANGED generation
  PROVE  ChainInv'
<1>1. generation \in Generation /\ \A g \in Generation : g > generation => g # generation
  BY ConstantFacts DEF TypeOK
<1>2. \A g \in Generation : g # generation => journal'[g] = journal[g]
  BY DEF Written
<1> QED
  BY <1>1, <1>2 DEF ChainInv, NoEvents

\* The staged position is one of the predecessor, which is not written.
LEMMA StagedAfter ==
  ASSUME TypeOK, ImportInv, NEW s, NEW e, Written(s, e), UNCHANGED generation, entered',
         staged' \subseteq staged
  PROVE  ImportInv'
<1>1. ASSUME staged' # {}
      PROVE  generation > LivePolicy /\ staged' \subseteq OpenPositions(journal'[generation - 1])
  <2>1. generation > LivePolicy /\ staged \subseteq OpenPositions(journal[generation - 1])
    BY <1>1 DEF ImportInv
  <2>2. generation - 1 \in Generation \ {generation}
    BY <2>1, ConstantFacts DEF TypeOK, Generation, LivePolicy
  <2>3. journal'[generation - 1] = journal[generation - 1]
    BY <2>2 DEF Written
  <2> QED
    BY <2>1, <2>3
<1> QED
  BY <1>1 DEF ImportInv

\* A bar that no journal of its symbol has is opened once; one that is
\* imported must be new to its own journal only.
LEMMA OnceAfter ==
  ASSUME TypeOK, EachBarOnce, NEW s, NEW e, Written(s, e),
         \/ e.kind # "open"
         \/ e.bar \notin BarsOf(journal[generation][s]) /\ (e.imported \/ e.bar \notin Traded(s))
  PROVE  EachBarOnce'
<1>1. PICK last \in Nat :
           /\ last \notin DOMAIN journal[generation][s]
           /\ DOMAIN journal'[generation][s] = DOMAIN journal[generation][s] \cup {last}
           /\ journal'[generation][s][last] = e
           /\ \A i \in DOMAIN journal[generation][s] :
                i < last /\ journal'[generation][s][i] = journal[generation][s][i]
           /\ \A t \in Symbol \ {s} : journal'[generation][t] = journal[generation][t]
           /\ \A h \in Generation \ {generation} : journal'[h] = journal[h]
  BY EntriesAfter
<1> DEFINE New(g, t, b, i) == /\ g = generation /\ t = s /\ i = last
                              /\ e.kind = "open" /\ e.bar = b /\ journal'[g][t][i] = e
           Old(g, t, b, i) == i \in Opens(g, t, b) /\ journal'[g][t][i] = journal[g][t][i]
<1>2. ASSUME NEW g \in Generation, NEW t \in Symbol, NEW b \in Bar, NEW i \in Opens(g, t, b)'
      PROVE  Old(g, t, b, i) \/ New(g, t, b, i)
  <2>1. i \in DOMAIN journal'[g][t] /\ journal'[g][t][i].kind = "open" /\ journal'[g][t][i].bar = b
    BY <1>2 DEF Opens
  <2>2. CASE g = generation /\ t = s
    BY <1>1, <2>1, <2>2 DEF Opens
  <2>3. CASE ~(g = generation /\ t = s)
    <3>1. journal'[g][t] = journal[g][t]
      BY <1>1, <2>3
    <3> QED
      BY <2>1, <3>1 DEF Opens
  <2> QED
    BY <2>2, <2>3
<1>3. ASSUME NEW g \in Generation, NEW t \in Symbol, NEW b \in Bar, NEW i, Old(g, t, b, i)
      PROVE  b \in BarsOf(journal[g][t]) /\ b \in Traded(t)
  BY <1>3 DEF Opens, BarsOf, Traded
<1>4. ASSUME NEW g \in Generation, NEW t \in Symbol, NEW b \in Bar, NEW i, NEW k,
             Old(g, t, b, i) \/ New(g, t, b, i), Old(g, t, b, k) \/ New(g, t, b, k)
      PROVE  i = k
  <2>1. CASE Old(g, t, b, i) /\ Old(g, t, b, k)
    BY <2>1 DEF EachBarOnce
  <2>2. CASE New(g, t, b, i) /\ New(g, t, b, k)
    BY <2>2
  <2>3. CASE (Old(g, t, b, i) /\ New(g, t, b, k)) \/ (New(g, t, b, i) /\ Old(g, t, b, k))
    BY <1>3, <2>3
  <2> QED
    BY <1>4, <2>1, <2>2, <2>3
<1>5. ASSUME NEW g \in Generation, NEW h \in Generation, NEW t \in Symbol, NEW b \in Bar, NEW i, NEW k,
             Old(g, t, b, i) \/ New(g, t, b, i), Old(h, t, b, k) \/ New(h, t, b, k),
             ~journal'[g][t][i].imported, ~journal'[h][t][k].imported
      PROVE  g = h
  <2>1. CASE Old(g, t, b, i) /\ Old(h, t, b, k)
    BY <1>5, <2>1 DEF EachBarOnce
  <2>2. CASE New(g, t, b, i) /\ New(h, t, b, k)
    BY <2>2
  <2>3. CASE (Old(g, t, b, i) /\ New(h, t, b, k)) \/ (New(g, t, b, i) /\ Old(h, t, b, k))
    BY <1>3, <1>5, <2>3
  <2> QED
    BY <1>5, <2>1, <2>2, <2>3
<1> HIDE DEF Old, New
<1>6. ASSUME NEW g \in Generation, NEW t \in Symbol, NEW b \in Bar,
             NEW i \in Opens(g, t, b)', NEW k \in Opens(g, t, b)'
      PROVE  i = k
  <2>1. Old(g, t, b, i) \/ New(g, t, b, i)
    BY <1>2
  <2>2. Old(g, t, b, k) \/ New(g, t, b, k)
    BY <1>2
  <2> QED
    BY <1>4, <2>1, <2>2
<1>7. ASSUME NEW g \in Generation, NEW h \in Generation, NEW t \in Symbol, NEW b \in Bar,
             NEW i \in Opens(g, t, b)', NEW k \in Opens(h, t, b)',
             ~journal'[g][t][i].imported, ~journal'[h][t][k].imported
      PROVE  g = h
  BY <1>2, <1>5, <1>7
<1> QED
  BY <1>6, <1>7 DEF EachBarOnce

\* A write keeps all journals recoverable if it keeps its own so.
LEMMA RecoverableAfter ==
  ASSUME TypeOK, Recoverable, NEW s, NEW e, Written(s, e),
         (e.kind = "close") <=> \E i \in DOMAIN journal[generation][s] :
           OpenAt(journal[generation][s], i) /\ journal[generation][s][i].bar = e.bar
  PROVE  Recoverable'
<1>1. generation \in Generation /\ s \in Symbol /\ e \in Event /\ journal[generation][s] \in Seq(Event)
  BY DEF TypeOK, Written
<1>2. RiskRecoveryValid(journal'[generation][s])
  <2>1. /\ RiskRecoveryValid(journal[generation][s])
        /\ journal'[generation][s] = Append(journal[generation][s], e)
    BY <1>1 DEF Recoverable, Written, Adds
  <2> QED
    BY <1>1, <2>1, RecoverableAppend
<1>3. ASSUME NEW g \in Generation, NEW t \in Symbol, ~(g = generation /\ t = s)
      PROVE  RiskRecoveryValid(journal'[g][t])
  <2>1. journal'[g][t] = journal[g][t]
    BY <1>3, BarsAfter
  <2> QED
    BY <2>1 DEF Recoverable
<1> QED
  BY <1>2, <1>3 DEF Recoverable

\* Every close meets its open position.
LEMMA WatchStep ==
  ASSUME RecordInv, Watch
  PROVE  ChainInv' /\ ImportInv' /\ EachBarOnce' /\ Recoverable'
<1>1. /\ TypeOK /\ UNCHANGED operator /\ entered
      /\ memory \subseteq OpenPositions(journal[generation])
  BY DEF Watch, Monitor, RecordInv, MemoryInv, Loop
<1>2. CASE UNCHANGED journal
  BY <1>1, <1>2, QuietStep
<1>3. CASE ~UNCHANGED journal
  <2>1. PICK p \in memory : Written(p.symbol, CloseEvent(p))
    BY <1>1, <1>3, WatchWrites
  <2>2. ChainInv' /\ ImportInv'
    BY <1>1, <2>1, ChainAfter, StagedAfter DEF RecordInv, operator
  <2>3. EachBarOnce'
    BY <2>1, OnceAfter DEF RecordInv, CloseEvent
  <2>4. PICK s \in Symbol : \E i \in DOMAIN journal[generation][s] :
          OpenAt(journal[generation][s], i) /\ p = AsPosition(s, journal[generation][s][i])
    BY <1>1, <2>1, PositionIn
  <2>5. p.symbol = s /\ \E i \in DOMAIN journal[generation][s] :
                           OpenAt(journal[generation][s], i) /\ journal[generation][s][i].bar = p.bar
    BY <2>4 DEF AsPosition
  <2>6. Recoverable'
    BY <1>1, <2>1, <2>5, RecoverableAfter DEF RecordInv, CloseEvent
  <2> QED
    BY <2>2, <2>3, <2>6
<1> QED
  BY <1>2, <1>3

\* The bar a position is opened at was in no journal before.
LEMMA FreshBar ==
  ASSUME RecordInv, pc = "open", NEW s \in Due
  PROVE  due[s] \notin Traded(s)
<1>1. s \in Symbol /\ s \in enabled /\ anchor[s] < due[s]
  BY DEF RecordInv, BarInv, Due
<1>2. ASSUME NEW b \in Traded(s) PROVE b <= anchor[s]
  BY <1>1, <1>2 DEF RecordInv, BarInv, BarWithin, Loop
<1>3. anchor[s] \in Nat /\ due[s] \in Nat
  BY <1>1, ConstantFacts DEF RecordInv, TypeOK, Due
<1> QED
  BY <1>1, <1>2, <1>3

\* An open finds its bar untraded.
LEMMA EnterStep ==
  ASSUME RecordInv, Enter
  PROVE  ChainInv' /\ ImportInv' /\ EachBarOnce' /\ Recoverable'
<1>1. /\ TypeOK /\ UNCHANGED operator /\ entered /\ pc = "open" /\ generation \in Generation
  BY DEF Enter, OpenSelected, RecordInv, MemoryInv, TypeOK, Loop
<1>2. CASE UNCHANGED journal
  BY <1>1, <1>2, QuietStep
<1>3. CASE ~UNCHANGED journal
  <2>1. PICK s \in selected : /\ s \in Due /\ due[s] \in Bar
                              /\ Written(s, OpenEvent(due[s], FALSE))
    BY <1>3, EnterWrites DEF RecordInv
  <2>2. ChainInv' /\ ImportInv'
    BY <1>1, <2>1, ChainAfter, StagedAfter DEF RecordInv, operator
  <2>3. due[s] \notin Traded(s)
    BY <1>1, <2>1, FreshBar
  <2>4. EachBarOnce'
    <3>1. due[s] \notin BarsOf(journal[generation][s])
      BY <1>1, <2>3 DEF Traded
    <3> QED
      BY <2>1, <2>3, <3>1, OnceAfter DEF RecordInv, OpenEvent
  <2>5. Recoverable'
    <3>1. \A i \in DOMAIN journal[generation][s] : journal[generation][s][i].bar # due[s]
      BY <1>1, <2>3 DEF Traded, BarsOf
    <3> QED
      BY <1>1, <2>1, <3>1, RecoverableAfter DEF RecordInv, OpenEvent
  <2> QED
    BY <2>2, <2>4, <2>5
<1> QED
  BY <1>2, <1>3

\* An import opens the first position of its journal.
LEMMA ImportStep ==
  ASSUME RecordInv, CommitImport
  PROVE  ChainInv' /\ ImportInv' /\ EachBarOnce' /\ Recoverable'
<1>0. TypeOK /\ generation \in Generation
  BY DEF RecordInv, TypeOK
<1>1. UNCHANGED <<generation, entered>> /\ staged' = {}
  BY DEF CommitImport
<1>2. PICK p \in staged : /\ p \in Position /\ journal[generation][p.symbol] = <<>>
                          /\ generation > LivePolicy
                          /\ p \in OpenPositions(journal[generation - 1])
                          /\ Written(p.symbol, OpenEvent(p.bar, TRUE))
  BY <1>0, ImportWrites DEF RecordInv, ImportInv
<1>3. DOMAIN journal[generation][p.symbol] = {}
  BY <1>2
<1>4. ChainInv'
  BY <1>0, <1>1, <1>2, ChainAfter DEF RecordInv
<1>5. ImportInv'
  <2>1. journal'[generation - 1] = journal[generation - 1]
    BY <1>0, <1>2, ConstantFacts DEF Written, Generation, LivePolicy
  <2>2. ASSUME ~entered, NEW s \in Symbol PROVE journal'[generation][s] = <<>> \/ ImportedFrom(s)'
    <3>1. CASE s = p.symbol
      <4>1. journal'[generation][s] = <<OpenEvent(p.bar, TRUE)>>
        BY <1>0, <1>2, <3>1, FirstEvent DEF Written, Adds
      <4> QED
        BY <1>1, <1>2, <2>1, <3>1, <4>1 DEF ImportedFrom
    <3>2. CASE s # p.symbol
      <4>1. journal'[generation][s] = journal[generation][s]
        BY <1>2, <3>2 DEF Written, Adds
      <4>2. journal[generation][s] = <<>> \/ ImportedFrom(s)
        BY <2>2 DEF RecordInv, ImportInv
      <4>3. ImportedFrom(s) => ImportedFrom(s)'
        BY <1>1, <2>1, <4>1 DEF ImportedFrom
      <4> QED
        BY <4>1, <4>2, <4>3
    <3> QED
      BY <3>1, <3>2
  <2> QED
    BY <1>1, <2>2 DEF ImportInv
<1>6. EachBarOnce'
  <2>1. OpenEvent(p.bar, TRUE).bar \notin BarsOf(journal[generation][p.symbol])
    BY <1>3 DEF BarsOf
  <2> QED
    BY <1>0, <1>2, <2>1, OnceAfter DEF RecordInv, OpenEvent
<1>7. Recoverable'
  BY <1>0, <1>2, <1>3, RecoverableAfter DEF RecordInv, OpenEvent
<1> QED
  BY <1>4, <1>5, <1>6, <1>7

\* These steps apart, journals and operator stay as they are.
LEMMA OtherSteps ==
  ASSUME [Next]_vars, ~Watch, ~Enter, ~CommitImport
  PROVE  UNCHANGED journal /\ (UNCHANGED operator \/ Admit \/ StageImport \/ AbandonImport \/ NextProgram)
<1>1. ASSUME \E list \in SymbolLists : StartSession(list)
      PROVE  UNCHANGED <<operator, journal>>
  BY <1>1 DEF StartSession
<1>2. ASSUME Recover \/ Move \/ Retreat \/ EndCycle PROVE UNCHANGED <<operator, journal>>
  BY <1>2 DEF Recover, PolicyRecover, RiskRecover, RecoverCurrent, Move, Retreat, EndCycle
<1>3. ASSUME Look \/ Pick PROVE UNCHANGED <<operator, journal>>
  BY <1>3 DEF Look, FindTransitions, TakeSnapshots, AskAuthorities, WatchEntries, Pick,
    Arbitrate, Choose
<1>4. ASSUME Stop \/ ToggleSwitch \/ Market PROVE UNCHANGED <<operator, journal>>
  BY <1>4 DEF Stop, ToggleSwitch, Market, Quote, NewBar
<1>5. ASSUME Admit \/ StageImport \/ AbandonImport \/ NextProgram PROVE UNCHANGED journal
  BY <1>5 DEF Admit, TakeOver, StageImport, AbandonImport, NextProgram
<1> QED
  BY <1>1, <1>2, <1>3, <1>4, <1>5, ProgramSteps DEF Next, Operator, vars

\* All parts of the invariant together.
LEMMA RecordStep ==
  ASSUME RecordInv, [Next]_vars
  PROVE  RecordInv'
<1>1. TypeOK' /\ MemoryInv' /\ DealInv' /\ BarInv'
  BY TypeStep, MemoryStep, DealStep, BarStep DEF RecordInv
<1>2. CASE Watch \/ Enter \/ CommitImport
  BY <1>1, <1>2, WatchStep, EnterStep, ImportStep DEF RecordInv
<1>3. CASE Admit \/ StageImport \/ AbandonImport \/ NextProgram
  BY <1>1, <1>3, OperatorStep DEF RecordInv
<1>4. CASE UNCHANGED <<operator, journal>>
  BY <1>1, <1>4, QuietStep DEF RecordInv
<1> QED
  BY <1>2, <1>3, <1>4, OtherSteps

\* Whatever the operator does, the journals keep their order.
THEOREM RecordsKept == Spec => []RecordInv
<1>1. RecordInv /\ [Next]_vars => RecordInv'
  BY RecordStep
<1> QED
  BY <1>1, RecordInit, PTL DEF Spec

\* Whatever the operator does, no bar of a symbol is opened twice, in
\* whatever namespace, and none is opened by two programs.
THEOREM BarsOpenedOnce == Spec => []EachBarOnce
<1>1. RecordInv => EachBarOnce
  BY DEF RecordInv
<1> QED
  BY <1>1, RecordsKept, PTL

\* Whatever the operator does, no journal ever closes a position that is not
\* open or opens one that is, which its recovery would refuse.
THEOREM JournalsReplay == Spec => []Recoverable
<1>1. RecordInv => Recoverable
  BY DEF RecordInv
<1> QED
  BY <1>1, RecordsKept, PTL

-----------------------------------------------------------------------------
\* What was handed over

\* Nothing that was imported is forgotten.
LEMMA ImportedAfter ==
  ASSUME TypeOK, NEW s, NEW e, Written(s, e), NEW g \in Generation, NEW p, p.symbol \in Symbol,
         Imported(g, p)
  PROVE  Imported(g, p)'
<1>1. PICK last \in Nat :
           /\ last \notin DOMAIN journal[generation][s]
           /\ DOMAIN journal'[generation][s] = DOMAIN journal[generation][s] \cup {last}
           /\ journal'[generation][s][last] = e
           /\ \A i \in DOMAIN journal[generation][s] :
                i < last /\ journal'[generation][s][i] = journal[generation][s][i]
           /\ \A t \in Symbol \ {s} : journal'[generation][t] = journal[generation][t]
           /\ \A h \in Generation \ {generation} : journal'[h] = journal[h]
  BY EntriesAfter
<1>2. CASE g = generation /\ p.symbol = s
  BY <1>1, <1>2 DEF Imported
<1>3. CASE ~(g = generation /\ p.symbol = s)
  <2>1. journal'[g][p.symbol] = journal[g][p.symbol]
    BY <1>1, <1>3
  <2> QED
    BY <2>1 DEF Imported
<1> QED
  BY <1>2, <1>3

\* What was handed over stays handed over.
LEMMA HandOverAfter ==
  ASSUME TypeOK, HandOverInv, NEW s, NEW e, Written(s, e), UNCHANGED <<generation, entered>>
  PROVE  HandOverInv'
<1> SUFFICES ASSUME NEW g \in Generation, g > LivePolicy,
                    g < generation \/ (g = generation /\ entered)
             PROVE  CarriedOver(g)'
  BY DEF HandOverInv
<1>1. g \in Nat /\ generation \in Generation /\ generation \in Nat
  BY ConstantFacts DEF TypeOK
<1>2. g - 1 \in Generation \ {generation}
  BY <1>1, ConstantFacts DEF Generation, LivePolicy
<1>3. journal'[g - 1] = journal[g - 1]
  BY <1>2 DEF Written
<1>4. ASSUME NEW p \in OpenPositions(journal[g - 1]) PROVE Imported(g, p)'
  <2>1. p.symbol \in Symbol
    BY <1>2, PositionEntry
  <2>2. Imported(g, p)
    BY DEF HandOverInv, CarriedOver
  <2> QED
    BY <2>1, <2>2, ImportedAfter
<1> QED
  BY <1>3, <1>4 DEF CarriedOver

\* What was carried over, an import finds imported.
LEMMA ImportsBefore ==
  ASSUME CarryInv, CommitImport
  PROVE  /\ ~entered /\ generation > LivePolicy
         /\ \E p \in staged : /\ p \in Position /\ journal[generation][p.symbol] = <<>>
                              /\ p \in OpenPositions(journal[generation - 1])
                              /\ Written(p.symbol, OpenEvent(p.bar, TRUE))
<1>0. TypeOK /\ generation \in Generation
  BY DEF CarryInv, RecordInv, TypeOK
<1>1. PICK p \in staged : /\ p \in Position /\ journal[generation][p.symbol] = <<>>
                          /\ generation > LivePolicy
                          /\ p \in OpenPositions(journal[generation - 1])
                          /\ Written(p.symbol, OpenEvent(p.bar, TRUE))
  BY <1>0, ImportWrites DEF CarryInv, RecordInv, ImportInv
<1>2. ~Imported(generation, p)
  <2>1. DOMAIN journal[generation][p.symbol] = {}
    BY <1>1
  <2> QED
    BY <2>1 DEF Imported
<1> QED
  BY <1>0, <1>1, <1>2 DEF CarryInv, HandOverInv, CarriedOver

\* What the gate lets pass was carried over.
LEMMA AdmitCarries ==
  ASSUME CarryInv, Admit, generation > LivePolicy
  PROVE  CarriedOver(generation)
<1>0. TypeOK /\ generation \in Generation /\ watched = Symbol
      /\ recovered \subseteq OpenPositions(journal[generation])
  BY DEF CarryInv, RecordInv, TypeOK, MemoryInv, Admit
<1>1. generation - 1 \in Generation
  BY <1>0, ConstantFacts DEF Generation, LivePolicy
<1> SUFFICES ASSUME NEW p \in OpenPositions(journal[generation - 1])
             PROVE  Imported(generation, p)
  BY DEF CarriedOver
<1>2. CASE entered
  BY <1>0, <1>2 DEF CarryInv, HandOverInv, CarriedOver
<1>3. CASE ~entered
  <2>1. Predecessor = OpenPositions(journal[generation - 1])
    BY <1>0, <1>1, FullView DEF Predecessor
  <2>2. Continues(Consumed(Predecessor))
    BY DEF Admit, LivePolicy
  <2>3. CASE recovered = {}
    BY <2>1, <2>2, <2>3 DEF Continues, ContinuityAllows, Consumed
  <2>4. CASE recovered # {}
    <3>1. p \in OpenPositions(journal[generation])
      BY <1>0, <2>1, <2>2, <2>4 DEF Continues, ContinuityAllows, SamePosition
    <3>2. p.symbol \in Symbol /\ \E i \in DOMAIN journal[generation][p.symbol] :
                                   journal[generation][p.symbol][i].bar = p.bar
      BY <1>0, <3>1, PositionEntry
    <3>3. PICK i \in DOMAIN journal[generation][p.symbol] :
            journal[generation][p.symbol][i].bar = p.bar
      BY <3>2
    <3>4. ImportedFrom(p.symbol)
      BY <1>3, <3>2, <3>3 DEF CarryInv, RecordInv, ImportInv
    <3>5. PICK bar : journal[generation][p.symbol] = <<OpenEvent(bar, TRUE)>>
      BY <3>4 DEF ImportedFrom
    <3>6. i = 1 /\ journal[generation][p.symbol][i].imported
      BY <3>3, <3>5 DEF OpenEvent
    <3> QED
      BY <3>3, <3>6 DEF Imported
  <2> QED
    BY <2>3, <2>4
<1> QED
  BY <1>2, <1>3

\* Only the gate has to make sure of it.
LEMMA HandOverStep ==
  ASSUME CarryInv, [Next]_vars
  PROVE  HandOverInv'
<1>0. TypeOK /\ generation \in Generation /\ generation \in Nat /\ Generation \subseteq Nat
  BY ConstantFacts DEF CarryInv, RecordInv, TypeOK
<1>1. CASE Watch \/ Enter \/ CommitImport
  <2>1. UNCHANGED <<generation, entered>>
    BY <1>1 DEF Watch, Monitor, Enter, OpenSelected, CommitImport, operator
  <2>2. UNCHANGED journal \/ \E s, e : Written(s, e)
    BY <1>0, <1>1, WatchWrites, EnterWrites, ImportWrites DEF CarryInv, RecordInv
  <2>3. CASE UNCHANGED journal
    BY <2>1, <2>3 DEF CarryInv, HandOverInv, CarriedOver, Imported
  <2>4. CASE \E s, e : Written(s, e)
    BY <1>0, <2>1, <2>4, HandOverAfter DEF CarryInv
  <2> QED
    BY <2>2, <2>3, <2>4
<1>2. CASE Admit
  <2>1. UNCHANGED <<generation, journal>>
    BY <1>2 DEF Admit, TakeOver
  <2>2. generation > LivePolicy => CarriedOver(generation)
    BY <1>2, AdmitCarries
  <2> QED
    BY <2>1, <2>2 DEF CarryInv, HandOverInv, CarriedOver, Imported
<1>3. CASE StageImport \/ AbandonImport \/ UNCHANGED <<operator, journal>>
  <2>1. UNCHANGED <<generation, entered, journal>>
    BY <1>3 DEF StageImport, AbandonImport, operator
  <2> QED
    BY <2>1 DEF CarryInv, HandOverInv, CarriedOver, Imported
<1>4. CASE NextProgram
  <2>1. generation' = generation + 1 /\ entered /\ ~entered' /\ UNCHANGED journal
    BY <1>4 DEF NextProgram
  <2>2. \A g \in Generation : g < generation' => g < generation \/ g = generation
    BY <1>0, <2>1
  <2> QED
    BY <2>1, <2>2 DEF CarryInv, HandOverInv, CarriedOver, Imported
<1> QED
  BY <1>1, <1>2, <1>3, <1>4, OtherSteps

\* A session keeps the symbols it was started with.
LEMMA WatchedStep ==
  ASSUME AllSymbols, [Next]_vars, pc # "down" => watched = Symbol
  PROVE  (pc # "down" => watched = Symbol)'
<1>1. CASE \E list \in SymbolLists : StartSession(list)
  BY <1>1 DEF AllSymbols, StartSession
<1>2. CASE Recover \/ Admit \/ Watch \/ Move \/ Retreat
  BY <1>2 DEF Recover, PolicyRecover, RiskRecover, RecoverCurrent, Admit, TakeOver, Watch, Monitor,
    Move, Retreat, Loop, Entering
<1>3. CASE Look \/ Pick \/ Enter \/ EndCycle
  BY <1>3 DEF Look, FindTransitions, TakeSnapshots, AskAuthorities, WatchEntries, Pick, Arbitrate,
    Choose, Enter, OpenSelected, EndCycle
<1>4. CASE Stop
  BY <1>4 DEF Stop, Forget
<1>5. CASE Operator \/ Market \/ UNCHANGED vars
  BY <1>5 DEF Operator, StageImport, CommitImport, AbandonImport, NextProgram, ToggleSwitch,
    Market, Quote, NewBar, vars, session
<1> QED
  BY <1>1, <1>2, <1>3, <1>4, <1>5, ProgramSteps DEF Next

\* Nothing has been handed over in the beginning, nor had to be.
LEMMA CarryInit == Init => CarryInv
<1> SUFFICES ASSUME Init PROVE CarryInv
  OBVIOUS
<1>1. /\ generation = FirstGeneration /\ ~entered /\ pc = "down"
      /\ \A g \in Generation : g # FirstGeneration - 1 => journal[g] = NoEvents
  BY InitialEntries
<1>2. ASSUME NEW g \in Generation, g > LivePolicy, g < generation PROVE CarriedOver(g)
  <2>1. g - 1 \in Generation /\ g - 1 # FirstGeneration - 1 /\ FirstGeneration \in Int
    BY <1>1, <1>2, ConstantFacts DEF Generation, LivePolicy
  <2>2. \A s \in Symbol : DOMAIN journal[g - 1][s] = {}
    BY <1>1, <2>1 DEF NoEvents
  <2> QED
    BY <2>2, PositionIn DEF CarriedOver
<1> QED
  BY <1>1, <1>2, RecordInit DEF CarryInv, HandOverInv

\* Records, hand-over and symbols together.
LEMMA CarryStep ==
  ASSUME AllSymbols, CarryInv, [Next]_vars
  PROVE  CarryInv'
<1>1. RecordInv' /\ HandOverInv'
  BY RecordStep, HandOverStep DEF CarryInv
<1>2. (pc # "down" => watched = Symbol)'
  BY WatchedStep DEF CarryInv
<1> QED
  BY <1>1, <1>2 DEF CarryInv

\* No program past its gate leaves a position of its predecessor behind, even
\* if imports run next to the session that looks.
THEOREM PortfolioHandedOver == AllSymbols /\ Spec => []NoFreshPortfolio
<1> SUFFICES ASSUME AllSymbols PROVE Spec => []NoFreshPortfolio
  OBVIOUS
<1>1. CarryInv /\ [Next]_vars => CarryInv'
  BY CarryStep
<1>2. CarryInv => NoFreshPortfolio
  BY DEF CarryInv, RecordInv, TypeOK, MemoryInv, HandOverInv, CarriedOver, NoFreshPortfolio
<1> QED
  BY <1>1, <1>2, CarryInit, PTL DEF Spec

-----------------------------------------------------------------------------
\* One portfolio

\* One position at most in a namespace: none of its journals has two.
LEMMA OneIsValid ==
  ASSUME TypeOK, OneInv, NEW g \in Generation, NEW s \in Symbol
  PROVE  LifecycleValid(journal[g][s])
<1> DEFINE j == journal[g][s]
<1>1. ASSUME NEW e \in OpenEvents(j), NEW f \in OpenEvents(j) PROVE e = f
  <2>1. PICK i \in DOMAIN j, k \in DOMAIN j :
          OpenAt(j, i) /\ e = j[i] /\ OpenAt(j, k) /\ f = j[k]
    BY DEF OpenEvents, OpenAt
  <2>2. /\ AsPosition(s, e) \in OpenPositions(journal[g])
        /\ AsPosition(s, f) \in OpenPositions(journal[g])
    BY <2>1, PositionIn
  <2>3. e.bar = f.bar
    BY <2>2 DEF AsPosition, OneInv
  <2>4. i \in Int /\ k \in Int
    <3>1. j \in Seq(Event)
      BY DEF TypeOK
    <3> QED
      BY <3>1
  <2>5. ~(k > i) /\ ~(i > k)
    BY <2>1, <2>3 DEF OpenAt
  <2> QED
    BY <2>1, <2>4, <2>5
<1> QED
  BY <1>1 DEF LifecycleValid

\* A set without two elements has one at most.
LEMMA AtMostOne ==
  ASSUME NEW P, \A p, q \in P : p = q
  PROVE  Cardinality(P) <= 1
<1>1. CASE P = {}
  BY <1>1, FS_EmptySet
<1>2. CASE P # {}
  <2>1. PICK p : P = {p}
    BY <1>2
  <2> QED
    BY <2>1, FS_Singleton
<1> QED
  BY <1>1, <1>2

\* With every journal in view, the portfolio check tells whether P is what is
\* open.
LEMMA AgreeMeansOpen ==
  ASSUME CarryInv, OneInv, pc # "down",
         NEW P, P \subseteq OpenPositions(journal[generation])
  PROVE  RecoveriesAgree(P) <=> P = OpenPositions(journal[generation])
<1>0. TypeOK /\ generation \in Generation /\ View(generation) = journal[generation]
  BY FullView DEF CarryInv, RecordInv, TypeOK
<1> DEFINE O == OpenPositions(journal[generation])
<1>1. \A p, q \in O : p = q
  BY <1>0 DEF OneInv
<1>2. ASSUME RecoveriesAgree(P) PROVE P = O
  <2>1. {PositionId(p) : p \in O} = {PositionId(p) : p \in P}
    BY <1>0, <1>2 DEF RecoveriesAgree, PortfolioConsistent
  <2>2. ASSUME NEW p \in O PROVE p \in P
    <3>1. PICK q \in P : PositionId(p) = PositionId(q)
      BY <2>1
    <3> QED
      BY <1>1, <3>1
  <2> QED
    BY <2>2
<1>3. ASSUME P = O PROVE RecoveriesAgree(P)
  <2>1. \A s \in Symbol : RiskRecoveryValid(journal[generation][s]) /\ LifecycleValid(journal[generation][s])
    BY <1>0, OneIsValid DEF CarryInv, RecordInv, Recoverable
  <2>2. SnapshotValid(O) /\ Cardinality(O) <= MaxOpenShadowPositions
    BY <1>1, AtMostOne DEF SnapshotValid, MaxOpenShadowPositions
  <2> QED
    BY <1>0, <1>3, <2>1, <2>2 DEF RecoveriesAgree, PortfolioConsistent, RecoveriesValid, AggregateValid
<1> QED
  BY <1>2, <1>3

\* With every journal in view, every program recovers what is open.
LEMMA RecoversAll ==
  ASSUME JournalsRead, CarryInv, OneInv, Recover
  PROVE  recovered' = OpenPositions(journal[generation])
<1>0. /\ TypeOK /\ generation \in Generation /\ watched = Symbol /\ pc # "down"
      /\ View(generation) = journal[generation]
  BY FullView DEF CarryInv, RecordInv, TypeOK, Recover, PolicyRecover, RiskRecover, RecoverCurrent
<1> DEFINE J == journal[generation]
           P == OpenPositions(J)
<1>1. CASE generation = LivePolicy /\ PolicyRecover
  <2>1. ObservedAtStart
    BY <1>1, ConstantFacts DEF JournalsRead, CarryInv, RecordInv, ChainInv, LivePolicy
  <2>2. recovered' = {p \in P : p.symbol \in Symbol /\ LifecycleValid(J[p.symbol])}
    BY <1>0, <1>1, <2>1 DEF PolicyRecover, PolicyObserved, PolicyRecovered
  <2>3. \A p \in P : p.symbol \in Symbol
    BY <1>0, PositionEntry
  <2>4. \A s \in Symbol : LifecycleValid(J[s])
    BY <1>0, OneIsValid
  <2> QED
    BY <2>2, <2>3, <2>4
<1>2. CASE RiskRecover
  <2>1. recovered' \subseteq P /\ RecoveriesAgree(recovered')
    BY <1>0, <1>2 DEF RiskRecover, RiskRecovered, RiskRecoveriesAgree
  <2> QED
    BY <1>0, <2>1, AgreeMeansOpen
<1>3. CASE RecoverCurrent
  BY <1>0, <1>3 DEF RecoverCurrent
<1> QED
  BY <1>1, <1>2, <1>3 DEF Recover

\* What is known to be open stays what is open, through the cycle.
LEMMA KnownStep ==
  ASSUME JournalsRead, PortfolioInv, [Next]_vars
  PROVE  KnownInv'
<1>0. /\ TypeOK /\ MemoryInv /\ DealInv /\ generation \in Generation
      /\ CarryInv /\ OneInv /\ KnownInv
  BY DEF PortfolioInv, CarryInv, RecordInv, TypeOK
<1> USE DEF Loop, Entering, Checked
<1>1. CASE \E list \in SymbolLists : StartSession(list)
  BY <1>1 DEF StartSession, KnownInv
<1>2. CASE Recover
  <2>1. recovered' = OpenPositions(journal[generation])
    BY <1>0, <1>2, RecoversAll
  <2> QED
    BY <1>2, <2>1 DEF Recover, PolicyRecover, RiskRecover, RecoverCurrent, KnownInv, operator
<1>3. CASE Admit
  BY <1>0, <1>3 DEF Admit, TakeOver, KnownInv
<1>4. CASE Watch
  <2>1. /\ pc = "update" /\ UNCHANGED generation
        /\ pc' = "refresh" \/ (generation = LivePolicy /\ pc' = "bars")
        /\ memory \subseteq OpenPositions(journal[generation])
        /\ generation = LivePolicy => memory = OpenPositions(journal[generation])
    BY <1>0, <1>4 DEF Watch, Monitor, operator, MemoryInv, KnownInv
  <2>2. CASE UNCHANGED <<journal, memory>>
    BY <2>1, <2>2 DEF KnownInv
  <2>3. CASE ~UNCHANGED <<journal, memory>>
    <3>1. PICK p \in memory : Written(p.symbol, CloseEvent(p)) /\ memory' = {}
      BY <1>0, <1>4, <2>3, WatchWrites
    <3>2. OpenPositions(journal'[generation]) = {}
      BY <1>0, <2>1, <3>1, ClosedAfter
    <3> QED
      BY <2>1, <3>1, <3>2 DEF KnownInv
  <2> QED
    BY <2>2, <2>3
<1>5. CASE Move
  <2>1. /\ pc \in Loop /\ pc' \in Loop /\ UNCHANGED <<generation, memory, journal>>
        /\ pc' \in Checked => pc \in Checked \/ Refreshed
    BY <1>5 DEF Move, operator
  <2>2. Refreshed => memory = OpenPositions(journal[generation])
    BY <1>0, <2>1, AgreeMeansOpen DEF Refreshed, MemoryInv
  <2> QED
    BY <1>0, <2>1, <2>2 DEF KnownInv
<1>6. CASE Retreat \/ EndCycle
  BY <1>0, <1>6 DEF Retreat, EndCycle, Again, KnownInv, operator
<1>7. CASE Look
  BY <1>0, <1>7 DEF Look, FindTransitions, TakeSnapshots, AskAuthorities, WatchEntries,
    KnownInv, operator
<1>8. CASE Pick
  BY <1>0, <1>8 DEF Pick, Arbitrate, Choose, KnownInv, operator
<1>9. CASE Enter
  <2>1. /\ pc = "open" /\ pc' \in {"opened", "end"} /\ UNCHANGED generation
        /\ memory = OpenPositions(journal[generation]) /\ memory = {}
    BY <1>0, <1>9, EnterWrites DEF Enter, OpenSelected, operator, MemoryInv, KnownInv
  <2>2. CASE UNCHANGED <<journal, memory>>
    BY <2>1, <2>2 DEF KnownInv
  <2>3. CASE ~UNCHANGED <<journal, memory>>
    <3>1. PICK s : /\ Written(s, OpenEvent(due[s], FALSE))
                   /\ memory' = {AsPosition(s, OpenEvent(due[s], FALSE))}
      BY <1>0, <1>9, <2>3, EnterWrites
    <3>2. OpenPositions(journal'[generation]) = memory'
      BY <1>0, <2>1, <3>1, OpenedAfter
    <3> QED
      BY <2>1, <3>2 DEF KnownInv
  <2> QED
    BY <2>2, <2>3
<1>10. CASE Stop
  BY <1>10 DEF Stop, Forget, KnownInv
<1>11. CASE CommitImport
  <2>1. ~entered /\ generation > LivePolicy
    BY <1>0, <1>11, ImportsBefore
  <2>2. pc \notin Loop /\ generation # LivePolicy
    BY <1>0, <2>1 DEF MemoryInv, LivePolicy
  <2> QED
    BY <1>11, <2>2 DEF CommitImport, session, KnownInv
<1>12. CASE NextProgram
  BY <1>12 DEF NextProgram, session, KnownInv
<1>13. CASE StageImport \/ AbandonImport \/ ToggleSwitch \/ Market
  BY <1>0, <1>13 DEF StageImport, AbandonImport, ToggleSwitch, Market, Quote, NewBar, operator,
    session, KnownInv
<1>14. CASE UNCHANGED vars
  BY <1>0, <1>14 DEF vars, operator, session, KnownInv
<1> QED
  BY <1>1, <1>2, <1>3, <1>4, <1>5, <1>6, <1>7, <1>8, <1>9, <1>10, <1>11, <1>12, <1>13, <1>14,
    ProgramSteps DEF Next, Operator

\* Before the gate a namespace whose journal takes an import has no other.
LEMMA ImportIntoEmpty ==
  ASSUME CarryInv, OneInv, CommitImport
  PROVE  \A s \in Symbol : journal[generation][s] = <<>>
<1>0. TypeOK /\ generation \in Generation
  BY DEF CarryInv, RecordInv, TypeOK
<1>1. ~entered /\ generation > LivePolicy
  BY ImportsBefore
<1>2. PICK p \in staged : /\ p \in Position /\ journal[generation][p.symbol] = <<>>
                          /\ p \in OpenPositions(journal[generation - 1])
  BY ImportsBefore
<1>3. generation - 1 \in Generation
  BY <1>0, <1>1, ConstantFacts DEF Generation, LivePolicy
<1>4. ASSUME NEW s \in Symbol, ImportedFrom(s) PROVE s = p.symbol
  BY <1>2, <1>3, <1>4 DEF ImportedFrom, OneInv
<1> QED
  BY <1>1, <1>2, <1>4 DEF CarryInv, RecordInv, ImportInv

\* A position is only opened, or imported, where none is open.
LEMMA OneStep ==
  ASSUME PortfolioInv, [Next]_vars
  PROVE  OneInv'
<1>0. /\ TypeOK /\ MemoryInv /\ DealInv /\ generation \in Generation
      /\ CarryInv /\ OneInv /\ KnownInv
  BY DEF PortfolioInv, CarryInv, RecordInv, TypeOK
<1>1. CASE UNCHANGED journal
  BY <1>0, <1>1 DEF OneInv
<1>2. ASSUME NEW s, NEW e, Written(s, e), \A p, q \in OpenPositions(journal'[generation]) : p = q
      PROVE  OneInv'
  <2>1. \A g \in Generation : g # generation => journal'[g] = journal[g]
    BY <1>2 DEF Written
  <2>2. ASSUME NEW g \in Generation, NEW p \in OpenPositions(journal'[g]),
               NEW q \in OpenPositions(journal'[g])
        PROVE  p = q
    <3>1. CASE g = generation
      BY <1>2, <2>2, <3>1
    <3>2. CASE g # generation
      <4>1. journal'[g] = journal[g]
        BY <2>1, <3>2
      <4> QED
        BY <1>0, <2>2, <4>1 DEF OneInv
    <3> QED
      BY <3>1, <3>2
  <2> QED
    BY <2>2 DEF OneInv
<1>3. CASE Watch /\ ~UNCHANGED journal
  <2>1. PICK p \in memory : Written(p.symbol, CloseEvent(p))
    BY <1>0, <1>3, WatchWrites
  <2>2. p \in OpenPositions(journal[generation])
    BY <1>0, <1>3 DEF Watch, MemoryInv, Loop
  <2>3. OpenPositions(journal'[generation]) = {}
    BY <1>0, <2>1, <2>2, ClosedAfter
  <2> QED
    BY <1>2, <2>1, <2>3
<1>4. CASE Enter /\ ~UNCHANGED journal
  <2>1. PICK s \in selected : Written(s, OpenEvent(due[s], FALSE))
    BY <1>0, <1>4, EnterWrites
  <2>2. OpenPositions(journal[generation]) = {}
    BY <1>0, <1>4 DEF Enter, OpenSelected, MemoryInv, KnownInv, Loop, Entering, Checked
  <2>3. OpenPositions(journal'[generation]) = {AsPosition(s, OpenEvent(due[s], FALSE))}
    BY <1>0, <2>1, <2>2, OpenedAfter
  <2> QED
    BY <1>2, <2>1, <2>3
<1>5. CASE CommitImport
  <2>1. PICK p \in staged : Written(p.symbol, OpenEvent(p.bar, TRUE))
    BY <1>0, <1>5, ImportsBefore
  <2>2. \A s \in Symbol : DOMAIN journal[generation][s] = {}
    BY <1>0, <1>5, ImportIntoEmpty
  <2>3. OpenPositions(journal[generation]) = {}
    BY <2>2, PositionIn
  <2>4. OpenPositions(journal'[generation]) = {AsPosition(p.symbol, OpenEvent(p.bar, TRUE))}
    BY <1>0, <2>1, <2>3, OpenedAfter
  <2> QED
    BY <1>2, <2>1, <2>4
<1> QED
  BY <1>1, <1>3, <1>4, <1>5, OtherSteps

\* The program before the first one left one position at most.
LEMMA PortfolioInit == Init => PortfolioInv
<1> SUFFICES ASSUME Init PROVE PortfolioInv
  OBVIOUS
<1>1. PICK left \in {{}} \cup {{s} : s \in Symbol} :
        \A g \in Generation, s \in Symbol : \A i \in DOMAIN journal[g][s] :
          s \in left /\ journal[g][s][i] = OpenEvent(0, FALSE)
  BY InitialEntries
<1>2. ASSUME NEW g \in Generation, NEW p \in OpenPositions(journal[g]), NEW q \in OpenPositions(journal[g])
      PROVE  p = q
  <2>1. PICK s \in Symbol : \E i \in DOMAIN journal[g][s] :
             OpenAt(journal[g][s], i) /\ p = AsPosition(s, journal[g][s][i])
    BY PositionIn
  <2>2. PICK t \in Symbol : \E i \in DOMAIN journal[g][t] :
             OpenAt(journal[g][t], i) /\ q = AsPosition(t, journal[g][t][i])
    BY PositionIn
  <2>3. /\ s \in left /\ p = AsPosition(s, OpenEvent(0, FALSE))
        /\ t \in left /\ q = AsPosition(t, OpenEvent(0, FALSE))
    BY <1>1, <2>1, <2>2
  <2>4. s = t
    BY <2>3
  <2> QED
    BY <2>3, <2>4
<1>3. KnownInv
  BY InitialEntries DEF KnownInv, Loop
<1> QED
  BY <1>2, <1>3, CarryInit DEF PortfolioInv, OneInv

\* The hand-over, the one position and what is known of it together.
LEMMA PortfolioStep ==
  ASSUME JournalsRead, PortfolioInv, [Next]_vars
  PROVE  PortfolioInv'
BY CarryStep, OneStep, KnownStep DEF PortfolioInv, JournalsRead

\* The chain of programs keeps one portfolio.
THEOREM Invariant == JournalsRead /\ Spec => []PortfolioInv
<1> SUFFICES ASSUME JournalsRead PROVE Spec => []PortfolioInv
  OBVIOUS
<1>1. PortfolioInv /\ [Next]_vars => PortfolioInv'
  BY PortfolioStep
<1> QED
  BY <1>1, PortfolioInit, PTL DEF Spec

\* Neither recovery ever refuses the journals of a namespace, and once memory
\* was compared with them it agrees until the cycle ends.
NeverLockedOut ==
  /\ \A g \in Generation : RecoveriesValid(journal[g])
  /\ pc \in Checked => Refreshed

\* Whatever was stopped, imported or handed over, no namespace gets into a
\* state its own recovery refuses: a start is never refused and a session
\* never ended for that reason, before an entry, after one or at its start.
THEOREM JournalsStayRecoverable == JournalsRead /\ Spec => []NeverLockedOut
<1>1. ASSUME PortfolioInv PROVE NeverLockedOut
  <2>0. TypeOK /\ CarryInv /\ OneInv /\ generation \in Generation
    BY <1>1 DEF PortfolioInv, CarryInv, RecordInv, TypeOK
  <2>1. ASSUME NEW g \in Generation PROVE RecoveriesValid(journal[g])
    <3>1. \A s \in Symbol : RiskRecoveryValid(journal[g][s]) /\ LifecycleValid(journal[g][s])
      BY <2>0, OneIsValid DEF CarryInv, RecordInv, Recoverable
    <3>2. SnapshotValid(OpenPositions(journal[g]))
      BY <2>0 DEF OneInv, SnapshotValid
    <3> QED
      BY <3>1, <3>2 DEF RecoveriesValid, AggregateValid
  <2>2. ASSUME pc \in Checked PROVE Refreshed
    BY <1>1, <2>0, <2>2, AgreeMeansOpen DEF PortfolioInv, KnownInv, Refreshed, Checked, Loop
  <2> QED
    BY <2>1, <2>2 DEF NeverLockedOut
<1> QED
  BY <1>1, Invariant, PTL

-----------------------------------------------------------------------------
\* What a session monitors, if no import runs next to it

\* Nothing but the session changes what it has recovered.
LEMMA MonitorStep ==
  ASSUME CarefulOperator, PortfolioInv, PortfolioInv', MonitorInv, [Next]_vars
  PROVE  MonitorInv'
<1>0. /\ TypeOK /\ MemoryInv /\ generation \in Generation /\ CarryInv /\ OneInv
      /\ (pc \in Loop => memory = OpenPositions(journal[generation]))
      /\ (pc = "gate" => recovered = OpenPositions(journal[generation]))
  BY DEF PortfolioInv, CarryInv, RecordInv, TypeOK, MonitorInv, PositionIsMonitored
<1>after. (pc \in Checked => memory = OpenPositions(journal[generation]))'
  BY DEF PortfolioInv, KnownInv, Checked
<1> SUFFICES /\ (pc = "gate" => recovered = OpenPositions(journal[generation]))'
             /\ (pc \in Loop => memory = OpenPositions(journal[generation]))'
  BY DEF MonitorInv, PositionIsMonitored
<1> USE DEF Loop, Entering
<1>1. CASE \E list \in SymbolLists : StartSession(list)
  BY <1>1 DEF StartSession
<1>2. CASE Recover
  <2>1. recovered' = OpenPositions(journal[generation])
    BY <1>0, <1>2, RecoversAll DEF CarefulOperator
  <2> QED
    BY <1>2, <2>1 DEF Recover, PolicyRecover, RiskRecover, RecoverCurrent, operator
<1>3. CASE Admit
  BY <1>0, <1>3 DEF Admit, TakeOver
<1>4. CASE Watch
  <2>1. /\ pc = "update" /\ pc' \in {"refresh", "bars"} /\ UNCHANGED generation
        /\ memory = OpenPositions(journal[generation])
    BY <1>0, <1>4 DEF Watch, Monitor, operator
  <2>2. CASE UNCHANGED <<journal, memory>>
    BY <2>1, <2>2
  <2>3. CASE ~UNCHANGED <<journal, memory>>
    <3>1. PICK p \in memory : Written(p.symbol, CloseEvent(p)) /\ memory' = {}
      BY <1>0, <1>4, <2>3, WatchWrites
    <3>2. OpenPositions(journal'[generation]) = {}
      BY <1>0, <2>1, <3>1, ClosedAfter
    <3> QED
      BY <2>1, <3>1, <3>2
  <2> QED
    BY <2>2, <2>3
<1>5. CASE Move \/ Retreat \/ EndCycle
  BY <1>0, <1>5 DEF Move, Retreat, EndCycle, Again, operator
<1>6. CASE Look \/ Pick
  BY <1>0, <1>6 DEF Look, FindTransitions, TakeSnapshots, AskAuthorities, WatchEntries,
    Pick, Arbitrate, Choose, operator
<1>7. CASE Enter
  <2>1. pc' \in {"opened", "end"}
    BY <1>0, <1>7, EnterWrites DEF PortfolioInv, CarryInv, RecordInv
  <2> QED
    BY <1>after, <2>1 DEF Checked
<1>8. CASE Stop
  BY <1>8 DEF Stop, Forget
<1>9. CASE CommitImport \/ NextProgram
  BY <1>9 DEF CommitImport, MayImport, NextProgram, CarefulOperator, session
<1>10. CASE StageImport \/ AbandonImport \/ ToggleSwitch \/ Market
  BY <1>0, <1>10 DEF StageImport, AbandonImport, ToggleSwitch, Market, Quote, NewBar, operator,
    session
<1>11. CASE UNCHANGED vars
  BY <1>0, <1>11 DEF vars, operator, session
<1> QED
  BY <1>1, <1>2, <1>3, <1>4, <1>5, <1>6, <1>7, <1>8, <1>9, <1>10, <1>11, ProgramSteps
  DEF Next, Operator

\* So memory is the portfolio from the gate on.
LEMMA MonitorInvariant == CarefulOperator /\ Spec => [](PortfolioInv /\ MonitorInv)
<1> SUFFICES ASSUME CarefulOperator PROVE Spec => [](PortfolioInv /\ MonitorInv)
  OBVIOUS
<1>1. Init => PortfolioInv /\ MonitorInv
  BY PortfolioInit, InitialEntries DEF MonitorInv, PositionIsMonitored, Loop
<1>2. PortfolioInv /\ MonitorInv /\ [Next]_vars => (PortfolioInv /\ MonitorInv)'
  BY PortfolioStep, MonitorStep DEF CarefulOperator
<1> QED
  BY <1>1, <1>2, PTL DEF Spec

\* Past the gate, memory is what the journals of the program say is open.
THEOREM PositionMonitored == CarefulOperator /\ Spec => []PositionIsMonitored
<1>1. MonitorInv => PositionIsMonitored
  BY DEF MonitorInv
<1> QED
  BY <1>1, MonitorInvariant, PTL

\* The portfolio check of a cycle would pass at any of its steps.
NeverBlocked == pc \in Loop => Refreshed

\* So no cycle is blocked because memory and journals disagree.
THEOREM CyclesNeverBlocked == CarefulOperator /\ Spec => []NeverBlocked
<1>1. ASSUME PortfolioInv, MonitorInv PROVE NeverBlocked
  BY <1>1, AgreeMeansOpen DEF PortfolioInv, MonitorInv, PositionIsMonitored, NeverBlocked,
    Refreshed, Loop
<1> QED
  BY <1>1, MonitorInvariant, PTL

-----------------------------------------------------------------------------
\* The programs implement SingleExposure

Ids(P) == {PositionId(p) : p \in P}

\* The positions there ever were have the traded bars.
LEMMA IdsTraded ==
  TypeOK => \A t \in Symbol : \A b : <<t, b>> \in KnownIds <=> b \in Traded(t)
<1> SUFFICES ASSUME TypeOK, NEW s \in Symbol, NEW b PROVE <<s, b>> \in KnownIds <=> b \in Traded(s)
  OBVIOUS
<1>1. b \in Traded(s) => b \in Bar
  BY TradedTypes
<1>2. ASSUME NEW g \in Generation
      PROVE  <<s, b>> \in PositionIds(g) <=> b \in Bar /\ b \in BarsOf(journal[g][s])
  BY DEF PositionIds, BarsOf
<1> QED
  BY <1>1, <1>2 DEF KnownIds, Traded

\* An open position is an exposure unless a later namespace knows of it.
LEMMA ExposureIs ==
  \A x : x \in OpenExposures <=>
    \E g \in Generation : \E p \in OpenPositions(journal[g]) :
      x = PositionId(p) /\ \A h \in Generation : h > g => PositionId(p) \notin PositionIds(h)
BY DEF OpenExposures

\* An open position is one of those there ever were.
LEMMA OpenIsKnown ==
  ASSUME TypeOK, NEW g \in Generation, NEW p \in OpenPositions(journal[g])
  PROVE  PositionId(p) \in PositionIds(g) /\ PositionId(p) \in KnownIds
<1>1. /\ p \in Position /\ p.symbol \in Symbol
      /\ \E i \in DOMAIN journal[g][p.symbol] : journal[g][p.symbol][i].bar = p.bar
  BY PositionEntry
<1>2. p.bar \in Bar
  BY <1>1 DEF Position
<1> QED
  BY <1>1, <1>2 DEF PositionIds, PositionId, KnownIds

\* An import makes its namespace know of the position.
LEMMA ImportedIsKnown ==
  ASSUME NEW g, NEW p \in Position, Imported(g, p)
  PROVE  PositionId(p) \in PositionIds(g)
BY DEF Imported, PositionIds, PositionId, Position

\* Of namespaces before the predecessor nothing is left,
LEMMA ExposuresLeft ==
  ASSUME PortfolioInv, NEW x \in OpenExposures
  PROVE  \/ x \in Ids(OpenPositions(journal[generation]))
         \/ /\ ~entered /\ generation > LivePolicy
            /\ x \in Ids(OpenPositions(journal[generation - 1]))
<1>0. TypeOK /\ generation \in Generation
  BY DEF PortfolioInv, CarryInv, RecordInv, TypeOK
<1>g. PICK g \in Generation : \E p \in OpenPositions(journal[g]) :
        x = PositionId(p) /\ \A h \in Generation : h > g => PositionId(p) \notin PositionIds(h)
  BY ExposureIs
<1>1. PICK p \in OpenPositions(journal[g]) :
        x = PositionId(p) /\ \A h \in Generation : h > g => PositionId(p) \notin PositionIds(h)
  BY <1>g
<1>2. p \in Position
  BY <1>0, FullView
<1>3. CASE g = generation
  BY <1>1, <1>3 DEF Ids
<1>4. CASE g > generation
  <2>1. \A s \in Symbol : DOMAIN journal[g][s] = {}
    BY <1>4 DEF PortfolioInv, CarryInv, RecordInv, ChainInv, NoEvents
  <2> QED
    BY <1>0, <2>1, PositionEntry
<1>5. CASE g < generation
  <2>1. g + 1 \in Generation /\ g + 1 > LivePolicy /\ g + 1 > g /\ g = (g + 1) - 1
        /\ g + 1 <= generation
    BY <1>0, <1>5, ConstantFacts DEF Generation, LivePolicy
  <2>2. ~CarriedOver(g + 1)
    BY <1>1, <1>2, <2>1, ImportedIsKnown DEF CarriedOver
  <2>3. g + 1 = generation /\ ~entered
    BY <2>1, <2>2, <1>0, ConstantFacts DEF PortfolioInv, CarryInv, HandOverInv
  <2>4. generation - 1 = g /\ generation > LivePolicy
    BY <2>1, <2>3
  <2> QED
    BY <1>1, <2>3, <2>4 DEF Ids
<1> QED
  BY <1>0, <1>3, <1>4, <1>5, ConstantFacts

\* the namespace in use counts,
LEMMA ExposuresEntered ==
  PortfolioInv /\ entered => OpenExposures = Ids(OpenPositions(journal[generation]))
<1> SUFFICES ASSUME PortfolioInv, entered
             PROVE  OpenExposures = Ids(OpenPositions(journal[generation]))
  OBVIOUS
<1>0. TypeOK /\ generation \in Generation
  BY DEF PortfolioInv, CarryInv, RecordInv, TypeOK
<1>1. ASSUME NEW p \in OpenPositions(journal[generation]) PROVE PositionId(p) \in OpenExposures
  <2>1. \A h \in Generation : h > generation => PositionIds(h) = {}
    BY DEF PortfolioInv, CarryInv, RecordInv, ChainInv, NoEvents, PositionIds
  <2> QED
    BY <1>0, <2>1, ExposureIs
<1> QED
  BY <1>1, ExposuresLeft DEF Ids

\* and the predecessor before the gate.
LEMMA ExposuresBefore ==
  PortfolioInv /\ ~entered =>
    OpenExposures = IF generation = LivePolicy THEN {}
                    ELSE Ids(OpenPositions(journal[generation - 1]))
<1> SUFFICES ASSUME PortfolioInv, ~entered
             PROVE  OpenExposures = IF generation = LivePolicy THEN {}
                                    ELSE Ids(OpenPositions(journal[generation - 1]))
  OBVIOUS
<1>0. TypeOK /\ generation \in Generation /\ generation \in Nat
  BY ConstantFacts DEF PortfolioInv, CarryInv, RecordInv, TypeOK
<1>1. ASSUME NEW p \in OpenPositions(journal[generation])
      PROVE  /\ generation > LivePolicy
             /\ PositionId(p) \in Ids(OpenPositions(journal[generation - 1]))
  <2>1. /\ p.symbol \in Symbol
        /\ \E i \in DOMAIN journal[generation][p.symbol] :
             journal[generation][p.symbol][i].bar = p.bar
    BY <1>0, PositionEntry
  <2>2. PICK i \in DOMAIN journal[generation][p.symbol] : journal[generation][p.symbol][i].bar = p.bar
    BY <2>1
  <2>3. ImportedFrom(p.symbol)
    BY <2>1, <2>2 DEF PortfolioInv, CarryInv, RecordInv, ImportInv
  <2>4. PICK q \in OpenPositions(journal[generation - 1]) :
          q.symbol = p.symbol /\ journal[generation][p.symbol] = <<OpenEvent(q.bar, TRUE)>>
    BY <2>3 DEF ImportedFrom
  <2>5. q.bar = p.bar
    BY <2>2, <2>4 DEF OpenEvent
  <2>6. PositionId(p) = PositionId(q)
    BY <2>4, <2>5 DEF PositionId
  <2> QED
    BY <2>3, <2>6 DEF Ids, ImportedFrom
<1>2. CASE generation = LivePolicy
  <2>1. ASSUME NEW x \in OpenExposures PROVE FALSE
    BY <1>1, <1>2, <2>1, ExposuresLeft DEF Ids, LivePolicy
  <2> QED
    BY <1>2, <2>1
<1>3. CASE generation # LivePolicy
  <2>0. generation > LivePolicy /\ generation - 1 \in Generation
    BY <1>0, <1>3, ConstantFacts DEF Generation, LivePolicy
  <2>1. ASSUME NEW x \in OpenExposures PROVE x \in Ids(OpenPositions(journal[generation - 1]))
    BY <1>1, <2>1, ExposuresLeft DEF Ids
  <2>2. ASSUME NEW p \in OpenPositions(journal[generation - 1]) PROVE PositionId(p) \in OpenExposures
    <3>1. CASE PositionId(p) \in PositionIds(generation)
      <4>1. p.symbol \in Symbol /\ DOMAIN journal[generation][p.symbol] # {}
        BY <2>0, <1>0, <3>1, PositionEntry DEF PositionIds, PositionId
      <4>2. ImportedFrom(p.symbol)
        BY <4>1 DEF PortfolioInv, CarryInv, RecordInv, ImportInv
      <4>3. journal[generation][p.symbol] = <<OpenEvent(p.bar, TRUE)>>
        BY <2>0, <4>2 DEF ImportedFrom, PortfolioInv, OneInv
      <4>4. OpenAt(journal[generation][p.symbol], 1)
            /\ 1 \in DOMAIN journal[generation][p.symbol]
            /\ journal[generation][p.symbol][1] = OpenEvent(p.bar, TRUE)
        BY <4>3 DEF OpenAt, OpenEvent
      <4>5. AsPosition(p.symbol, OpenEvent(p.bar, TRUE)) \in OpenPositions(journal[generation])
        BY <4>1, <4>4, PositionIn
      <4>6. PositionId(AsPosition(p.symbol, OpenEvent(p.bar, TRUE))) = PositionId(p)
        BY DEF AsPosition, OpenEvent, PositionId
      <4>7. \A h \in Generation : h > generation => PositionIds(h) = {}
        BY DEF PortfolioInv, CarryInv, RecordInv, ChainInv, NoEvents, PositionIds
      <4> QED
        BY <1>0, <4>5, <4>6, <4>7, ExposureIs
    <3>2. CASE PositionId(p) \notin PositionIds(generation)
      <4>1. ASSUME NEW h \in Generation, h > generation - 1 PROVE PositionId(p) \notin PositionIds(h)
        <5>1. h \in Nat
          BY ConstantFacts
        <5>2. h = generation \/ h > generation
          BY <1>0, <4>1, <5>1
        <5> QED
          BY <3>2, <5>2 DEF PortfolioInv, CarryInv, RecordInv, ChainInv, NoEvents, PositionIds
      <4> QED
        BY <2>0, <4>1, ExposureIs
    <3> QED
      BY <3>1, <3>2
  <2> QED
    BY <1>3, <2>1, <2>2 DEF Ids
<1> QED
  BY <1>2, <1>3

\* What a write adds to the positions there ever were.
LEMMA KnownIdsAfter ==
  ASSUME TypeOK, TypeOK', NEW s, NEW e, Written(s, e)
  PROVE  /\ e.bar \in Traded(s) => KnownIds' = KnownIds
         /\ KnownIds' = KnownIds \cup {<<s, e.bar>>}
<1>1. s \in Symbol /\ generation \in Generation
  BY DEF Written, TypeOK
<1>2. \A t \in Symbol : \A b : (<<t, b>> \in KnownIds <=> b \in Traded(t))
                           /\ (<<t, b>> \in KnownIds' <=> b \in Traded(t)')
  <2>1. (TypeOK => \A t \in Symbol : \A b : <<t, b>> \in KnownIds <=> b \in Traded(t))'
    BY IdsTraded, PTL
  <2> QED
    BY <2>1, IdsTraded
<1>3. \A x \in KnownIds \cup KnownIds' : x = <<x[1], x[2]>> /\ x[1] \in Symbol
  BY DEF KnownIds, PositionIds
<1>4. /\ Traded(s)' = Traded(s) \cup {e.bar}
      /\ \A t \in Symbol : t # s => Traded(t)' = Traded(t)
  <2>1. e.bar \in Traded(s)' /\ \A b \in Traded(s) : b \in Traded(s)'
    <3>1. e.bar \in BarsOf(journal'[generation][s])
      BY BarsAfter
    <3>2. ASSUME NEW g \in Generation, NEW b \in BarsOf(journal[g][s])
          PROVE  b \in BarsOf(journal'[g][s])
      BY <1>1, <3>2, BarsAfter
    <3> QED
      BY <1>1, <3>1, <3>2 DEF Traded
  <2> QED
    BY <2>1, TradedAfter
<1>5. ASSUME NEW t \in Symbol, NEW b
      PROVE  <<t, b>> \in KnownIds' <=> <<t, b>> \in KnownIds \/ (t = s /\ b = e.bar)
  BY <1>1, <1>2, <1>4
<1>6. KnownIds' = KnownIds \cup {<<s, e.bar>>}
  <2>1. ASSUME NEW x \in KnownIds' PROVE x \in KnownIds \cup {<<s, e.bar>>}
    BY <1>3, <1>5, <2>1
  <2>2. ASSUME NEW x \in KnownIds PROVE x \in KnownIds'
    BY <1>3, <1>5, <2>2
  <2>3. <<s, e.bar>> \in KnownIds'
    BY <1>1, <1>5
  <2> QED
    BY <2>1, <2>2, <2>3
<1>7. e.bar \in Traded(s) => <<s, e.bar>> \in KnownIds
  BY <1>1, <1>2
<1> QED
  BY <1>6, <1>7

\* In the beginning the program before the first one may hold a position.
LEMMA ExposureInit == Init => Exposures!Init
<1> SUFFICES ASSUME Init PROVE Exposures!Init
  OBVIOUS
<1>0. PortfolioInv /\ ~entered /\ generation = FirstGeneration
  BY PortfolioInit, InitialEntries
<1>1. PICK left \in {{}} \cup {{s} : s \in Symbol} :
        journal = [g \in Generation |->
                     IF g = FirstGeneration - 1
                     THEN [s \in Symbol |-> IF s \in left THEN <<OpenEvent(0, FALSE)>> ELSE <<>>]
                     ELSE NoEvents]
  BY DEF Init
<1>2. ASSUME NEW g \in Generation, NEW s \in Symbol
      PROVE  journal[g][s] = IF g = FirstGeneration - 1 /\ s \in left
                             THEN <<OpenEvent(0, FALSE)>> ELSE <<>>
  BY <1>1 DEF NoEvents
<1>3. ASSUME NEW x \in KnownIds
      PROVE  /\ FirstGeneration - 1 \in Generation /\ x \in OpenExposures
             /\ \E s \in left : s \in Symbol /\ x = <<s, 0>>
  <2>1. PICK g \in Generation : x \in PositionIds(g)
    BY DEF KnownIds
  <2>2. /\ x = <<x[1], x[2]>> /\ x[1] \in Symbol
        /\ \E i \in DOMAIN journal[g][x[1]] : journal[g][x[1]][i].bar = x[2]
    BY <2>1 DEF PositionIds
  <2>3. DOMAIN journal[g][x[1]] # {}
    BY <2>2
  <2>4. journal[g][x[1]] = <<OpenEvent(0, FALSE)>> /\ g = FirstGeneration - 1 /\ x[1] \in left
    <3>1. journal[g][x[1]] = IF g = FirstGeneration - 1 /\ x[1] \in left
                             THEN <<OpenEvent(0, FALSE)>> ELSE <<>>
      BY <1>2, <2>2
    <3>2. journal[g][x[1]] # <<>>
      BY <2>3
    <3> QED
      BY <3>1, <3>2
  <2>5. x[2] = 0
    BY <2>2, <2>4 DEF OpenEvent
  <2>6. /\ 1 \in DOMAIN journal[g][x[1]] /\ OpenAt(journal[g][x[1]], 1)
        /\ journal[g][x[1]][1] = OpenEvent(0, FALSE)
    BY <2>4 DEF OpenAt, OpenEvent
  <2>7. AsPosition(x[1], OpenEvent(0, FALSE)) \in OpenPositions(journal[g])
    BY <2>2, <2>6, PositionIn
  <2>8. PositionId(AsPosition(x[1], OpenEvent(0, FALSE))) = x
    BY <2>2, <2>5 DEF AsPosition, OpenEvent, PositionId
  <2>9. generation # LivePolicy /\ g = generation - 1
    BY <1>0, <2>4, ConstantFacts DEF LivePolicy
  <2>10. x \in OpenExposures
    BY <1>0, <2>7, <2>8, <2>9, ExposuresBefore DEF Ids
  <2> QED
    BY <2>2, <2>4, <2>5, <2>10
<1>4. OpenExposures \subseteq KnownIds
  BY <1>0, OpenIsKnown, ExposureIs DEF PortfolioInv, CarryInv, RecordInv
<1>5. \A x, y \in OpenExposures : x = y
  BY <1>3, <1>4
<1>6. OpenExposures \in {{}} \cup {{x} : x \in Symbol \X Bar}
  <2>1. \A x \in KnownIds : x \in Symbol \X Bar
    BY DEF KnownIds, PositionIds
  <2>2. CASE OpenExposures = {}
    BY <2>2
  <2>3. CASE OpenExposures # {}
    <3>1. PICK x : x \in OpenExposures
      BY <2>3
    <3>2. OpenExposures = {x} /\ x \in Symbol \X Bar
      BY <1>4, <1>5, <2>1, <3>1
    <3> QED
      BY <3>2
  <2> QED
    BY <2>2, <2>3
<1>7. KnownIds \ OpenExposures = {}
  BY <1>3
<1> QED
  BY <1>6, <1>7 DEF Exposures!Init

\* A step opens or closes one exposure, or changes nothing to be seen.
LEMMA ExposureStep ==
  ASSUME JournalsRead, PortfolioInv, PortfolioInv', [Next]_vars
  PROVE  \/ UNCHANGED <<OpenExposures, KnownIds>>
         \/ \E x \in Symbol \X Bar : Exposures!Open(x) \/ Exposures!Close(x)
<1>0. /\ TypeOK /\ TypeOK' /\ generation \in Generation
      /\ CarryInv /\ RecordInv /\ OneInv /\ MemoryInv /\ DealInv
  BY DEF PortfolioInv, CarryInv, RecordInv, TypeOK
<1>past. (PortfolioInv /\ entered => OpenExposures = Ids(OpenPositions(journal[generation])))'
  BY ExposuresEntered, PTL
<1>before. (PortfolioInv /\ ~entered => OpenExposures = IF generation = LivePolicy THEN {}
                                 ELSE Ids(OpenPositions(journal[generation - 1])))'
  BY ExposuresBefore, PTL
<1>1. CASE UNCHANGED journal
  BY <1>1 DEF OpenExposures, KnownIds, PositionIds
<1>2. CASE Watch /\ ~UNCHANGED journal
  <2>1. UNCHANGED operator /\ entered /\ memory \subseteq OpenPositions(journal[generation])
    BY <1>0, <1>2 DEF Watch, Monitor, MemoryInv, Loop
  <2>2. PICK p \in memory : Written(p.symbol, CloseEvent(p))
    BY <1>0, <1>2, WatchWrites
  <2>3. OpenPositions(journal'[generation]) = {}
    BY <1>0, <2>1, <2>2, ClosedAfter
  <2>4. OpenExposures' = {}
    BY <2>1, <2>3, <1>past DEF Ids, operator
  <2>5. PositionId(p) \in OpenExposures /\ OpenExposures \subseteq {PositionId(p)}
    BY <1>0, <2>1, ExposuresEntered DEF Ids, PortfolioInv, OneInv
  <2>6. p.symbol \in Symbol /\ p.bar \in Traded(p.symbol) /\ PositionId(p) \in KnownIds
    BY <1>0, <2>1, PositionTraded, OpenIsKnown
  <2>7. KnownIds' = KnownIds
    BY <1>0, <2>2, <2>6, KnownIdsAfter DEF CloseEvent
  <2>8. PositionId(p) \in Symbol \X Bar
    BY <2>6 DEF KnownIds, PositionIds
  <2>9. KnownIds' \ OpenExposures' = (KnownIds \ OpenExposures) \cup {PositionId(p)}
    BY <2>4, <2>5, <2>6, <2>7
  <2>10. Exposures!Close(PositionId(p))
    BY <2>4, <2>5, <2>9 DEF Exposures!Close
  <2> QED
    BY <2>8, <2>10
<1>3. CASE Enter /\ ~UNCHANGED journal
  <2>1. /\ UNCHANGED operator /\ entered /\ pc = "open"
        /\ OpenPositions(journal[generation]) = {}
    BY <1>0, <1>3 DEF Enter, OpenSelected, MemoryInv, PortfolioInv, KnownInv, Loop, Checked, Entering
  <2>2. PICK s \in selected : /\ s \in Due /\ due[s] \in Bar
                              /\ Written(s, OpenEvent(due[s], FALSE))
    BY <1>0, <1>3, EnterWrites
  <2> DEFINE x == <<s, due[s]>>
  <2>3. x \in Symbol \X Bar
    BY <2>2 DEF Due
  <2>4. OpenExposures = {}
    BY <2>1, ExposuresEntered DEF Ids
  <2>5. OpenExposures' = {x}
    <3>1. OpenPositions(journal'[generation]) = {AsPosition(s, OpenEvent(due[s], FALSE))}
      BY <1>0, <2>1, <2>2, OpenedAfter
    <3>2. PositionId(AsPosition(s, OpenEvent(due[s], FALSE))) = x
      BY DEF PositionId, AsPosition, OpenEvent
    <3>3. OpenExposures' = Ids(OpenPositions(journal'[generation]))
      BY <2>1, <1>past DEF operator
    <3> QED
      BY <3>1, <3>2, <3>3 DEF Ids
  <2>6. KnownIds' = KnownIds \cup {x}
    BY <1>0, <2>2, KnownIdsAfter DEF OpenEvent
  <2>7. x \notin KnownIds
    <3>1. due[s] \notin Traded(s)
      BY <1>0, <2>1, <2>2, FreshBar
    <3> QED
      BY <1>0, <2>3, <3>1, IdsTraded
  <2>8. KnownIds' \ OpenExposures' = KnownIds \ OpenExposures
    BY <2>4, <2>5, <2>6, <2>7
  <2>9. Exposures!Open(x)
    BY <2>4, <2>5, <2>7, <2>8 DEF Exposures!Open
  <2> QED
    BY <2>3, <2>9
<1>4. CASE CommitImport
  <2>1. PICK p \in staged : /\ p \in Position /\ journal[generation][p.symbol] = <<>>
                            /\ generation > LivePolicy
                            /\ p \in OpenPositions(journal[generation - 1])
                            /\ Written(p.symbol, OpenEvent(p.bar, TRUE))
    BY <1>0, <1>4, ImportsBefore
  <2>2. ~entered /\ UNCHANGED <<generation, entered>>
    BY <1>0, <1>4, ImportsBefore DEF CommitImport
  <2>3. generation - 1 \in Generation /\ generation - 1 # generation /\ generation # LivePolicy
    BY <1>0, <2>1, ConstantFacts DEF Generation, LivePolicy
  <2>4. journal'[generation - 1] = journal[generation - 1]
    BY <2>1, <2>3 DEF Written
  <2>5. OpenExposures' = OpenExposures
    BY <2>2, <2>3, <2>4, <1>before, ExposuresBefore
  <2>6. p.bar \in Traded(p.symbol)
    BY <1>0, <2>1, <2>3, PositionTraded
  <2>7. KnownIds' = KnownIds
    BY <1>0, <2>1, <2>6, KnownIdsAfter DEF OpenEvent
  <2> QED
    BY <2>5, <2>7
<1> QED
  BY <1>1, <1>2, <1>3, <1>4, OtherSteps

\* Seen from the open positions of all namespaces together, the programs hold
\* one position at a time, each once: stops, restarts, imports and the change
\* from one program to the next are stuttering.
THEOREM ProgramsHoldOneExposure == JournalsRead /\ Spec => ImplementsSingleExposure
<1> DEFINE Implements == [Exposures!Next]_<<OpenExposures, KnownIds \ OpenExposures>>
<1>1. ASSUME JournalsRead, PortfolioInv, PortfolioInv', [Next]_vars
      PROVE  Implements
  BY <1>1, ExposureStep DEF Exposures!Next
<1> SUFFICES ASSUME JournalsRead PROVE Spec => ImplementsSingleExposure
  OBVIOUS
<1>2. PortfolioInv /\ PortfolioInv' /\ [Next]_vars => Implements
  BY <1>1
<1>3. Spec => []PortfolioInv
  BY Invariant
<1> QED
  BY <1>2, <1>3, ExposureInit, PTL DEF Spec, ImplementsSingleExposure, Exposures!Spec
=============================================================================
