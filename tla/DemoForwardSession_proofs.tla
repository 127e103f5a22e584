-------------------- MODULE DemoForwardSession_proofs --------------------
(***************************************************************************)
(* Proofs about DemoForwardSession, for every set of symbols, every bar    *)
(* length and window and any number of orders, crashes and restarts.       *)
(*                                                                         *)
(* Whatever the session has not lost sight of is mirrored, or is the order *)
(* that is about to be; what is open in the journals was opened at the bar *)
(* of the last order.                                                      *)
(***************************************************************************)
EXTENDS DemoForwardSession, FiniteSetTheorems, TLAPS

-----------------------------------------------------------------------------
\* What an appended event does to the open positions of a journal and to its
\* validity

\* A position has one open event at most that is not followed.
LEMMA OneOpenEvent ==
  ASSUME NEW S, NEW j \in Seq(S),
         NEW e \in OpenEvents(j), NEW f \in OpenEvents(j), e.bar = f.bar
  PROVE  e = f
<1>1. PICK i \in DOMAIN j : j[i] = e /\ \A m \in DOMAIN j : m > i => j[m].bar # j[i].bar
  BY DEF OpenEvents
<1>2. PICK n \in DOMAIN j : j[n] = f /\ \A m \in DOMAIN j : m > n => j[m].bar # j[n].bar
  BY DEF OpenEvents
<1>3. i = n
  BY <1>1, <1>2
<1> QED
  BY <1>1, <1>2, <1>3

LEMMA AppendedEntry ==
  ASSUME NEW S, NEW j \in Seq(S), NEW e \in S
  PROVE  /\ DOMAIN Append(j, e) = 1 .. Len(j) + 1
         /\ DOMAIN j = 1 .. Len(j) /\ Len(j) \in Nat
         /\ Append(j, e)[Len(j) + 1] = e
         /\ \A i \in 1 .. Len(j) : Append(j, e)[i] = j[i]
OBVIOUS

\* An appended event takes the place of the open event of its position.
LEMMA OpenEventsAppend ==
  ASSUME NEW S, NEW j \in Seq(S), NEW e \in S
  PROVE  OpenEvents(Append(j, e)) =
           {f \in OpenEvents(j) : f.bar # e.bar} \cup (IF e.kind = "open" THEN {e} ELSE {})
<1> DEFINE k == Append(j, e)
           Unfollowed(q, n) == /\ q[n].kind = "open"
                               /\ \A m \in DOMAIN q : m > n => q[m].bar # q[n].bar
<1>1. /\ DOMAIN k = 1 .. Len(j) + 1 /\ DOMAIN j = 1 .. Len(j) /\ Len(j) \in Nat
      /\ k[Len(j) + 1] = e /\ \A i \in 1 .. Len(j) : k[i] = j[i]
  BY AppendedEntry
<1> HIDE DEF k
<1>2. \A n \in 1 .. Len(j) : Unfollowed(k, n) <=> Unfollowed(j, n) /\ j[n].bar # e.bar
  <2> TAKE n \in 1 .. Len(j)
  <2>1. Unfollowed(k, n) => Unfollowed(j, n) /\ j[n].bar # e.bar
    BY <1>1
  <2>2. Unfollowed(j, n) /\ j[n].bar # e.bar => Unfollowed(k, n)
    <3> SUFFICES ASSUME Unfollowed(j, n), j[n].bar # e.bar, NEW m \in DOMAIN k, m > n
                 PROVE  k[m].bar # k[n].bar
      BY <1>1
    <3>1. CASE m = Len(j) + 1
      BY <1>1, <3>1
    <3>2. CASE m \in 1 .. Len(j)
      BY <1>1, <3>2
    <3> QED
      BY <1>1, <3>1, <3>2
  <2> QED
    BY <2>1, <2>2
<1>3. Unfollowed(k, Len(j) + 1) <=> e.kind = "open"
  BY <1>1
<1>4. OpenEvents(k) = {k[i] : i \in {n \in DOMAIN k : Unfollowed(k, n)}}
  BY DEF OpenEvents
<1>5. OpenEvents(j) = {j[i] : i \in {n \in DOMAIN j : Unfollowed(j, n)}}
  BY DEF OpenEvents
<1> HIDE DEF Unfollowed
<1>6. ASSUME NEW f
      PROVE f \in OpenEvents(k) <=>
              f \in {g \in OpenEvents(j) : g.bar # e.bar} \cup (IF e.kind = "open" THEN {e} ELSE {})
  <2>1. f \in OpenEvents(k) <=>
          \/ \E n \in 1 .. Len(j) : Unfollowed(k, n) /\ f = k[n]
          \/ Unfollowed(k, Len(j) + 1) /\ f = k[Len(j) + 1]
    BY <1>1, <1>4
  <2>2. f \in OpenEvents(k) <=>
          \/ \E n \in 1 .. Len(j) : Unfollowed(j, n) /\ j[n].bar # e.bar /\ f = j[n]
          \/ e.kind = "open" /\ f = e
    BY <1>1, <1>2, <1>3, <2>1
  <2>3. f \in {g \in OpenEvents(j) : g.bar # e.bar} <=>
          \E n \in 1 .. Len(j) : Unfollowed(j, n) /\ j[n].bar # e.bar /\ f = j[n]
    BY <1>1, <1>5
  <2> QED
    BY <2>2, <2>3
<1> QED
  BY <1>6 DEF k

\* An entry opens or closes its position as before, whatever follows it.
LEMMA OpenBeforeAppend ==
  ASSUME NEW S, NEW j \in Seq(S), NEW e \in S
  PROVE  /\ \A i \in 1 .. Len(j) : OpenBefore(Append(j, e), i) <=> OpenBefore(j, i)
         /\ OpenBefore(Append(j, e), Len(j) + 1) <=> \E f \in OpenEvents(j) : f.bar = e.bar
<1> DEFINE k == Append(j, e)
<1>1. /\ DOMAIN k = 1 .. Len(j) + 1 /\ DOMAIN j = 1 .. Len(j) /\ Len(j) \in Nat
      /\ k[Len(j) + 1] = e /\ \A i \in 1 .. Len(j) : k[i] = j[i]
  BY AppendedEntry
<1> HIDE DEF k
<1>2. ASSUME NEW i \in 1 .. Len(j) PROVE OpenBefore(k, i) <=> OpenBefore(j, i)
  BY <1>1 DEF OpenBefore
<1>3. OpenBefore(k, Len(j) + 1) <=>
        \E n \in 1 .. Len(j) : /\ j[n].bar = e.bar /\ j[n].kind = "open"
                               /\ \A m \in 1 .. Len(j) : m > n => j[m].bar # e.bar
  <2>1. ASSUME NEW n \in 1 .. Len(j)
        PROVE  (\A m \in (n + 1) .. Len(j) : k[m].bar # e.bar) <=>
               (\A m \in 1 .. Len(j) : m > n => j[m].bar # e.bar)
    BY <1>1
  <2>2. (Len(j) + 1) - 1 = Len(j)
    BY <1>1
  <2> QED
    BY <1>1, <2>1, <2>2 DEF OpenBefore
<1>4. (\E f \in OpenEvents(j) : f.bar = e.bar) <=>
        \E n \in 1 .. Len(j) : /\ j[n].bar = e.bar /\ j[n].kind = "open"
                               /\ \A m \in 1 .. Len(j) : m > n => j[m].bar # e.bar
  BY <1>1 DEF OpenEvents
<1> QED
  BY <1>2, <1>3, <1>4 DEF k

\* A close keeps a journal valid if its position is open, an open if it is not.
LEMMA RecoveryAppend ==
  ASSUME NEW S, NEW j \in Seq(S), NEW e \in S,
         RiskRecoveryValid(j),
         e.kind = "close" <=> \E f \in OpenEvents(j) : f.bar = e.bar
  PROVE  RiskRecoveryValid(Append(j, e))
<1> SUFFICES ASSUME NEW i \in 1 .. Len(j) + 1
             PROVE  Append(j, e)[i].kind = "close" <=> OpenBefore(Append(j, e), i)
  BY AppendedEntry DEF RiskRecoveryValid
<1>1. CASE i \in 1 .. Len(j)
  BY <1>1, AppendedEntry, OpenBeforeAppend DEF RiskRecoveryValid
<1>2. CASE i = Len(j) + 1
  BY <1>2, AppendedEntry, OpenBeforeAppend
<1> QED
  BY <1>1, <1>2, AppendedEntry

\* A position of the portfolio is an open event of some journal.
LEMMA OpenPositionOf ==
  ASSUME NEW J
  PROVE  \A p : p \in OpenPositions(J) <=>
           \E s \in Symbol : \E e \in OpenEvents(J[s]) :
             p = [symbol |-> s, bar |-> e.bar, order |-> e.order, epoch |-> e.epoch]
BY DEF OpenPositions

\* The journals K are the journals J with event e added to the one of s.
Adds(J, K, s, e) == K[s] = Append(J[s], e) /\ \A t \in Symbol : t # s => K[t] = J[t]

\* Closing the only open position leaves none.
LEMMA LastPositionClosed ==
  ASSUME NEW S, NEW J \in [Symbol -> Seq(S)], NEW c \in S, c.kind = "close",
         NEW p \in OpenPositions(J), c.bar = p.bar,
         \A q \in OpenPositions(J) : p.symbol = q.symbol /\ p.bar = q.bar,
         \A s \in Symbol : RiskRecoveryValid(J[s]),
         NEW K, Adds(J, K, p.symbol, c)
  PROVE  /\ OpenPositions(K) = {}
         /\ \A s \in Symbol : RiskRecoveryValid(K[s])
<1>0. PICK t \in Symbol : \E e \in OpenEvents(J[t]) :
        p = [symbol |-> t, bar |-> e.bar, order |-> e.order, epoch |-> e.epoch]
  BY OpenPositionOf
<1>1. PICK e \in OpenEvents(J[t]) :
        p = [symbol |-> t, bar |-> e.bar, order |-> e.order, epoch |-> e.epoch]
  BY <1>0
<1>2. t = p.symbol /\ e.bar = c.bar /\ K[t] = Append(J[t], c) /\ J[t] \in Seq(S)
  BY <1>1 DEF Adds
<1>3. \A s \in Symbol : s # t => K[s] = J[s]
  BY <1>2 DEF Adds
<1>a. \A x : x \in OpenPositions(K) <=>
        \E s \in Symbol : \E f \in OpenEvents(K[s]) :
          x = [symbol |-> s, bar |-> f.bar, order |-> f.order, epoch |-> f.epoch]
  BY OpenPositionOf
<1>4. ASSUME NEW q \in OpenPositions(K) PROVE FALSE
  <2>0. PICK s \in Symbol : \E f \in OpenEvents(K[s]) :
          q = [symbol |-> s, bar |-> f.bar, order |-> f.order, epoch |-> f.epoch]
    BY <1>a
  <2>1. PICK f \in OpenEvents(K[s]) :
          q = [symbol |-> s, bar |-> f.bar, order |-> f.order, epoch |-> f.epoch]
    BY <2>0
  <2>2. f \in OpenEvents(J[s]) /\ (s = t => f.bar # c.bar)
    <3>1. CASE s = t
      <4>1. OpenEvents(Append(J[t], c)) = {g \in OpenEvents(J[t]) : g.bar # c.bar}
        BY <1>2, OpenEventsAppend
      <4> QED
        BY <1>2, <2>1, <3>1, <4>1
    <3>2. CASE s # t
      BY <1>3, <2>1, <3>2
    <3> QED
      BY <3>1, <3>2
  <2>3. q \in OpenPositions(J)
    BY <2>1, <2>2, OpenPositionOf
  <2> QED
    BY <1>2, <2>1, <2>2, <2>3
<1>5. RiskRecoveryValid(K[t])
  <2>1. \E f \in OpenEvents(J[t]) : f.bar = c.bar
    BY <1>2
  <2>2. RiskRecoveryValid(Append(J[t], c))
    BY <1>2, <2>1, RecoveryAppend
  <2> QED
    BY <1>2, <2>2
<1> QED
  BY <1>3, <1>4, <1>5

\* A position that is opened while none is open is the only one.
LEMMA FirstPositionOpened ==
  ASSUME NEW S, NEW J \in [Symbol -> Seq(S)], NEW e \in S, e.kind = "open",
         NEW s \in Symbol, \A q : q \notin OpenPositions(J),
         \A t \in Symbol : RiskRecoveryValid(J[t]),
         NEW K, Adds(J, K, s, e)
  PROVE  /\ \A q : q \in OpenPositions(K) <=>
                     q = [symbol |-> s, bar |-> e.bar, order |-> e.order, epoch |-> e.epoch]
         /\ \A t \in Symbol : RiskRecoveryValid(K[t])
<1>a. \A x : x \in OpenPositions(J) <=>
        \E u \in Symbol : \E f \in OpenEvents(J[u]) :
          x = [symbol |-> u, bar |-> f.bar, order |-> f.order, epoch |-> f.epoch]
  BY OpenPositionOf
<1>1. ASSUME NEW t \in Symbol, NEW f \in OpenEvents(J[t]) PROVE FALSE
  <2>1. [symbol |-> t, bar |-> f.bar, order |-> f.order, epoch |-> f.epoch] \in OpenPositions(J)
    BY <1>a
  <2> QED
    BY <2>1
<1>2. K[s] = Append(J[s], e) /\ \A t \in Symbol : t # s => K[t] = J[t]
  BY DEF Adds
<1>3. OpenEvents(K[s]) = {e}
  BY <1>1, <1>2, OpenEventsAppend
<1>4. \A t \in Symbol : t # s => OpenEvents(K[t]) = {}
  BY <1>1, <1>2
<1>5. RiskRecoveryValid(K[s])
  BY <1>1, <1>2, RecoveryAppend
<1>6. ASSUME NEW q
      PROVE  q \in OpenPositions(K) <=>
               q = [symbol |-> s, bar |-> e.bar, order |-> e.order, epoch |-> e.epoch]
  <2>1. q \in OpenPositions(K) <=>
          \E t \in Symbol : \E f \in OpenEvents(K[t]) :
            q = [symbol |-> t, bar |-> f.bar, order |-> f.order, epoch |-> f.epoch]
    BY OpenPositionOf
  <2> QED
    BY <1>3, <1>4, <2>1
<1> QED
  BY <1>2, <1>5, <1>6

-----------------------------------------------------------------------------
\* The inductive invariant

\* Deals have instants.
BrokerInv ==
  /\ \A k \in Order : status[k] = "unsent" <=> k > sent
  /\ \A k \in Order : opened[k] # None <=> status[k] \in {"open", "closed"}
  /\ \A k \in Order : closed[k] # None <=> status[k] = "closed"

\* An open event is of an order that was sent for its symbol and opened.
OpenedFor(s, e) ==
  LET k == OrderOf(e)
  IN  /\ k \in 1 .. sent /\ symbolOf[k] = s
      /\ opened[k] = e.epoch /\ barOf[k] <= e.bar

OpensAccounted == \A s \in Symbol : \A i \in DOMAIN journal[s] :
                    journal[s][i].kind = "open" => OpenedFor(s, journal[s][i])

\* Every event belongs to a bar an order was sent for.
Accounted == \A s \in Symbol : \A i \in DOMAIN journal[s] :
               \E k \in 1 .. sent : symbolOf[k] = s /\ barOf[k] = journal[s][i].bar

\* No two open events have an order or a bar in common.
OpensDiffer ==
  \A s \in Symbol : \A i, n \in DOMAIN journal[s] :
    LET e == journal[s][i]
        f == journal[s][n]
    IN  /\ e.kind = "open" /\ f.kind = "open"
        /\ OrderOf(e) = OrderOf(f) \/ e.bar = f.bar
        => i = n

\* What is open was opened at the bar of the last order.
JournalInv ==
  /\ \A p \in OpenPositions(journal) :
       sent >= 1 /\ p.symbol = symbolOf[sent] /\ p.bar = barOf[sent]
  /\ \A s \in Symbol : RiskRecoveryValid(journal[s])
  /\ Accounted /\ OpensAccounted /\ OpensDiffer

\* The steps of a startup at which the anchors have been set.
Anchored == (Startup \ {"positions", "orders", "journals"}) \cup Cycle \cup Entry

\* The last order was sent for the bar that is being looked at.
OnDueBar(k) ==
  /\ k = sent
  /\ pc \in {"confirm", "mirror", "opened", "end"}
  /\ barOf[k] = due[symbolOf[k]]

\* Bars are traded in their order, up to the anchor of a session.
OrderInv ==
  /\ \A k, n \in 1 .. sent : k < n /\ symbolOf[k] = symbolOf[n] => barOf[k] < barOf[n]
  /\ \A k \in 1 .. sent : barOf[k] <= latest[symbolOf[k]]
  /\ pc \in Anchored /\ mode = "trade" =>
       \A k \in 1 .. sent : barOf[k] <= anchor[symbolOf[k]] \/ OnDueBar(k)
  /\ \A s \in Symbol : due[s] # None => anchor[s] < due[s] /\ due[s] <= latest[s]
  /\ pc \in {"down"} \cup Startup => due = NoBar

\* The bar that was just traded has no event yet.
Unrecorded ==
  /\ sent >= 1
  /\ symbolOf[sent] \in selected /\ barOf[sent] = due[symbolOf[sent]]
  /\ \A i \in DOMAIN journal[symbolOf[sent]] : journal[symbolOf[sent]][i].bar # barOf[sent]

\* A journal has an open event of order k.
HasOpen(k) == \E s \in Symbol : \E i \in DOMAIN journal[s] :
                journal[s][i].kind = "open" /\ OrderOf(journal[s][i]) = k

\* The open event of order k is not followed.
IsMirrored(k) == \E p \in OpenPositions(journal) : OrderOf(p) = k

\* The steps at which candidates are dealt with.
Dealing == {"arbitrate", "watch", "policy", "check", "check orders", "send"}

\* What is known of the live orders the session has not lost sight of: they are
\* mirrored, or one of them is about to be.
ExposureInv ==
  /\ pc \in Cycle \cup {"send", "opened", "resume"} => \A k \in Live \ escaped : IsMirrored(k)
  /\ pc \in {"check orders", "send", "confirm"} =>
       \A k \in Live : symbolOf[k] \in selected => ~HasOpen(k)
  /\ pc = "confirm" => Live \ escaped \subseteq {sent} /\ opened[sent] # None
  /\ pc = "mirror" =>
       /\ Live \ escaped \subseteq {confirmed}
       /\ confirmed \in 1 .. sent /\ symbolOf[confirmed] \in selected
       /\ opened[confirmed] # None /\ ~HasOpen(confirmed)

\* A polling session knows what is open; nothing is while an order is made.
SessionInv ==
  /\ pc \in Cycle \cup Entry => mode = "trade" /\ memory = OpenPositions(journal)
  /\ pc \in (Dealing \ {"arbitrate"}) \cup {"confirm", "mirror"} => memory = {}
  /\ pc \in Dealing => \A s \in candidates \cup selected : due[s] # None
  /\ pc # "arbitrate" => candidates = {}
  /\ pc \notin Dealing \cup {"confirm", "mirror", "opened", "end"} => selected = {}
  /\ \A s, t \in selected : s = t
  /\ pc \in {"confirm", "mirror"} => Unrecorded

\* The steps of the reconciliation of a closure, and those after its deals
\* have been compared.
Closing == {"closure positions", "closure orders", "closure",
            "recheck positions", "recheck orders", "recheck", "apply"}
Confirmed == {"recheck positions", "recheck orders", "recheck", "apply"}

\* The deals that were read are those of the order of what is open.
DealsInv ==
  /\ pc \in Closing =>
       /\ OpenPositions(journal) # {}
       /\ \A d, e \in deals : d = e
       /\ \A d \in deals : \A p \in OpenPositions(journal) :
            d.order = OrderOf(p) /\ d.exit \in {None, closed[d.order]}
  /\ pc \in Confirmed => \A d \in deals : d.exit > opened[d.order]

\* A startup overlooks nothing but what is filled between its readings.
StartupInv ==
  /\ \A k \in seenPositions : opened[k] # None
  /\ pc \in {"orders", "post orders"} => Open \subseteq seenPositions \cup escaped
  /\ pc \in {"journals", "restart", "post"} =>
       Live \subseteq seenPositions \cup seenOrders \cup escaped

IInv ==
  /\ TypeOK
  /\ BrokerInv /\ JournalInv /\ OrderInv
  /\ ExposureInv /\ SessionInv /\ DealsInv /\ StartupInv
  /\ OfflineClosureIsTheDeal

-----------------------------------------------------------------------------
\* Types

LEMMA ConstantFacts ==
  /\ MaxOrders \in Nat /\ Last \in Nat /\ BarLength \in Nat \ {0}
  /\ EntryWindow \in Nat /\ MaxResidual \in Nat /\ LegacyDelay \in Nat
  /\ Symbol # {} /\ LegacySymbol \subseteq Symbol
  /\ LegacySymbol # {} => MaxOrders >= 1
  /\ None \notin Instant /\ NoOrder \notin Order
  /\ 0 \in Instant /\ \A t \in Instant : t \in Nat
BY SessionAssumption DEF None, NoOrder, Instant, Order

LEMMA EventAdded ==
  ASSUME journal \in [Symbol -> Seq(Event)], NEW s \in Symbol, NEW e \in Event
  PROVE  [journal EXCEPT ![s] = Append(@, e)] \in [Symbol -> Seq(Event)]
OBVIOUS

LEMMA OpenPositionTypes ==
  ASSUME journal \in [Symbol -> Seq(Event)]
  PROVE  OpenPositions(journal) \subseteq Position
<1> SUFFICES ASSUME NEW s \in Symbol, NEW e \in OpenEvents(journal[s])
             PROVE  [symbol |-> s, bar |-> e.bar, order |-> e.order, epoch |-> e.epoch] \in Position
  BY DEF OpenPositions
<1>1. e \in Event
  BY DEF OpenEvents
<1> QED
  BY <1>1 DEF Event, Position

LEMMA DealTypes ==
  /\ \A k : HistoryOf(k) \subseteq Deal
  /\ \A p : LegacyHistory(p) \subseteq Deal
BY DEF HistoryOf, LegacyHistory

LEMMA TypeInit == Init => TypeOK
<1> SUFFICES ASSUME Init PROVE TypeOK
  OBVIOUS
<1> USE ConstantFacts DEF Init, TypeOK, EmptySession, Instant, None, NoBar, NoOrder, Modes
<1>1. CASE Fresh
  <2>1. symbolOf \in [Order -> Symbol]
    BY <1>1 DEF Fresh
  <2> QED
    BY <1>1, <2>1 DEF Fresh
<1>2. CASE \E s \in LegacySymbol : Legacy(s)
  <2> PICK s \in LegacySymbol : Legacy(s)
    BY <1>2
  <2>1. LegacyOpen \in Event
    BY DEF LegacyOpen, Event
  <2>2. <<LegacyOpen>> \in Seq(Event) /\ <<>> \in Seq(Event)
    BY <2>1
  <2> QED
    BY <2>2 DEF Legacy, Order
<1> QED
  BY <1>1, <1>2

\* The orders that were sent are orders, and have instants.
LEMMA SentFacts ==
  ASSUME TypeOK
  PROVE  /\ sent \in Nat /\ sent <= MaxOrders /\ MaxOrders \in Nat
         /\ \A k \in 1 .. sent : k \in Order /\ k # sent + 1
         /\ \A k \in Order : symbolOf[k] \in Symbol /\ barOf[k] \in Nat /\ barOf[k] # None
         /\ sent >= 1 => sent \in 1 .. sent /\ sent \in Order
<1>1. sent \in Nat /\ sent <= MaxOrders /\ MaxOrders \in Nat
  BY ConstantFacts DEF TypeOK
<1>2. \A k \in 1 .. sent : k \in Order /\ k # sent + 1
  BY <1>1 DEF Order
<1>3. \A k \in Order : symbolOf[k] \in Symbol /\ barOf[k] \in Nat /\ barOf[k] # None
  BY ConstantFacts DEF TypeOK
<1> QED
  BY <1>1, <1>2, <1>3

\* An open position is the last event of its bar in its journal.
LEMMA OpenPositionEvent ==
  ASSUME NEW p \in OpenPositions(journal)
  PROVE  /\ p.symbol \in Symbol
         /\ \E i \in DOMAIN journal[p.symbol] :
              LET e == journal[p.symbol][i]
              IN  /\ e.kind = "open" /\ e.bar = p.bar
                  /\ e.order = p.order /\ e.epoch = p.epoch
                  /\ \A m \in DOMAIN journal[p.symbol] :
                       m > i => journal[p.symbol][m].bar # p.bar
<1>1. PICK s \in Symbol : \E e \in OpenEvents(journal[s]) :
        p = [symbol |-> s, bar |-> e.bar, order |-> e.order, epoch |-> e.epoch]
  BY OpenPositionOf
<1>2. PICK e \in OpenEvents(journal[s]) :
        p = [symbol |-> s, bar |-> e.bar, order |-> e.order, epoch |-> e.epoch]
  BY <1>1
<1>3. p.symbol = s /\ p.bar = e.bar /\ p.order = e.order /\ p.epoch = e.epoch
  BY <1>2
<1>4. PICK i \in DOMAIN journal[s] :
        /\ journal[s][i] = e /\ e.kind = "open"
        /\ \A m \in DOMAIN journal[s] : m > i => journal[s][m].bar # e.bar
  BY DEF OpenEvents
<1> QED
  BY <1>3, <1>4

\* What is open is of an order that was opened at its epoch, and was opened at
\* the bar of the last order.
LEMMA OpenFacts ==
  ASSUME TypeOK, JournalInv, NEW p \in OpenPositions(journal)
  PROVE  /\ p \in Position /\ p.symbol \in Symbol
         /\ sent \in Order /\ sent \in 1 .. sent
         /\ p.symbol = symbolOf[sent] /\ p.bar = barOf[sent]
         /\ OrderOf(p) \in 1 .. sent /\ OrderOf(p) \in Order
         /\ Mirrors(p, OrderOf(p)) /\ barOf[OrderOf(p)] <= p.bar
         /\ opened[OrderOf(p)] \in Instant
         /\ \A q \in OpenPositions(journal) : p.symbol = q.symbol /\ p.bar = q.bar
<1>1. p \in Position
  BY OpenPositionTypes DEF TypeOK
<1>2. \A q \in OpenPositions(journal) :
        sent >= 1 /\ q.symbol = symbolOf[sent] /\ q.bar = barOf[sent]
  BY DEF JournalInv
<1>3. sent \in Order /\ sent \in 1 .. sent
  BY <1>2, SentFacts
<1>4. PICK i \in DOMAIN journal[p.symbol] :
        LET e == journal[p.symbol][i]
        IN  e.kind = "open" /\ e.bar = p.bar /\ e.order = p.order /\ e.epoch = p.epoch
  BY OpenPositionEvent
<1> DEFINE e == journal[p.symbol][i]
<1>5. OpenedFor(p.symbol, e) /\ OrderOf(p) = OrderOf(e)
  BY <1>4, OpenPositionEvent DEF JournalInv, OpensAccounted, OrderOf
<1>6. /\ OrderOf(p) \in 1 .. sent /\ symbolOf[OrderOf(p)] = p.symbol
      /\ opened[OrderOf(p)] = p.epoch /\ barOf[OrderOf(p)] <= p.bar
  BY <1>4, <1>5 DEF OpenedFor
<1>7. OrderOf(p) \in Order
  BY <1>6, SentFacts
<1>8. p.epoch \in Instant /\ p.symbol \in Symbol
  BY <1>1 DEF Position
<1> QED
  BY <1>1, <1>2, <1>3, <1>6, <1>7, <1>8 DEF Mirrors, Matches

\* The journals hold one position at most.
LEMMA OnePosition ==
  ASSUME TypeOK, JournalInv,
         NEW p \in OpenPositions(journal), NEW q \in OpenPositions(journal)
  PROVE  p = q
<1>1. \A x : x \in OpenPositions(journal) <=>
        \E s \in Symbol : \E e \in OpenEvents(journal[s]) :
          x = [symbol |-> s, bar |-> e.bar, order |-> e.order, epoch |-> e.epoch]
  BY OpenPositionOf
<1>2. p.symbol = q.symbol /\ p.bar = q.bar
  BY OpenFacts
<1>3. PICK s \in Symbol : \E e \in OpenEvents(journal[s]) :
        p = [symbol |-> s, bar |-> e.bar, order |-> e.order, epoch |-> e.epoch]
  BY <1>1
<1>4. PICK e \in OpenEvents(journal[s]) :
        p = [symbol |-> s, bar |-> e.bar, order |-> e.order, epoch |-> e.epoch]
  BY <1>3
<1>5. PICK t \in Symbol : \E f \in OpenEvents(journal[t]) :
        q = [symbol |-> t, bar |-> f.bar, order |-> f.order, epoch |-> f.epoch]
  BY <1>1
<1>6. PICK f \in OpenEvents(journal[t]) :
        q = [symbol |-> t, bar |-> f.bar, order |-> f.order, epoch |-> f.epoch]
  BY <1>5
<1>7. s = t /\ e.bar = f.bar
  BY <1>2, <1>4, <1>6
<1>8. journal[s] \in Seq(Event)
  BY DEF TypeOK
<1>9. e = f
  BY <1>4, <1>6, <1>7, <1>8, OneOpenEvent
<1> QED
  BY <1>4, <1>6, <1>7, <1>9

\* The closure that is about to be applied is the exit of the order of the
\* position it closes.
LEMMA ClosureFacts ==
  ASSUME TypeOK, JournalInv, DealsInv, pc = "apply",
         NEW p \in OpenPositions(journal), NEW d \in deals
  PROVE  /\ d.order = OrderOf(p) /\ d.exit = closed[d.order] /\ d.exit \in Instant
         /\ opened[d.order] < d.exit
         /\ CloseEvent(p, d.order, d.exit) \in Event
<1> USE ConstantFacts, OpenFacts
<1>1. /\ d.order = OrderOf(p) /\ d.exit \in {None, closed[d.order]}
      /\ d.exit > opened[d.order]
  BY DEF DealsInv, Closing, Confirmed
<1>2. d \in Deal /\ p \in Position /\ opened[d.order] \in Instant
  BY <1>1 DEF TypeOK
<1>3. d.exit \in Instant
  BY <1>1, <1>2 DEF Deal, Instant, None
<1> QED
  BY <1>1, <1>2, <1>3 DEF Deal, Position, CloseEvent, Event

\* The order that was just sent: its symbol is the one selected.
LEMMA DueFacts ==
  ASSUME TypeOK, SessionInv, pc \in {"confirm", "mirror"}, NEW s \in selected
  PROVE  /\ sent \in Order /\ sent \in 1 .. sent
         /\ s = symbolOf[sent] /\ s \in Symbol
         /\ due[s] = barOf[sent] /\ due[s] \in Instant
<1>1. sent >= 1 /\ s = symbolOf[sent] /\ due[s] = barOf[sent]
  BY DEF SessionInv, Unrecorded
<1>2. sent \in Order /\ sent \in 1 .. sent
  BY <1>1, SentFacts
<1>3. s \in Symbol /\ barOf[sent] \in Instant
  BY <1>2 DEF TypeOK
<1> QED
  BY <1>1, <1>2, <1>3

\* The position that is to be mirrored.
LEMMA MirrorFacts ==
  ASSUME TypeOK, SessionInv, ExposureInv, pc = "mirror", NEW s \in selected
  PROVE  /\ confirmed \in 1 .. sent /\ confirmed \in Order
         /\ symbolOf[confirmed] = s /\ opened[confirmed] \in Instant
         /\ OpenEvent(s, confirmed) \in Event
<1> USE ConstantFacts
<1>1. /\ confirmed \in 1 .. sent /\ symbolOf[confirmed] \in selected
      /\ opened[confirmed] # None
  BY DEF ExposureInv
<1>2. symbolOf[confirmed] = s /\ confirmed \in Order
  BY <1>1, SentFacts DEF SessionInv
<1>3. opened[confirmed] \in Instant
  BY <1>1, <1>2 DEF TypeOK
<1>4. s \in Symbol /\ due[s] \in Instant
  BY DueFacts
<1> QED
  BY <1>1, <1>2, <1>3, <1>4 DEF OpenEvent, Event

\* What becomes of the order that is sent.
LEMMA FateTypes == Fates \subseteq {"void", "pending", "open"}
BY DEF Fates

\* Sending an order places it with some fate.
LEMMA SendPlaces ==
  ASSUME SendOrder
  PROVE  /\ pc = "send" /\ sent < MaxOrders /\ UNCHANGED <<market, account, journal>>
         /\ \E s \in selected, fate \in {"void", "pending", "open"} : Place(sent + 1, s, fate)
         /\ \/ Forget
            \/ /\ pc' \in {"confirm", "end"}
               /\ escaped' \in {escaped, escaped \cup {sent + 1}}
               /\ UNCHANGED <<mode, memory, reading, bars, cycle, confirmed>>
<1>1. PICK s \in selected : Done(s) \/ Refused(s) \/ PostSendFailStop(s)
  BY DEF SendOrder
<1>2. CASE Done(s)
  BY <1>2 DEF SendOrder, Done, traded
<1>3. CASE Refused(s)
  BY <1>3, FateTypes DEF SendOrder, Refused
<1>4. CASE PostSendFailStop(s)
  BY <1>4, FateTypes DEF SendOrder, PostSendFailStop
<1> QED
  BY <1>1, <1>2, <1>3, <1>4

\* There is an order to be sent.
LEMMA NextOrder ==
  ASSUME TypeOK, SendOrder
  PROVE  sent + 1 \in 0 .. MaxOrders /\ sent + 1 \in Order
<1>1. sent \in Nat /\ MaxOrders \in Nat
  BY SentFacts
<1>2. sent < MaxOrders
  BY SendPlaces
<1> QED
  BY <1>1, <1>2 DEF Order

\* Every step keeps the types.
LEMMA TypeStep ==
  ASSUME IInv, [Next]_vars
  PROVE  TypeOK'
<1>0. TypeOK
  BY DEF IInv
<1> USE <1>0, ConstantFacts DEF TypeOK
<1> USE DEF market, broker, reading, bars, cycle, traded, session
<1>1. CASE Start
  BY <1>1 DEF Start, StartSession, Startup, Modes
<1>2. CASE Reconciliation
  <2>1. CASE ReadPositions \/ ReadClosurePositions \/ RecheckPositions \/ ReadPostPositions
    BY <2>1 DEF ReadPositions, ReadClosurePositions, RecheckPositions, ReadPostPositions,
      Positions, Open, Startup
  <2>2. CASE ReadOrders \/ ReadClosureOrders \/ RecheckOrders \/ ReadPostOrders
    BY <2>2 DEF ReadOrders, ReadClosureOrders, RecheckOrders, ReadPostOrders,
      Orders, Pending, Startup
  <2>3. CASE RecoverJournals
    BY <2>3 DEF RecoverJournals, Startup, EnableUsable
  <2>4. CASE ReadDeals
    <3>1. deals' \subseteq Deal
      BY <2>4, DealTypes DEF ReadDeals
    <3> QED
      BY <2>4, <3>1 DEF ReadDeals, Startup
  <2>5. CASE ReconcileClosure \/ RecheckLegacyClosure \/ FinishClosure
    BY <2>5 DEF ReconcileClosure, RecheckLegacyClosure, FinishClosure, Startup
  <2>6. CASE ReconcileRestart
    BY <2>6 DEF ReconcileRestart, Mistaken, Open, Startup
  <2>7. CASE ApplyClosure
    <3> PICK p \in OpenPositions(journal), d \in deals :
          journal' = [journal EXCEPT ![p.symbol] = Append(@, CloseEvent(p, d.order, d.exit))]
      BY <2>7 DEF ApplyClosure
    <3>1. p.symbol \in Symbol /\ CloseEvent(p, d.order, d.exit) \in Event
      BY <2>7, OpenFacts, ClosureFacts DEF ApplyClosure, IInv
    <3>2. journal' \in [Symbol -> Seq(Event)]
      BY <3>1, EventAdded
    <3> QED
      BY <2>7, <3>2 DEF ApplyClosure, Startup
  <2>8. CASE Resume
    <3>1. memory' \subseteq Position
      BY <2>8, OpenPositionTypes DEF Resume, TakeOver
    <3> QED
      BY <2>8, <3>1 DEF Resume, Cycle, TakeOver
  <2>9. CASE EndReconciliation
    BY <2>9 DEF EndReconciliation, Forget, NoBar, Instant, Modes
  <2> QED
    BY <1>2, <2>1, <2>2, <2>3, <2>4, <2>5, <2>6, <2>7, <2>8, <2>9 DEF Reconciliation
<1>3. CASE Polling
  <2>1. CASE UpdatePosition
    <3>1. journal' \in [Symbol -> Seq(Event)] /\ escaped' \subseteq Order
      <4>1. CASE UNCHANGED <<journal, escaped>>
        BY <4>1
      <4>2. ASSUME NEW p \in memory, CloseMirror(p)
            PROVE  journal' \in [Symbol -> Seq(Event)] /\ escaped' \subseteq Order
        <5>1. p.symbol \in Symbol /\ CloseEvent(p, NoOrder, now) \in Event
          BY DEF CloseEvent, Event, Position
        <5>2. journal' \in [Symbol -> Seq(Event)]
          BY <4>2, <5>1, EventAdded DEF CloseMirror
        <5> QED
          BY <4>2, <5>2 DEF CloseMirror, Live, Open, Pending
      <4> QED
        BY <2>1, <4>1, <4>2 DEF UpdatePosition
    <3> QED
      BY <2>1, <3>1 DEF UpdatePosition, Cycle
  <2>2. CASE RefreshPortfolio \/ PostOpen \/ FinalWatch
    BY <2>2 DEF RefreshPortfolio, PostOpen, FinalWatch, Cycle
  <2>3. CASE EndSession
    BY <2>3 DEF EndSession, Forget, NoBar, Instant, Modes
  <2>4. CASE CheckHealth
    BY <2>4 DEF CheckHealth, Reconnect, Cycle, Supervised
  <2>5. CASE FindTransitions
    BY <2>5 DEF FindTransitions, Cycle
  <2>6. CASE TakeSnapshots
    <3> PICK passed, failed \in SUBSET {s \in Symbol : due[s] # None} :
          /\ passed \cap failed = {}
          /\ anchor' = [s \in Symbol |-> IF s \in passed THEN due[s] ELSE anchor[s]]
          /\ enabled' = enabled \ failed
          /\ due' = [s \in Symbol |-> IF s \in passed \cup failed THEN None ELSE due[s]]
      BY <2>6 DEF TakeSnapshots
    <3> QED
      BY <2>6 DEF TakeSnapshots, Cycle
  <2>7. CASE BuildCandidates
    BY <2>7 DEF BuildCandidates, Cycle, Analysed
  <2>8. CASE Arbitrate
    BY <2>8 DEF Arbitrate, Eligible, FirstOf, Cycle, MarketGate
  <2>9. CASE FinalPolicy \/ CheckPositions \/ CheckOrder
    BY <2>9 DEF FinalPolicy, CheckPositions, CheckOrder, Again, NoBar, Cycle, Entry
  <2>10. CASE SendOrder
    <3>1. ASSUME NEW s \in selected, NEW fate \in {"void", "pending", "open"},
                 Place(sent + 1, s, fate)
          PROVE  /\ sent' \in 0 .. MaxOrders
                 /\ status' \in [Order -> {"unsent", "void", "pending", "open", "closed"}]
                 /\ symbolOf' \in [Order -> Symbol] /\ barOf' \in [Order -> Instant]
                 /\ opened' \in [Order -> Instant \cup {None}]
                 /\ closed' \in [Order -> Instant \cup {None}]
      <4>1. due[s] \in Instant /\ s \in Symbol
        BY <2>10, SendPlaces DEF IInv, SessionInv, Dealing
      <4>2. sent + 1 \in 0 .. MaxOrders
        BY <2>10, NextOrder
      <4> QED
        BY <3>1, <4>1, <4>2 DEF Place
    <3>2. PICK s \in selected, fate \in {"void", "pending", "open"} : Place(sent + 1, s, fate)
      BY <2>10, SendPlaces
    <3>3. /\ sent' \in 0 .. MaxOrders
          /\ status' \in [Order -> {"unsent", "void", "pending", "open", "closed"}]
          /\ symbolOf' \in [Order -> Symbol] /\ barOf' \in [Order -> Instant]
          /\ opened' \in [Order -> Instant \cup {None}]
          /\ closed' \in [Order -> Instant \cup {None}]
      BY <3>1, <3>2
    <3>4. UNCHANGED <<now, latest, prior, account, journal>> /\ sent + 1 \in Order
      BY <2>10, SendPlaces, NextOrder
    <3>5. CASE Forget
      BY <3>3, <3>4, <3>5 DEF Forget, NoBar, Modes
    <3>6. CASE /\ pc' \in {"confirm", "end"}
               /\ escaped' \in {escaped, escaped \cup {sent + 1}}
               /\ UNCHANGED <<mode, memory, reading, bars, cycle, confirmed>>
      BY <3>3, <3>4, <3>6 DEF Cycle, Entry
    <3> QED
      BY <2>10, <3>5, <3>6, SendPlaces
  <2>11. CASE ConfirmPosition
    BY <2>11 DEF ConfirmPosition, Open, Entry
  <2>12. CASE OpenShadow
    <3> PICK s \in selected :
          /\ journal' = [journal EXCEPT ![s] = Append(@, OpenEvent(s, confirmed))]
          /\ memory' = {PositionOf(s, confirmed)}
      BY <2>12 DEF OpenShadow
    <3>1. /\ s \in Symbol /\ OpenEvent(s, confirmed) \in Event
          /\ due[s] \in Instant /\ confirmed \in Order /\ opened[confirmed] \in Instant
      BY <2>12, MirrorFacts, DueFacts DEF OpenShadow, IInv
    <3>2. journal' \in [Symbol -> Seq(Event)]
      BY <3>1, EventAdded
    <3>3. memory' \subseteq Position
      BY <3>1 DEF Position, PositionOf
    <3> QED
      BY <2>12, <3>2, <3>3 DEF OpenShadow, Entry
  <2>13. CASE EndCycle
    BY <2>13 DEF EndCycle, Again, NoBar, Cycle
  <2> QED
    BY <1>3, <2>1, <2>2, <2>3, <2>4, <2>5, <2>6, <2>7, <2>8, <2>9, <2>10, <2>11, <2>12, <2>13
    DEF Polling
<1>4. CASE Stop
  BY <1>4 DEF Stop, Forget, NoBar, Instant, Modes
<1>5. CASE Environment
  <2>1. CASE Tick
    BY <2>1 DEF Tick, Instant
  <2>2. CASE Disconnect \/ Reattach
    BY <2>2 DEF Disconnect, Reattach
  <2>3. ASSUME NEW s \in Symbol, Quote(s) PROVE TypeOK'
    <3>1. BarAt(now) \in Instant
      BY <2>3 DEF Quote, BarAt, Instant
    <3> QED
      BY <2>3, <3>1 DEF Quote
  <2>4. ASSUME NEW k \in Order, Fill(k) PROVE TypeOK'
    BY <2>4 DEF Fill
  <2>5. ASSUME NEW k \in Order, Cancel(k) PROVE TypeOK'
    BY <2>5 DEF Cancel
  <2>6. ASSUME NEW k \in Order, BrokerClose(k) PROVE TypeOK'
    BY <2>6 DEF BrokerClose
  <2> HIDE DEF TypeOK
  <2> QED
    BY <1>5, <2>1, <2>2, <2>3, <2>4, <2>5, <2>6 DEF Environment
<1>6. CASE UNCHANGED vars
  BY <1>6 DEF vars
<1> QED
  BY <1>1, <1>2, <1>3, <1>4, <1>5, <1>6 DEF Next

-----------------------------------------------------------------------------
\* What changes the broker, and what the journals

LEMMA BrokerFrame ==
  ASSUME [Next]_vars
  PROVE  \/ UNCHANGED broker
         \/ SendOrder
         \/ \E k \in Order : Fill(k) \/ Cancel(k) \/ BrokerClose(k)
<1> USE DEF market, broker
<1>1. CASE Start
  BY <1>1 DEF Start, StartSession
<1>2. CASE Reconciliation
  BY <1>2 DEF Reconciliation, ReadPositions, ReadOrders, RecoverJournals, ReadDeals,
    ReadClosurePositions, ReadClosureOrders, ReconcileClosure, RecheckPositions,
    RecheckOrders, RecheckLegacyClosure, ApplyClosure, ReadPostPositions, ReadPostOrders,
    FinishClosure, ReconcileRestart, Resume, EndReconciliation, Positions, Orders
<1>3. CASE Polling
  BY <1>3 DEF Polling, UpdatePosition, RefreshPortfolio, EndSession, CheckHealth,
    FindTransitions, TakeSnapshots, BuildCandidates, Arbitrate, FinalWatch, FinalPolicy,
    CheckPositions, CheckOrder, ConfirmPosition, OpenShadow, PostOpen, EndCycle
<1>4. CASE Stop
  BY <1>4 DEF Stop
<1>5. CASE Environment
  BY <1>5 DEF Environment, Tick, Quote, Disconnect, Reattach
<1>6. CASE UNCHANGED vars
  BY <1>6 DEF vars
<1> QED
  BY <1>1, <1>2, <1>3, <1>4, <1>5, <1>6 DEF Next

LEMMA JournalFrame ==
  ASSUME [Next]_vars
  PROVE  \/ UNCHANGED journal
         \/ ApplyClosure /\ UNCHANGED broker
         \/ UpdatePosition /\ UNCHANGED broker
         \/ OpenShadow /\ UNCHANGED broker
<1> USE DEF market, broker
<1>1. CASE Start
  BY <1>1 DEF Start, StartSession
<1>2. CASE Reconciliation
  BY <1>2 DEF Reconciliation, ReadPositions, ReadOrders, RecoverJournals, ReadDeals,
    ReadClosurePositions, ReadClosureOrders, ReconcileClosure, RecheckPositions,
    RecheckOrders, RecheckLegacyClosure, ApplyClosure, ReadPostPositions, ReadPostOrders,
    FinishClosure, ReconcileRestart, Resume, EndReconciliation, Positions, Orders
<1>3. CASE Polling
  BY <1>3 DEF Polling, UpdatePosition, RefreshPortfolio, EndSession, CheckHealth,
    FindTransitions, TakeSnapshots, BuildCandidates, Arbitrate, FinalWatch, FinalPolicy,
    CheckPositions, CheckOrder, SendOrder, ConfirmPosition, OpenShadow, PostOpen, EndCycle
<1>4. CASE Stop
  BY <1>4 DEF Stop
<1>5. CASE Environment
  BY <1>5 DEF Environment, Tick, Quote, Disconnect, Reattach, Fill, Cancel, BrokerClose
<1>6. CASE UNCHANGED vars
  BY <1>6 DEF vars
<1> QED
  BY <1>1, <1>2, <1>3, <1>4, <1>5, <1>6 DEF Next

\* An order is sent with nothing open in the journals and nothing at the broker
\* but what the session has lost sight of, for a bar later than any order of
\* its symbol.
LEMMA SendFacts ==
  ASSUME IInv, SendOrder
  PROVE  /\ sent + 1 \in Order /\ sent' = sent + 1 /\ pc = "send" /\ mode = "trade"
         /\ Live \subseteq escaped /\ OpenPositions(journal) = {} /\ memory = {}
         /\ \E s \in selected, fate \in {"void", "pending", "open"} :
              /\ Place(sent + 1, s, fate)
              /\ s \in Symbol /\ due[s] \in Instant
              /\ due[s] <= latest[s]
              /\ \A k \in 1 .. sent : symbolOf[k] = s => barOf[k] < due[s]
         /\ UNCHANGED <<market, journal>>
<1> USE ConstantFacts DEF IInv
<1>1. pc = "send" /\ sent < MaxOrders /\ UNCHANGED <<market, journal>>
  BY SendPlaces
<1>2. memory = {} /\ OpenPositions(journal) = {} /\ mode = "trade"
  BY <1>1 DEF SessionInv, Entry, Dealing
<1>3. Live \subseteq escaped
  BY <1>1, <1>2 DEF ExposureInv, IsMirrored
<1>4. sent + 1 \in Order
  BY <1>1, SentFacts DEF Order
<1>5. PICK s \in selected, fate \in {"void", "pending", "open"} : Place(sent + 1, s, fate)
  BY SendPlaces
<1>6. s \in Symbol /\ due[s] # None /\ due[s] \in Instant
  BY <1>1 DEF SessionInv, Dealing, TypeOK
<1>7. anchor[s] < due[s] /\ due[s] <= latest[s]
  BY <1>6 DEF OrderInv
<1>8. ASSUME NEW k \in 1 .. sent, symbolOf[k] = s PROVE barOf[k] < due[s]
  <2>1. barOf[k] <= anchor[s]
    BY <1>1, <1>2, <1>8 DEF OrderInv, Anchored, Entry, OnDueBar
  <2>2. barOf[k] \in Nat /\ anchor[s] \in Nat /\ due[s] \in Nat
    BY <1>6, SentFacts DEF TypeOK
  <2> QED
    BY <1>7, <2>1, <2>2
<1>9. sent' = sent + 1
  BY <1>5 DEF Place
<1> QED
  BY <1>1, <1>2, <1>3, <1>4, <1>5, <1>6, <1>7, <1>8, <1>9

\* The other orders are not touched.
LEMMA PlaceFacts ==
  ASSUME TypeOK, NEW s \in Symbol, NEW fate, Place(sent + 1, s, fate), sent + 1 \in Order
  PROVE  /\ \A k \in Order : k # sent + 1 =>
              /\ status'[k] = status[k] /\ symbolOf'[k] = symbolOf[k] /\ barOf'[k] = barOf[k]
              /\ opened'[k] = opened[k] /\ closed'[k] = closed[k]
         /\ status'[sent + 1] = fate /\ closed'[sent + 1] = closed[sent + 1]
         /\ symbolOf'[sent + 1] = s /\ barOf'[sent + 1] = due[s]
         /\ opened'[sent + 1] = IF fate = "open" THEN now ELSE None
         /\ sent' = sent + 1 /\ now # None
         /\ \A k : k \in 1 .. sent' <=> k \in 1 .. sent \/ k = sent + 1
         /\ \A k \in 1 .. sent : k \in Order /\ k # sent + 1
<1>1. /\ \A k \in Order : k # sent + 1 =>
           /\ status'[k] = status[k] /\ symbolOf'[k] = symbolOf[k] /\ barOf'[k] = barOf[k]
           /\ opened'[k] = opened[k] /\ closed'[k] = closed[k]
      /\ status'[sent + 1] = fate /\ closed'[sent + 1] = closed[sent + 1]
      /\ symbolOf'[sent + 1] = s /\ barOf'[sent + 1] = due[s]
      /\ opened'[sent + 1] = IF fate = "open" THEN now ELSE None
  BY DEF Place, TypeOK
<1>2. sent' = sent + 1 /\ now # None
  BY ConstantFacts DEF Place, TypeOK
<1>3. \A k : k \in 1 .. sent' <=> k \in 1 .. sent \/ k = sent + 1
  BY <1>2, SentFacts
<1> QED
  BY <1>1, <1>2, <1>3, SentFacts

\* No journal has an event of the bar an order is sent for.
LEMMA BarIsFresh ==
  ASSUME IInv, SendOrder, NEW s \in selected
  PROVE  \A i \in DOMAIN journal[s] : journal[s][i].bar # due[s]
<1>1. /\ s \in Symbol /\ due[s] \in Instant
      /\ \A k \in 1 .. sent : symbolOf[k] = s => barOf[k] < due[s]
  BY SendFacts DEF IInv, SessionInv
<1> SUFFICES ASSUME NEW i \in DOMAIN journal[s] PROVE journal[s][i].bar # due[s]
  OBVIOUS
<1>2. PICK k \in 1 .. sent : symbolOf[k] = s /\ barOf[k] = journal[s][i].bar
  BY <1>1 DEF IInv, JournalInv, Accounted
<1>3. due[s] \in Nat /\ barOf[k] \in Nat /\ barOf[k] < due[s]
  BY <1>1, <1>2, SentFacts, ConstantFacts DEF IInv
<1> QED
  BY <1>2, <1>3

\* The broker's own steps leave less, and no deal undone.
LEMMA BrokerLeaves ==
  ASSUME TypeOK, BrokerInv, NEW k \in Order, Fill(k) \/ Cancel(k) \/ BrokerClose(k)
  PROVE  /\ UNCHANGED <<sent, symbolOf, barOf, journal, pc, mode, memory, reading, bars,
                        cycle, confirmed>>
         /\ UNCHANGED latest
         /\ Live' \subseteq Live
         /\ escaped \subseteq escaped'
         /\ \A n \in Order : opened[n] # None => opened'[n] = opened[n]
         /\ \A n \in Order : closed[n] # None => closed'[n] = closed[n]
<1> USE DEF session, traded, market
<1>1. CASE Fill(k)
  BY <1>1 DEF Fill, TypeOK, BrokerInv, Live, Open, Pending
<1>2. CASE Cancel(k)
  BY <1>2 DEF Cancel, TypeOK, BrokerInv, Live, Open, Pending
<1>3. CASE BrokerClose(k)
  BY <1>3 DEF BrokerClose, TypeOK, BrokerInv, Live, Open, Pending
<1> QED
  BY <1>1, <1>2, <1>3

LEMMA BrokerStep ==
  ASSUME IInv, [Next]_vars
  PROVE  BrokerInv'
<1> USE ConstantFacts DEF IInv
<1>1. CASE UNCHANGED broker
  BY <1>1 DEF BrokerInv, broker
<1>2. CASE SendOrder
  <2> PICK s \in selected, fate \in {"void", "pending", "open"} :
        Place(sent + 1, s, fate) /\ s \in Symbol
    BY <1>2, SendFacts
  <2>1. sent + 1 \in Order
    BY <1>2, SendFacts
  <2>2. status[sent + 1] = "unsent" /\ closed[sent + 1] = None
    BY <2>1, SentFacts DEF BrokerInv
  <2>3. \A k \in Order : k > sent' <=> k > sent /\ k # sent + 1
    <3>1. sent \in Nat /\ sent' = sent + 1 /\ \A k \in Order : k \in Nat
      <4>1. sent' = sent + 1
        BY <2>1, PlaceFacts
      <4>2. sent \in Nat /\ \A k \in Order : k \in Nat
        BY DEF TypeOK, Order
      <4> QED
        BY <4>1, <4>2
    <3> QED
      BY <3>1
  <2>4. \A k \in Order : status'[k] = "unsent" <=> k > sent'
    BY <2>1, <2>2, <2>3, PlaceFacts DEF BrokerInv
  <2>5. \A k \in Order : opened'[k] # None <=> status'[k] \in {"open", "closed"}
    BY <2>1, PlaceFacts DEF BrokerInv
  <2>6. \A k \in Order : closed'[k] # None <=> status'[k] = "closed"
    BY <2>1, <2>2, PlaceFacts DEF BrokerInv
  <2> QED
    BY <2>4, <2>5, <2>6 DEF BrokerInv
<1>3. ASSUME NEW k \in Order, Fill(k) PROVE BrokerInv'
  <2>1. now # None
    BY DEF TypeOK
  <2> QED
    BY <1>3, <2>1 DEF Fill, BrokerInv, TypeOK
<1>4. ASSUME NEW k \in Order, Cancel(k) PROVE BrokerInv'
  BY <1>4 DEF Cancel, BrokerInv, TypeOK
<1>5. ASSUME NEW k \in Order, BrokerClose(k) PROVE BrokerInv'
  <2>1. now # None
    BY DEF TypeOK
  <2> QED
    BY <1>5, <2>1 DEF BrokerClose, BrokerInv, TypeOK
<1> QED
  BY BrokerFrame, <1>1, <1>2, <1>3, <1>4, <1>5

\* Of an order that was sent, nothing is changed afterwards but its end.
LEMMA OrdersKept ==
  ASSUME IInv, [Next]_vars
  PROVE  /\ \A k \in 1 .. sent :
              /\ k \in 1 .. sent' /\ symbolOf'[k] = symbolOf[k] /\ barOf'[k] = barOf[k]
              /\ opened[k] # None => opened'[k] = opened[k]
              /\ closed[k] # None => closed'[k] = closed[k]
         /\ sent' # sent => OpenPositions(journal) = {} /\ UNCHANGED journal
<1>1. CASE UNCHANGED broker
  BY <1>1 DEF broker
<1>2. CASE SendOrder
  <2>1. /\ OpenPositions(journal) = {} /\ UNCHANGED journal /\ sent + 1 \in Order
        /\ \E s \in selected, fate \in {"void", "pending", "open"} :
             Place(sent + 1, s, fate) /\ s \in Symbol
    BY <1>2, SendFacts
  <2> QED
    BY <2>1, PlaceFacts DEF IInv
<1>3. ASSUME NEW k \in Order, Fill(k) \/ Cancel(k) \/ BrokerClose(k)
      PROVE  /\ UNCHANGED <<sent, symbolOf, barOf>>
             /\ \A n \in 1 .. sent : /\ opened[n] # None => opened'[n] = opened[n]
                                     /\ closed[n] # None => closed'[n] = closed[n]
  BY <1>3, BrokerLeaves, SentFacts DEF IInv
<1> QED
  BY BrokerFrame, <1>1, <1>2, <1>3

-----------------------------------------------------------------------------
\* The journals

\* The events of the journals after one was added.
LEMMA AddedEvent ==
  ASSUME TypeOK, NEW s \in Symbol, NEW e \in Event,
         journal' = [journal EXCEPT ![s] = Append(@, e)]
  PROVE  /\ Len(journal[s]) \in Nat /\ DOMAIN journal[s] = 1 .. Len(journal[s])
         /\ journal'[s][Len(journal[s]) + 1] = e
         /\ \A t \in Symbol : \A i :
              i \in DOMAIN journal'[t] <=>
                i \in DOMAIN journal[t] \/ (t = s /\ i = Len(journal[s]) + 1)
         /\ \A t \in Symbol : \A i \in DOMAIN journal[t] : journal'[t][i] = journal[t][i]
         /\ Adds(journal, journal', s, e)
<1>1. journal[s] \in Seq(Event) /\ journal'[s] = Append(journal[s], e)
  BY DEF TypeOK
<1>2. \A t \in Symbol : t # s => journal'[t] = journal[t]
  BY DEF TypeOK
<1>3. /\ DOMAIN journal'[s] = 1 .. Len(journal[s]) + 1
      /\ DOMAIN journal[s] = 1 .. Len(journal[s]) /\ Len(journal[s]) \in Nat
      /\ journal'[s][Len(journal[s]) + 1] = e
      /\ \A i \in 1 .. Len(journal[s]) : journal'[s][i] = journal[s][i]
  BY <1>1, AppendedEntry
<1>4. \A i : i \in 1 .. Len(journal[s]) + 1 <=>
               i \in 1 .. Len(journal[s]) \/ i = Len(journal[s]) + 1
  BY <1>3
<1> QED
  BY <1>1, <1>2, <1>3, <1>4 DEF Adds

LEMMA AccountedAppend ==
  ASSUME TypeOK, Accounted, UNCHANGED broker, NEW s \in Symbol, NEW e \in Event,
         journal' = [journal EXCEPT ![s] = Append(@, e)],
         \E k \in 1 .. sent : symbolOf[k] = s /\ barOf[k] = e.bar
  PROVE  Accounted'
<1>0. ASSUME NEW t \in Symbol, NEW i \in DOMAIN journal'[t]
      PROVE  /\ i \in DOMAIN journal[t] \/ (t = s /\ i = Len(journal[s]) + 1)
             /\ i \in DOMAIN journal[t] => journal'[t][i] = journal[t][i]
             /\ t = s /\ i = Len(journal[s]) + 1 => journal'[t][i] = e
  BY AddedEvent
<1> SUFFICES ASSUME NEW t \in Symbol, NEW i \in DOMAIN journal'[t]
             PROVE  \E k \in 1 .. sent : symbolOf[k] = t /\ barOf[k] = journal'[t][i].bar
  BY DEF Accounted, broker
<1>1. /\ i \in DOMAIN journal[t] \/ (t = s /\ i = Len(journal[s]) + 1)
      /\ i \in DOMAIN journal[t] => journal'[t][i] = journal[t][i]
      /\ t = s /\ i = Len(journal[s]) + 1 => journal'[t][i] = e
  BY <1>0
<1>2. CASE i \in DOMAIN journal[t]
  BY <1>1, <1>2 DEF Accounted
<1>3. CASE t = s /\ i = Len(journal[s]) + 1
  BY <1>1, <1>3
<1> QED
  BY <1>1, <1>2, <1>3

\* The journals stay in order when an event is added that closes, or that opens
\* for an order with no open event, at a bar with no event.
LEMMA JournalAppend ==
  ASSUME TypeOK, JournalInv, UNCHANGED broker, NEW s \in Symbol, NEW e \in Event,
         journal' = [journal EXCEPT ![s] = Append(@, e)],
         symbolOf[sent] = s, barOf[sent] = e.bar, sent >= 1,
         e.kind = "open" =>
           /\ OpenedFor(s, e) /\ ~HasOpen(OrderOf(e))
           /\ \A i \in DOMAIN journal[s] : journal[s][i].bar # e.bar
  PROVE  Accounted' /\ OpensAccounted' /\ OpensDiffer'
<1>1. Accounted'
  <2>1. \E k \in 1 .. sent : symbolOf[k] = s /\ barOf[k] = e.bar
    BY SentFacts
  <2> QED
    BY <2>1, AccountedAppend DEF JournalInv
<1>2. ASSUME NEW t \in Symbol, NEW i \in DOMAIN journal'[t]
      PROVE  /\ i \in DOMAIN journal[t] \/ (t = s /\ i = Len(journal[s]) + 1)
             /\ i \in DOMAIN journal[t] => journal'[t][i] = journal[t][i]
             /\ t = s /\ i = Len(journal[s]) + 1 => journal'[t][i] = e
  BY AddedEvent
<1>3. OpensDiffer'
  <2> SUFFICES ASSUME NEW t \in Symbol,
                      NEW i \in DOMAIN journal'[t], NEW n \in DOMAIN journal'[t],
                      journal'[t][i].kind = "open", journal'[t][n].kind = "open",
                      \/ OrderOf(journal'[t][i]) = OrderOf(journal'[t][n])
                      \/ journal'[t][i].bar = journal'[t][n].bar
               PROVE  i = n
    BY DEF OpensDiffer, OrderOf
  <2>1. CASE i \in DOMAIN journal[t] /\ n \in DOMAIN journal[t]
    <3>1. journal'[t][i] = journal[t][i] /\ journal'[t][n] = journal[t][n]
      BY <1>2, <2>1
    <3> QED
      BY <2>1, <3>1 DEF JournalInv, OpensDiffer
  <2>2. ASSUME NEW m \in DOMAIN journal[t], t = s, e.kind = "open", journal[t][m].kind = "open",
               \/ OrderOf(journal[t][m]) = OrderOf(e)
               \/ journal[t][m].bar = e.bar
        PROVE  FALSE
    BY <2>2 DEF HasOpen
  <2>3. CASE i \in DOMAIN journal[t] /\ t = s /\ n = Len(journal[s]) + 1
    <3>1. journal'[t][i] = journal[t][i] /\ journal'[t][n] = e
      BY <1>2, <2>3
    <3> QED
      BY <2>2, <2>3, <3>1
  <2>4. CASE n \in DOMAIN journal[t] /\ t = s /\ i = Len(journal[s]) + 1
    <3>1. journal'[t][n] = journal[t][n] /\ journal'[t][i] = e
      BY <1>2, <2>4
    <3> QED
      BY <2>2, <2>4, <3>1
  <2> QED
    BY <1>2, <2>1, <2>3, <2>4
<1>4. OpensAccounted'
  <2> SUFFICES ASSUME NEW t \in Symbol, NEW i \in DOMAIN journal'[t],
                      journal'[t][i].kind = "open"
               PROVE  OpenedFor(t, journal'[t][i])
    BY DEF OpensAccounted, OpenedFor, OrderOf, broker
  <2>1. CASE i \in DOMAIN journal[t]
    <3>1. journal'[t][i] = journal[t][i]
      BY <1>2, <2>1
    <3> QED
      BY <2>1, <3>1 DEF JournalInv, OpensAccounted
  <2>2. CASE t = s /\ i = Len(journal[s]) + 1
    BY <1>2, <2>2
  <2> QED
    BY <1>2, <2>1, <2>2
<1> QED
  BY <1>1, <1>3, <1>4

\* Whoever closes the mirror, nothing is open afterwards.
LEMMA MirrorClosed ==
  ASSUME TypeOK, JournalInv, UNCHANGED broker,
         NEW p \in OpenPositions(journal), NEW c \in Event,
         c.kind = "close", c.bar = p.bar,
         journal' = [journal EXCEPT ![p.symbol] = Append(@, c)]
  PROVE  OpenPositions(journal') = {} /\ JournalInv'
<1>1. /\ p.symbol \in Symbol /\ p.symbol = symbolOf[sent] /\ p.bar = barOf[sent]
      /\ sent \in 1 .. sent
      /\ \A q \in OpenPositions(journal) : p.symbol = q.symbol /\ p.bar = q.bar
  BY OpenFacts
<1>2. journal \in [Symbol -> Seq(Event)] /\ \A s \in Symbol : RiskRecoveryValid(journal[s])
  BY DEF TypeOK, JournalInv
<1>3. /\ OpenPositions(journal') = {}
      /\ \A s \in Symbol : RiskRecoveryValid(journal'[s])
  <2>1. Adds(journal, journal', p.symbol, c)
    BY <1>1, AddedEvent
  <2> QED
    BY <1>1, <1>2, <2>1, LastPositionClosed
<1>4. Accounted' /\ OpensAccounted' /\ OpensDiffer'
  <2>1. sent >= 1 /\ symbolOf[sent] = p.symbol /\ barOf[sent] = c.bar
    BY <1>1, SentFacts
  <2> HIDE DEF JournalInv
  <2> QED
    BY <1>1, <2>1, JournalAppend
<1> QED
  BY <1>3, <1>4 DEF JournalInv

\* A closure by deal history closes the mirror with the exit of its order.
LEMMA ClosureStep ==
  ASSUME IInv, ApplyClosure
  PROVE  \E p \in OpenPositions(journal) : \E k \in 1 .. sent :
           /\ k = OrderOf(p)
           /\ journal' = [journal EXCEPT ![p.symbol] = Append(@, CloseEvent(p, k, closed[k]))]
           /\ CloseEvent(p, k, closed[k]) \in Event
           /\ opened[k] < closed[k] /\ closed[k] # None /\ k \notin Live
           /\ OpenPositions(journal') = {} /\ JournalInv'
<1>1. PICK p \in OpenPositions(journal), d \in deals :
        journal' = [journal EXCEPT ![p.symbol] = Append(@, CloseEvent(p, d.order, d.exit))]
  BY DEF ApplyClosure
<1>2. pc = "apply" /\ UNCHANGED broker /\ TypeOK /\ JournalInv /\ DealsInv
  BY DEF ApplyClosure, IInv
<1> DEFINE k == d.order
<1>3. /\ k = OrderOf(p) /\ d.exit = closed[k] /\ opened[k] < closed[k] /\ closed[k] \in Instant
      /\ CloseEvent(p, k, closed[k]) \in Event
  BY <1>2, ClosureFacts
<1>4. k \in 1 .. sent /\ k \in Order
  BY <1>2, <1>3, OpenFacts
<1>5. k \notin Live /\ closed[k] # None
  BY <1>3, <1>4, ConstantFacts DEF IInv, BrokerInv, Live, Open, Pending
<1> HIDE DEF k
<1>6. journal' = [journal EXCEPT ![p.symbol] = Append(@, CloseEvent(p, k, closed[k]))]
  BY <1>1, <1>3 DEF k
<1>7. OpenPositions(journal') = {} /\ JournalInv'
  <2> DEFINE c == CloseEvent(p, k, closed[k])
  <2>1. c.kind = "close" /\ c.bar = p.bar /\ c \in Event
    BY <1>3 DEF CloseEvent
  <2>2. journal' = [journal EXCEPT ![p.symbol] = Append(@, c)]
    BY <1>6
  <2> HIDE DEF c
  <2> QED
    BY <1>2, <2>1, <2>2, MirrorClosed
<1> QED
  BY <1>3, <1>4, <1>5, <1>6, <1>7

\* A tick closes the mirror, and loses its order if that is still live.
LEMMA UpdateStep ==
  ASSUME IInv, UpdatePosition
  PROVE  \/ UNCHANGED <<journal, memory, escaped>>
         \/ \E p \in OpenPositions(journal) : \E k \in 1 .. sent :
              /\ k = OrderOf(p)
              /\ journal' = [journal EXCEPT ![p.symbol] =
                               Append(@, CloseEvent(p, NoOrder, now))]
              /\ CloseEvent(p, NoOrder, now) \in Event
              /\ memory' = {} /\ escaped' = escaped \cup (Live \cap {k})
              /\ OpenPositions(journal') = {} /\ JournalInv'
<1>1. memory = OpenPositions(journal) /\ UNCHANGED broker /\ TypeOK /\ JournalInv
  BY DEF UpdatePosition, IInv, SessionInv, Cycle
<1> SUFFICES ASSUME NEW p \in OpenPositions(journal), CloseMirror(p), memory' = {}
             PROVE  \E k \in 1 .. sent :
                      /\ k = OrderOf(p)
                      /\ journal' = [journal EXCEPT ![p.symbol] =
                                       Append(@, CloseEvent(p, NoOrder, now))]
                      /\ CloseEvent(p, NoOrder, now) \in Event
                      /\ memory' = {} /\ escaped' = escaped \cup (Live \cap {k})
                      /\ OpenPositions(journal') = {} /\ JournalInv'
  BY <1>1 DEF UpdatePosition
<1>2. p \in Position /\ OrderOf(p) \in 1 .. sent /\ Mirrors(p, OrderOf(p))
  BY <1>1, OpenFacts
<1> DEFINE c == CloseEvent(p, NoOrder, now)
<1>3. c \in Event /\ c.kind = "close" /\ c.bar = p.bar
  BY <1>1, <1>2, ConstantFacts DEF CloseEvent, Event, Position, TypeOK
<1>4. journal' = [journal EXCEPT ![p.symbol] = Append(@, c)]
  BY DEF CloseMirror
<1>5. escaped' = escaped \cup (Live \cap {OrderOf(p)})
  BY <1>2 DEF CloseMirror, Mirrors
<1>6. OpenPositions(journal') = {} /\ JournalInv'
  <2> HIDE DEF c
  <2> QED
    BY <1>1, <1>3, <1>4, MirrorClosed
<1> QED
  BY <1>2, <1>3, <1>4, <1>5, <1>6

\* The confirmed position is mirrored while no other is.
LEMMA OpenStep ==
  ASSUME IInv, OpenShadow
  PROVE  \E s \in Symbol :
           LET e == OpenEvent(s, confirmed)
           IN  /\ s = symbolOf[sent] /\ symbolOf[confirmed] = s
               /\ confirmed \in 1 .. sent /\ confirmed \in Order /\ opened[confirmed] # None
               /\ e \in Event /\ e.kind = "open" /\ OrderOf(e) = confirmed
               /\ e.bar = barOf[sent]
               /\ \A i \in DOMAIN journal[s] : journal[s][i].bar # e.bar
               /\ ~HasOpen(confirmed)
               /\ journal' = [journal EXCEPT ![s] = Append(@, e)]
               /\ OpenPositions(journal) = {}
               /\ OpenPositions(journal') = {PositionOf(s, confirmed)}
               /\ OrderOf(PositionOf(s, confirmed)) = confirmed
               /\ memory' = OpenPositions(journal')
               /\ JournalInv'
<1> USE ConstantFacts
<1>0. pc = "mirror" /\ UNCHANGED broker /\ TypeOK /\ JournalInv /\ SessionInv /\ ExposureInv
  BY DEF OpenShadow, IInv
<1>1. PICK s \in selected :
        /\ journal' = [journal EXCEPT ![s] = Append(@, OpenEvent(s, confirmed))]
        /\ memory' = {PositionOf(s, confirmed)}
  BY DEF OpenShadow
<1>2. OpenPositions(journal) = {} /\ ~HasOpen(confirmed) /\ opened[confirmed] # None
  BY <1>0 DEF SessionInv, ExposureInv, Entry
<1>3. /\ sent \in 1 .. sent /\ s = symbolOf[sent] /\ s \in Symbol
      /\ due[s] = barOf[sent] /\ due[s] \in Instant
  BY <1>0, DueFacts
<1>4. /\ confirmed \in 1 .. sent /\ confirmed \in Order /\ symbolOf[confirmed] = s
      /\ OpenEvent(s, confirmed) \in Event
  BY <1>0, MirrorFacts
<1> DEFINE e == OpenEvent(s, confirmed)
           p == PositionOf(s, confirmed)
<1>5. /\ e.kind = "open" /\ e.bar = barOf[sent] /\ e.order = confirmed
      /\ e.epoch = opened[confirmed] /\ OrderOf(e) = confirmed
  BY <1>3, <1>4 DEF OpenEvent, OrderOf
<1>6. /\ p = [symbol |-> s, bar |-> e.bar, order |-> e.order, epoch |-> e.epoch]
      /\ OrderOf(p) = confirmed
  BY <1>3, <1>4, <1>5 DEF PositionOf, OrderOf
<1>7. \A i \in DOMAIN journal[s] : journal[s][i].bar # e.bar
  BY <1>0, <1>3, <1>5 DEF SessionInv, Unrecorded
<1>8. OpenedFor(s, e)
  <2>1. barOf[confirmed] <= barOf[sent]
    <3>1. /\ confirmed \in Nat /\ sent \in Nat /\ confirmed <= sent
          /\ barOf[confirmed] \in Nat /\ barOf[sent] \in Nat
      BY <1>0, <1>3, <1>4, SentFacts
    <3>2. confirmed < sent => barOf[confirmed] < barOf[sent]
      BY <1>3, <1>4 DEF IInv, OrderInv
    <3> QED
      BY <3>1, <3>2
  <2> QED
    BY <1>4, <1>5, <2>1 DEF OpenedFor
<1> HIDE DEF e, p
<1>9. journal' = [journal EXCEPT ![s] = Append(@, e)] /\ e \in Event /\ memory' = {p}
  BY <1>1, <1>4 DEF e, p
<1>10. Accounted' /\ OpensAccounted' /\ OpensDiffer'
  <2>1. symbolOf[sent] = s /\ barOf[sent] = e.bar /\ sent >= 1 /\ ~HasOpen(OrderOf(e))
    BY <1>0, <1>2, <1>3, <1>5, SentFacts
  <2> QED
    BY <1>0, <1>3, <1>7, <1>8, <1>9, <2>1, JournalAppend
<1>11. /\ \A q : q \in OpenPositions(journal') <=> q = p
       /\ \A t \in Symbol : RiskRecoveryValid(journal'[t])
  <2>1. journal \in [Symbol -> Seq(Event)] /\ \A t \in Symbol : RiskRecoveryValid(journal[t])
    BY <1>0 DEF TypeOK, JournalInv
  <2>2. Adds(journal, journal', s, e)
    BY <1>0, <1>3, <1>9, AddedEvent
  <2>3. \A q : q \notin OpenPositions(journal)
    BY <1>2
  <2>4. /\ \A q : q \in OpenPositions(journal') <=>
                   q = [symbol |-> s, bar |-> e.bar, order |-> e.order, epoch |-> e.epoch]
        /\ \A t \in Symbol : RiskRecoveryValid(journal'[t])
    <3>1. e \in Event /\ e.kind = "open" /\ s \in Symbol
      BY <1>3, <1>5, <1>9
    <3> QED
      BY <2>1, <2>2, <2>3, <3>1, FirstPositionOpened
  <2> QED
    BY <1>6, <2>4
<1>12. p.symbol = symbolOf[sent] /\ p.bar = barOf[sent]
  BY <1>3, <1>5, <1>6
<1>13. JournalInv'
  <2>1. \A q \in OpenPositions(journal') :
          sent' >= 1 /\ q.symbol = symbolOf'[sent'] /\ q.bar = barOf'[sent']
    BY <1>0, <1>3, <1>11, <1>12, SentFacts DEF broker
  <2> QED
    BY <1>10, <1>11, <2>1 DEF JournalInv
<1>14. OpenPositions(journal') = {p}
  BY <1>11
<1>15. /\ s = symbolOf[sent] /\ symbolOf[confirmed] = s
       /\ confirmed \in 1 .. sent /\ confirmed \in Order /\ opened[confirmed] # None
       /\ e \in Event /\ e.kind = "open" /\ OrderOf(e) = confirmed /\ e.bar = barOf[sent]
       /\ \A i \in DOMAIN journal[s] : journal[s][i].bar # e.bar
       /\ ~HasOpen(confirmed) /\ journal' = [journal EXCEPT ![s] = Append(@, e)]
       /\ OpenPositions(journal) = {} /\ OpenPositions(journal') = {p}
       /\ OrderOf(p) = confirmed /\ memory' = OpenPositions(journal') /\ JournalInv'
  BY <1>2, <1>3, <1>4, <1>5, <1>6, <1>7, <1>9, <1>13, <1>14
<1> HIDE DEF OrderOf
<1> QED
  BY <1>3, <1>15 DEF e, p

LEMMA JournalStep ==
  ASSUME IInv, [Next]_vars
  PROVE  JournalInv'
<1>0. TypeOK /\ JournalInv
  BY DEF IInv
<1>1. CASE UNCHANGED journal
  <2>1. \A p \in OpenPositions(journal') :
          sent' >= 1 /\ p.symbol = symbolOf'[sent'] /\ p.bar = barOf'[sent']
    <3> SUFFICES ASSUME NEW p \in OpenPositions(journal)
                 PROVE  sent' >= 1 /\ p.symbol = symbolOf'[sent'] /\ p.bar = barOf'[sent']
      BY <1>1
    <3>1. sent \in 1 .. sent /\ p.symbol = symbolOf[sent] /\ p.bar = barOf[sent]
      BY <1>0, OpenFacts
    <3>2. sent' = sent /\ symbolOf'[sent] = symbolOf[sent] /\ barOf'[sent] = barOf[sent]
      BY <3>1, OrdersKept
    <3> QED
      BY <1>0, <3>1, <3>2, SentFacts
  <2>2. \A s \in Symbol : RiskRecoveryValid(journal'[s])
    BY <1>0, <1>1 DEF JournalInv
  <2>3. Accounted'
    BY <1>0, <1>1, OrdersKept DEF JournalInv, Accounted
  <2>4. OpensAccounted'
    <3> SUFFICES ASSUME NEW s \in Symbol, NEW i \in DOMAIN journal[s],
                        journal[s][i].kind = "open"
                 PROVE  LET e == journal[s][i]
                            k == OrderOf(e)
                        IN  /\ k \in 1 .. sent' /\ symbolOf'[k] = s
                            /\ opened'[k] = e.epoch /\ barOf'[k] <= e.bar
      BY <1>1 DEF OpensAccounted, OpenedFor, OrderOf
    <3> DEFINE e == journal[s][i]
               k == OrderOf(e)
    <3>1. /\ k \in 1 .. sent /\ symbolOf[k] = s
          /\ opened[k] = e.epoch /\ barOf[k] <= e.bar
      BY <1>0 DEF JournalInv, OpensAccounted, OpenedFor
    <3>2. opened[k] # None
      <4>1. e \in Event
        BY <1>0 DEF TypeOK
      <4> QED
        BY <3>1, <4>1, ConstantFacts DEF Event
    <3> HIDE DEF k
    <3>3. /\ k \in 1 .. sent' /\ symbolOf'[k] = symbolOf[k] /\ barOf'[k] = barOf[k]
          /\ opened'[k] = opened[k]
      BY <3>1, <3>2, OrdersKept
    <3> QED
      BY <3>1, <3>3 DEF k
  <2>5. OpensDiffer'
    BY <1>0, <1>1 DEF JournalInv, OpensDiffer, OrderOf
  <2> QED
    BY <2>1, <2>2, <2>3, <2>4, <2>5 DEF JournalInv
<1>2. CASE ApplyClosure
  BY <1>2, ClosureStep
<1>3. CASE UpdatePosition
  BY <1>1, <1>3, UpdateStep
<1>4. CASE OpenShadow
  BY <1>4, OpenStep
<1> QED
  BY JournalFrame, <1>1, <1>2, <1>3, <1>4

-----------------------------------------------------------------------------
\* The order of the bars

\* The steps after an order, until its bar has been looked at.
Placed == {"confirm", "mirror", "opened", "end"}

LEMMA OrderFrame ==
  ASSUME [Next]_vars
  PROVE  \/ /\ UNCHANGED <<latest, anchor, due, sent, symbolOf, barOf>>
            /\ pc' \in Anchored /\ mode' = "trade" => pc \in Anchored /\ mode = "trade"
            /\ pc \in Placed /\ pc' \in Anchored => pc' \in Placed
            /\ pc' \in {"down"} \cup Startup => pc \in {"down"} \cup Startup
         \/ Forget /\ UNCHANGED <<latest, sent, symbolOf, barOf>>
         \/ \E s \in Symbol : Quote(s)
         \/ SendOrder \/ RecoverJournals \/ FindTransitions \/ TakeSnapshots
         \/ FinalPolicy \/ EndCycle
<1> USE DEF market, broker, bars, cycle, session, Anchored, Placed, Startup, Cycle, Entry
<1>1. CASE Start
  BY <1>1 DEF Start, StartSession
<1>2. CASE Reconciliation
  <2>1. CASE ReadPositions \/ ReadOrders \/ ReadClosurePositions \/ ReadClosureOrders
    BY <2>1 DEF ReadPositions, ReadOrders, ReadClosurePositions, ReadClosureOrders,
      Positions, Orders
  <2>2. CASE \/ RecheckPositions \/ RecheckOrders \/ ReadPostPositions \/ ReadPostOrders
    BY <2>2 DEF RecheckPositions, RecheckOrders, ReadPostPositions, ReadPostOrders,
      Positions, Orders
  <2>3. CASE ReadDeals \/ ReconcileClosure \/ RecheckLegacyClosure \/ ApplyClosure
    BY <2>3 DEF ReadDeals, ReconcileClosure, RecheckLegacyClosure, ApplyClosure
  <2>4. CASE FinishClosure \/ ReconcileRestart \/ Resume \/ EndReconciliation
    BY <2>4 DEF FinishClosure, ReconcileRestart, Resume, EndReconciliation, TakeOver
  <2> QED
    BY <1>2, <2>1, <2>2, <2>3, <2>4 DEF Reconciliation
<1>3. CASE Polling
  <2>1. CASE UpdatePosition \/ RefreshPortfolio \/ EndSession \/ CheckHealth
    BY <2>1 DEF UpdatePosition, RefreshPortfolio, EndSession, CheckHealth, Supervised
  <2>2. CASE BuildCandidates \/ Arbitrate \/ FinalWatch \/ CheckPositions \/ CheckOrder
    BY <2>2 DEF BuildCandidates, Arbitrate, FinalWatch, CheckPositions, CheckOrder
  <2>3. CASE ConfirmPosition \/ OpenShadow \/ PostOpen
    BY <2>3 DEF ConfirmPosition, OpenShadow, PostOpen
  <2> QED
    BY <1>3, <2>1, <2>2, <2>3 DEF Polling
<1>4. CASE Stop
  BY <1>4 DEF Stop
<1>5. CASE Environment
  BY <1>5 DEF Environment, Tick, Quote, Disconnect, Reattach, Fill, Cancel, BrokerClose
<1>6. CASE UNCHANGED vars
  BY <1>6 DEF vars
<1> QED
  BY <1>1, <1>2, <1>3, <1>4, <1>5, <1>6 DEF Next

\* Bars are traded in their order, whatever is done.
LEMMA OrderStep ==
  ASSUME IInv, [Next]_vars
  PROVE  OrderInv'
<1> USE ConstantFacts
<1>0. TypeOK /\ OrderInv /\ SessionInv /\ TypeOK'
  BY TypeStep DEF IInv
<1>1. /\ sent \in Nat /\ \A k \in 1 .. sent : k \in Order
      /\ \A k \in Order : symbolOf[k] \in Symbol /\ barOf[k] \in Nat /\ barOf[k] # None
      /\ \A s \in Symbol : latest[s] \in Nat /\ anchor[s] \in Nat
      /\ \A s \in Symbol : due[s] # None => due[s] \in Nat
  <2>1. sent \in Nat /\ sent <= MaxOrders /\ MaxOrders \in Nat
    BY <1>0 DEF TypeOK
  <2>2. \A k \in 1 .. sent : k \in Order
    BY <2>1 DEF Order
  <2>3. \A k \in Order : symbolOf[k] \in Symbol /\ barOf[k] \in Nat /\ barOf[k] # None
    BY <1>0 DEF TypeOK
  <2>4. /\ \A s \in Symbol : latest[s] \in Nat /\ anchor[s] \in Nat
        /\ \A s \in Symbol : due[s] # None => due[s] \in Nat
    BY <1>0 DEF TypeOK
  <2> QED
    BY <2>1, <2>2, <2>3, <2>4
<1>2. CASE /\ UNCHANGED <<latest, anchor, due, sent, symbolOf, barOf>>
           /\ pc' \in Anchored /\ mode' = "trade" => pc \in Anchored /\ mode = "trade"
           /\ pc \in Placed /\ pc' \in Anchored => pc' \in Placed
           /\ pc' \in {"down"} \cup Startup => pc \in {"down"} \cup Startup
  BY <1>0, <1>2 DEF OrderInv, OnDueBar, Placed, NoBar
<1>3. CASE Forget /\ UNCHANGED <<latest, sent, symbolOf, barOf>>
  BY <1>0, <1>3 DEF Forget, OrderInv, NoBar, Anchored, Startup, Cycle, Entry
<1>4. ASSUME NEW s \in Symbol, Quote(s) PROVE OrderInv'
  <2>1. UNCHANGED <<anchor, due, sent, symbolOf, barOf, pc, mode>>
    BY <1>4 DEF Quote, broker, session, bars, cycle
  <2>2. \A t \in Symbol : latest[t] <= latest'[t] /\ latest'[t] \in Nat
    <3>1. BarAt(now) > latest[s] /\ latest' = [latest EXCEPT ![s] = BarAt(now)]
      BY <1>4 DEF Quote
    <3>2. \A t \in Symbol : latest'[t] \in Nat
      BY <1>0 DEF TypeOK
    <3>3. latest'[s] = BarAt(now) /\ \A t \in Symbol : t # s => latest'[t] = latest[t]
      BY <1>0, <3>1 DEF TypeOK
    <3>4. latest[s] <= latest'[s]
      BY <1>1, <3>1, <3>2, <3>3
    <3> QED
      BY <1>1, <3>2, <3>3, <3>4
  <2>3. \A k \in 1 .. sent : barOf[k] <= latest'[symbolOf[k]]
    BY <1>0, <1>1, <2>2 DEF OrderInv
  <2>4. \A t \in Symbol : due[t] # None => anchor[t] < due[t] /\ due[t] <= latest'[t]
    BY <1>0, <1>1, <2>2 DEF OrderInv
  <2> QED
    BY <1>0, <2>1, <2>3, <2>4 DEF OrderInv, OnDueBar, NoBar
<1>5. CASE SendOrder
  <2>1. sent' = sent + 1 /\ sent + 1 \in Order /\ UNCHANGED latest
    BY <1>5, SendFacts DEF market
  <2>2. PICK s \in selected, fate \in {"void", "pending", "open"} :
          /\ Place(sent + 1, s, fate)
          /\ s \in Symbol /\ due[s] \in Instant /\ due[s] <= latest[s]
          /\ \A k \in 1 .. sent : symbolOf[k] = s => barOf[k] < due[s]
    BY <1>5, SendFacts
  <2>3. \A k \in 1 .. sent : k # sent + 1 /\ symbolOf'[k] = symbolOf[k] /\ barOf'[k] = barOf[k]
    BY <1>0, <1>1, <2>2 DEF Place, TypeOK
  <2>4. symbolOf'[sent + 1] = s /\ barOf'[sent + 1] = due[s]
    BY <1>0, <2>1, <2>2 DEF Place, TypeOK
  <2>5. \A k \in 1 .. sent' : k \in 1 .. sent \/ k = sent + 1
    BY <1>1, <2>1
  <2>6. pc = "send" /\ mode = "trade"
    BY <1>5, SendFacts
  <2>7. ASSUME NEW k \in 1 .. sent', NEW n \in 1 .. sent', k < n, symbolOf'[k] = symbolOf'[n]
        PROVE  barOf'[k] < barOf'[n]
    <3>1. k \in 1 .. sent
      BY <1>1, <2>1, <2>7
    <3> QED
      BY <1>0, <2>2, <2>3, <2>4, <2>5, <2>7, <3>1 DEF OrderInv
  <2>8. \A k \in 1 .. sent' : barOf'[k] <= latest'[symbolOf'[k]]
    BY <1>0, <2>1, <2>2, <2>3, <2>4, <2>5 DEF OrderInv
  <2>9. \A k \in 1 .. sent : barOf[k] <= anchor[symbolOf[k]]
    BY <1>0, <2>6 DEF OrderInv, OnDueBar, Anchored, Entry
  <2>10. CASE Forget
    BY <2>7, <2>8, <2>10 DEF Forget, OrderInv, NoBar, Anchored, Startup, Cycle, Entry
  <2>11. CASE pc' \in {"confirm", "end"} /\ UNCHANGED <<bars, cycle>>
    <3>1. UNCHANGED <<anchor, due>>
      BY <2>11 DEF bars, cycle
    <3>2. ASSUME NEW k \in 1 .. sent' PROVE barOf'[k] <= anchor'[symbolOf'[k]] \/ OnDueBar(k)'
      <4>1. CASE k = sent + 1
        BY <2>1, <2>4, <2>11, <3>1, <4>1 DEF OnDueBar
      <4>2. CASE k \in 1 .. sent
        BY <2>3, <2>9, <3>1, <4>2
      <4> QED
        BY <2>5, <4>1, <4>2
    <3>3. \A k \in 1 .. sent' : barOf'[k] <= anchor'[symbolOf'[k]] \/ OnDueBar(k)'
      BY <3>2
    <3>4. pc' \notin {"down"} \cup Startup
      BY <2>11 DEF Startup
    <3> QED
      BY <1>0, <2>1, <2>7, <2>8, <3>1, <3>3, <3>4 DEF OrderInv
  <2> QED
    BY <1>5, <2>10, <2>11, SendPlaces
<1>6. CASE RecoverJournals
  <2>1. /\ UNCHANGED <<latest, sent, symbolOf, barOf, due, mode>>
        /\ mode = "trade" => anchor' = latest
        /\ pc = "journals"
    BY <1>6 DEF RecoverJournals, market, broker, cycle
  <2>2. due' = NoBar
    BY <1>0, <2>1 DEF OrderInv, Startup
  <2>3. \A t \in Symbol : due'[t] = None
    BY <2>2 DEF NoBar
  <2>4. mode' = "trade" => \A k \in 1 .. sent' : barOf'[k] <= anchor'[symbolOf'[k]]
    BY <1>0, <2>1 DEF OrderInv
  <2>5. /\ \A k, n \in 1 .. sent' :
             k < n /\ symbolOf'[k] = symbolOf'[n] => barOf'[k] < barOf'[n]
        /\ \A k \in 1 .. sent' : barOf'[k] <= latest'[symbolOf'[k]]
    BY <1>0, <2>1 DEF OrderInv
  <2> QED
    BY <2>2, <2>3, <2>4, <2>5 DEF OrderInv, NoBar
<1>7. CASE FindTransitions
  <2>1. /\ UNCHANGED <<latest, anchor, sent, symbolOf, barOf, mode>>
        /\ pc = "transitions" /\ pc' \in {"update", "snapshots"}
        /\ \A s \in Symbol : due'[s] # None => anchor[s] < due'[s] /\ due'[s] = latest[s]
    BY <1>1, <1>7 DEF FindTransitions, market, broker, bars
  <2>2. mode = "trade" => \A k \in 1 .. sent : barOf[k] <= anchor[symbolOf[k]]
    BY <1>0, <2>1 DEF OrderInv, OnDueBar, Anchored, Cycle
  <2>3. \A s \in Symbol : due'[s] # None => anchor'[s] < due'[s] /\ due'[s] <= latest'[s]
    BY <1>1, <2>1
  <2>4. /\ \A k, n \in 1 .. sent' :
             k < n /\ symbolOf'[k] = symbolOf'[n] => barOf'[k] < barOf'[n]
        /\ \A k \in 1 .. sent' : barOf'[k] <= latest'[symbolOf'[k]]
        /\ mode' = "trade" => \A k \in 1 .. sent' : barOf'[k] <= anchor'[symbolOf'[k]]
    BY <1>0, <2>1, <2>2 DEF OrderInv
  <2>5. pc' \notin {"down"} \cup Startup
    BY <2>1 DEF Startup
  <2> QED
    BY <2>3, <2>4, <2>5 DEF OrderInv
<1>8. CASE TakeSnapshots
  <2> PICK passed, failed \in SUBSET {s \in Symbol : due[s] # None} :
        /\ anchor' = [s \in Symbol |-> IF s \in passed THEN due[s] ELSE anchor[s]]
        /\ due' = [s \in Symbol |-> IF s \in passed \cup failed THEN None ELSE due[s]]
    BY <1>8 DEF TakeSnapshots
  <2>1. /\ UNCHANGED <<latest, sent, symbolOf, barOf, mode>>
        /\ pc = "snapshots" /\ pc' = "candidates"
    BY <1>8 DEF TakeSnapshots, market, broker
  <2>2. mode = "trade" => \A k \in 1 .. sent : barOf[k] <= anchor[symbolOf[k]]
    BY <1>0, <2>1 DEF OrderInv, OnDueBar, Anchored, Cycle
  <2>3. \A s \in Symbol : anchor[s] <= anchor'[s] /\ anchor'[s] \in Nat
    BY <1>0, <1>1 DEF OrderInv
  <2>4. mode = "trade" => \A k \in 1 .. sent : barOf[k] <= anchor'[symbolOf[k]]
    BY <1>1, <2>2, <2>3
  <2>5. \A s \in Symbol : due'[s] # None => anchor'[s] < due'[s] /\ due'[s] <= latest[s]
    BY <1>0 DEF OrderInv
  <2> QED
    BY <1>0, <2>1, <2>4, <2>5 DEF OrderInv, Startup
<1>9. CASE FinalPolicy
  <2>1. /\ UNCHANGED <<latest, anchor, sent, symbolOf, barOf, mode>>
        /\ pc = "policy" /\ pc' \in {"update", "end", "check"}
        /\ due' \in {due, NoBar}
    BY <1>9 DEF FinalPolicy, Again, market, broker, bars, cycle
  <2>2. mode = "trade" => \A k \in 1 .. sent : barOf[k] <= anchor[symbolOf[k]]
    BY <1>0, <2>1 DEF OrderInv, OnDueBar, Anchored, Cycle
  <2>3. \A s \in Symbol : due'[s] # None => due'[s] = due[s]
    BY <2>1 DEF NoBar
  <2> QED
    BY <1>0, <2>1, <2>2, <2>3 DEF OrderInv, Startup
<1>10. CASE EndCycle
  <2>1. /\ UNCHANGED <<latest, sent, symbolOf, barOf, mode>>
        /\ pc = "end" /\ pc' = "update" /\ due' = NoBar
        /\ anchor' = [s \in Symbol |-> IF due[s] # None /\ anchor[s] < due[s]
                                       THEN due[s] ELSE anchor[s]]
    BY <1>10 DEF EndCycle, Again, market, broker
  <2>2. \A s \in Symbol : /\ anchor[s] <= anchor'[s] /\ anchor'[s] \in Nat
                          /\ due[s] # None => anchor'[s] = due[s]
    BY <1>0, <1>1, <2>1 DEF OrderInv
  <2>3. ASSUME NEW s \in Symbol, NEW b \in Nat, b <= anchor[s] \/ b = due[s]
        PROVE  b <= anchor'[s]
    <3>1. anchor[s] \in Nat /\ anchor'[s] \in Nat /\ anchor[s] <= anchor'[s]
      BY <1>1, <2>2
    <3>2. b = due[s] => b = anchor'[s]
      BY <2>2 DEF None
    <3> QED
      BY <2>3, <3>1, <3>2
  <2>4. ASSUME mode = "trade", NEW k \in 1 .. sent PROVE barOf[k] <= anchor'[symbolOf[k]]
    <3>1. symbolOf[k] \in Symbol /\ barOf[k] \in Nat /\ barOf[k] # None
      BY <1>1
    <3>2. barOf[k] <= anchor[symbolOf[k]] \/ barOf[k] = due[symbolOf[k]]
      BY <1>0, <2>1, <2>4 DEF OrderInv, OnDueBar, Anchored, Cycle
    <3> QED
      BY <2>3, <3>1, <3>2
  <2> QED
    BY <1>0, <2>1, <2>4 DEF OrderInv, NoBar, Startup
<1> QED
  BY OrderFrame, <1>2, <1>3, <1>4, <1>5, <1>6, <1>7, <1>8, <1>9, <1>10

-----------------------------------------------------------------------------
\* The session

\* A session that does nothing while the broker and the market move on.
LEMMA SessionWaits ==
  ASSUME SessionInv,
         UNCHANGED <<pc, mode, memory, cycle, journal, sent, symbolOf, barOf>>
  PROVE  SessionInv'
BY DEF SessionInv, Unrecorded, cycle

\* Nothing is dealt with while a session starts.
LEMMA SessionStarts ==
  ASSUME SessionInv, pc \in {"down"} \cup Startup, pc' \in Startup, UNCHANGED cycle
  PROVE  SessionInv'
BY DEF SessionInv, Startup, Cycle, Entry, Dealing, cycle

LEMMA SessionForgets ==
  ASSUME Forget
  PROVE  SessionInv'
BY DEF Forget, SessionInv, Cycle, Entry, Dealing

\* The first eligible symbol is one symbol.
LEMMA FirstIsUnique ==
  ASSUME NEW C \in SUBSET Symbol, NEW s \in FirstOf(C), NEW t \in FirstOf(C)
  PROVE  s = t
<1>1. s \in Symbol /\ t \in Symbol /\ Priority[s] <= Priority[t] /\ Priority[t] <= Priority[s]
  BY DEF FirstOf
<1>2. Priority[s] \in Nat /\ Priority[t] \in Nat
  BY <1>1, SessionAssumption
<1> QED
  BY <1>1, <1>2, SessionAssumption

LEMMA SessionReconciles ==
  ASSUME IInv, Reconciliation
  PROVE  SessionInv'
<1> USE DEF market, broker, bars, session
<1>0. SessionInv
  BY DEF IInv
<1>1. CASE \/ ReadPositions \/ ReadOrders \/ ReadClosurePositions \/ ReadClosureOrders
           \/ RecheckPositions \/ RecheckOrders \/ ReadPostPositions \/ ReadPostOrders
  <2>1. pc \in Startup /\ pc' \in Startup /\ UNCHANGED cycle
    BY <1>1 DEF ReadPositions, ReadOrders, ReadClosurePositions, ReadClosureOrders,
      RecheckPositions, RecheckOrders, ReadPostPositions, ReadPostOrders,
      Positions, Orders, Startup
  <2> QED
    BY <1>0, <2>1, SessionStarts
<1>2. CASE \/ RecoverJournals \/ ReadDeals \/ ReconcileClosure \/ RecheckLegacyClosure
           \/ ApplyClosure \/ FinishClosure \/ ReconcileRestart
  <2>1. pc \in Startup /\ pc' \in Startup /\ UNCHANGED cycle
    BY <1>2 DEF RecoverJournals, ReadDeals, ReconcileClosure, RecheckLegacyClosure,
      ApplyClosure, FinishClosure, ReconcileRestart, Startup
  <2> QED
    BY <1>0, <2>1, SessionStarts
<1>3. CASE Resume
  <2>1. /\ pc = "resume" /\ pc' = "update" /\ mode' = "trade"
        /\ memory' = OpenPositions(journal) /\ UNCHANGED <<broker, journal, cycle>>
    BY <1>3 DEF Resume, TakeOver
  <2> QED
    BY <1>0, <2>1 DEF SessionInv, Cycle, Entry, Dealing, cycle
<1>4. CASE EndReconciliation
  BY <1>4, SessionForgets DEF EndReconciliation
<1> QED
  BY <1>1, <1>2, <1>3, <1>4 DEF Reconciliation

LEMMA SessionPolls ==
  ASSUME IInv, Polling
  PROVE  SessionInv'
<1> USE ConstantFacts DEF Cycle, Entry, Dealing
<1>0. SessionInv /\ TypeOK
  BY DEF IInv
<1>1. CASE UpdatePosition
  <2>1. /\ pc = "update" /\ pc' = "refresh" /\ mode = "trade"
        /\ UNCHANGED <<mode, cycle>>
    BY <1>0, <1>1 DEF UpdatePosition, SessionInv
  <2>2. memory' = OpenPositions(journal')
    <3>1. CASE UNCHANGED <<journal, memory, escaped>>
      BY <1>0, <2>1, <3>1 DEF SessionInv
    <3>2. CASE ~UNCHANGED <<journal, memory, escaped>>
      BY <1>1, <3>2, UpdateStep
    <3> QED
      BY <3>1, <3>2
  <2> QED
    BY <1>0, <2>1, <2>2 DEF SessionInv, cycle
<1>2. CASE RefreshPortfolio \/ CheckHealth
  <2>1. /\ pc \in {"refresh", "health"} /\ pc' \in {"update", "health", "transitions"}
        /\ UNCHANGED <<journal, mode, memory, cycle>>
    BY <1>2 DEF RefreshPortfolio, CheckHealth, Supervised
  <2> QED
    BY <1>0, <2>1 DEF SessionInv, cycle
<1>3. CASE EndSession
  BY <1>3, SessionForgets DEF EndSession
<1>4. CASE FindTransitions \/ TakeSnapshots
  <2>1. /\ pc \in {"transitions", "snapshots"} /\ pc' \in {"update", "snapshots", "candidates"}
        /\ UNCHANGED <<journal, mode, memory, candidates, selected>>
    BY <1>4 DEF FindTransitions, TakeSnapshots
  <2> QED
    BY <1>0, <2>1 DEF SessionInv
<1>5. CASE BuildCandidates
  <2>1. /\ pc = "candidates" /\ pc' = "arbitrate"
        /\ \A s \in candidates' : due[s] # None
        /\ UNCHANGED <<journal, mode, memory, due, selected>>
    BY <1>5 DEF BuildCandidates, Analysed
  <2> QED
    BY <1>0, <2>1 DEF SessionInv
<1>6. CASE Arbitrate
  <2>1. /\ pc = "arbitrate" /\ candidates' = {} /\ mode = "trade"
        /\ memory = OpenPositions(journal)
        /\ UNCHANGED <<journal, mode, memory, due>>
    BY <1>0, <1>6 DEF Arbitrate, SessionInv
  <2> PICK allowed \in SUBSET Eligible(candidates) :
        selected' = IF memory = {} THEN FirstOf(allowed) ELSE {}
    BY <1>6 DEF Arbitrate, MarketGate
  <2>2. allowed \subseteq candidates /\ allowed \in SUBSET Symbol
    BY <1>0 DEF Eligible, TypeOK
  <2>3. selected' \subseteq candidates /\ \A s, t \in selected' : s = t
    BY <2>2, FirstIsUnique DEF FirstOf
  <2>4. \A s \in selected' : due[s] # None
    BY <1>0, <2>1, <2>3 DEF SessionInv
  <2>5. /\ pc' \in {"watch", "end"} /\ (selected' # {} => memory = {})
        /\ pc' = "watch" => selected' # {}
    BY <1>6 DEF Arbitrate
  <2> QED
    BY <2>1, <2>3, <2>4, <2>5 DEF SessionInv
<1>7. CASE FinalWatch \/ CheckPositions \/ CheckOrder
  <2>1. /\ pc \in {"watch", "check", "check orders"}
        /\ pc' \in {"policy", "check orders", "send", "end"}
        /\ UNCHANGED <<journal, mode, memory, due, candidates, selected>>
    BY <1>7 DEF FinalWatch, CheckPositions, CheckOrder, cycle
  <2> QED
    BY <1>0, <2>1 DEF SessionInv
<1>8. CASE FinalPolicy
  <2>1. /\ pc = "policy" /\ pc' \in {"update", "check", "end"}
        /\ UNCHANGED <<journal, mode, memory>>
        /\ \/ UNCHANGED cycle /\ pc' # "update"
           \/ candidates' = {} /\ selected' = {} /\ pc' = "update"
    BY <1>8 DEF FinalPolicy, Again
  <2> QED
    BY <1>0, <2>1 DEF SessionInv, cycle
<1>9. CASE ConfirmPosition
  <2>1. /\ pc = "confirm" /\ pc' = "mirror"
        /\ UNCHANGED <<broker, journal, mode, memory, due, candidates, selected>>
    BY <1>9 DEF ConfirmPosition, cycle
  <2>2. Unrecorded'
    BY <1>0, <2>1 DEF SessionInv, Unrecorded, broker
  <2> QED
    BY <1>0, <2>1, <2>2 DEF SessionInv
<1>10. CASE OpenShadow
  <2>1. /\ pc = "mirror" /\ pc' = "opened"
        /\ UNCHANGED <<mode, candidates, selected>>
    BY <1>10 DEF OpenShadow, cycle
  <2>2. memory' = OpenPositions(journal')
    BY <1>10, OpenStep
  <2> QED
    BY <1>0, <2>1, <2>2 DEF SessionInv
<1>11. CASE PostOpen
  <2>1. /\ pc = "opened" /\ pc' = "end"
        /\ UNCHANGED <<journal, mode, memory, candidates, selected>>
    BY <1>11 DEF PostOpen, cycle
  <2> QED
    BY <1>0, <2>1 DEF SessionInv
<1>12. CASE EndCycle
  <2>1. /\ pc = "end" /\ pc' = "update" /\ candidates' = {} /\ selected' = {}
        /\ UNCHANGED <<journal, mode, memory>>
    BY <1>12 DEF EndCycle, Again
  <2> QED
    BY <1>0, <2>1 DEF SessionInv
<1>13. CASE SendOrder
  <2>1. CASE Forget
    BY <2>1, SessionForgets
  <2>2. CASE /\ pc' \in {"confirm", "end"}
             /\ UNCHANGED <<mode, memory, reading, bars, cycle, confirmed>>
    <3> PICK s \in selected, fate \in {"void", "pending", "open"} :
          Place(sent + 1, s, fate) /\ s \in Symbol
      BY <1>13, SendFacts
    <3>1. /\ sent + 1 \in Order /\ memory = {} /\ OpenPositions(journal) = {}
          /\ UNCHANGED journal /\ pc = "send" /\ mode = "trade"
      BY <1>13, SendFacts
    <3>2. sent' = sent + 1 /\ symbolOf'[sent + 1] = s /\ barOf'[sent + 1] = due[s]
      BY <1>0, <3>1, PlaceFacts
    <3>3. sent + 1 >= 1
      BY <1>0, SentFacts
    <3>4. \A i \in DOMAIN journal[s] : journal[s][i].bar # due[s]
      BY <1>13, BarIsFresh
    <3>5. UNCHANGED <<mode, memory, due, candidates, selected>>
      BY <2>2 DEF cycle
    <3>6. Unrecorded'
      BY <3>1, <3>2, <3>3, <3>4, <3>5 DEF Unrecorded
    <3> QED
      BY <1>0, <2>2, <3>1, <3>5, <3>6 DEF SessionInv
  <2> QED
    BY <1>13, <2>1, <2>2, SendPlaces
<1> QED
  BY <1>1, <1>2, <1>3, <1>4, <1>5, <1>6, <1>7, <1>8, <1>9, <1>10, <1>11, <1>12, <1>13
  DEF Polling

LEMMA SessionStep ==
  ASSUME IInv, [Next]_vars
  PROVE  SessionInv'
<1>1. CASE Start
  <2>1. pc = "down" /\ pc' = "positions" /\ UNCHANGED cycle
    BY <1>1 DEF Start, StartSession
  <2> QED
    BY <2>1, SessionStarts DEF IInv, Startup
<1>2. CASE Stop
  BY <1>2, SessionForgets DEF Stop
<1>3. CASE \/ UNCHANGED vars \/ Tick \/ Disconnect \/ Reattach \/ \E s \in Symbol : Quote(s)
  <2>1. UNCHANGED <<pc, mode, memory, cycle, journal, sent, symbolOf, barOf>>
    BY <1>3 DEF vars, broker, session, Tick, Disconnect, Reattach, Quote
  <2> QED
    BY <2>1, SessionWaits DEF IInv
<1>4. ASSUME NEW k \in Order, Fill(k) \/ Cancel(k) \/ BrokerClose(k) PROVE SessionInv'
  BY <1>4, BrokerLeaves, SessionWaits DEF IInv
<1> QED
  BY <1>1, <1>2, <1>3, <1>4, SessionReconciles, SessionPolls DEF Next, Environment

-----------------------------------------------------------------------------
\* What is known of the live orders

\* The steps at which the session answers for what is live, and those at which
\* it has asked for the selected symbol.
Answering == Cycle \cup {"send", "opened", "resume"}
Asked == {"check orders", "send", "confirm"}

\* The steps with a say in what is known of the live orders.
Deciding ==
  \/ Forget
  \/ SendOrder \/ FinishClosure \/ ReconcileRestart \/ ApplyClosure
  \/ UpdatePosition \/ CheckPositions \/ ConfirmPosition \/ OpenShadow
  \/ \E k \in Order : Fill(k) \/ Cancel(k) \/ BrokerClose(k)

\* All other steps go on only from where as much was known.
LEMMA KnownFrame ==
  ASSUME [Next]_vars
  PROVE  \/ Deciding
         \/ /\ UNCHANGED <<broker, journal, escaped>>
            /\ pc' \in Answering => pc \in Answering
            /\ pc' \in Asked => pc \in Asked /\ UNCHANGED selected
            /\ pc' = "mirror" => pc = "mirror" /\ UNCHANGED <<selected, confirmed>>
            /\ pc' = "confirm" => pc = "confirm"
<1> USE DEF broker, cycle, traded, session, Answering, Asked, Cycle, Deciding
<1>1. CASE Start
  BY <1>1 DEF Start, StartSession
<1>2. CASE Reconciliation
  <2>1. CASE ReadPositions \/ ReadOrders \/ ReadClosurePositions \/ ReadClosureOrders
    BY <2>1 DEF ReadPositions, ReadOrders, ReadClosurePositions, ReadClosureOrders,
      Positions, Orders
  <2>2. CASE \/ RecheckPositions \/ RecheckOrders \/ ReadPostPositions \/ ReadPostOrders
    BY <2>2 DEF RecheckPositions, RecheckOrders, ReadPostPositions, ReadPostOrders,
      Positions, Orders
  <2>3. CASE RecoverJournals \/ ReadDeals \/ ReconcileClosure \/ RecheckLegacyClosure
    BY <2>3 DEF RecoverJournals, ReadDeals, ReconcileClosure, RecheckLegacyClosure
  <2>4. CASE Resume \/ EndReconciliation
    BY <2>4 DEF Resume, EndReconciliation
  <2> QED
    BY <1>2, <2>1, <2>2, <2>3, <2>4 DEF Reconciliation
<1>3. CASE Polling
  <2>1. CASE RefreshPortfolio \/ EndSession \/ CheckHealth
    BY <2>1 DEF RefreshPortfolio, EndSession, CheckHealth, Supervised
  <2>2. CASE FindTransitions \/ TakeSnapshots \/ BuildCandidates \/ Arbitrate
    BY <2>2 DEF FindTransitions, TakeSnapshots, BuildCandidates, Arbitrate
  <2>3. CASE FinalWatch \/ FinalPolicy \/ CheckOrder \/ PostOpen \/ EndCycle
    BY <2>3 DEF FinalWatch, FinalPolicy, CheckOrder, PostOpen, EndCycle, Again
  <2> QED
    BY <1>3, <2>1, <2>2, <2>3 DEF Polling
<1>4. CASE Stop
  BY <1>4 DEF Stop
<1>5. CASE Environment
  BY <1>5 DEF Environment, Tick, Quote, Disconnect, Reattach
<1>6. CASE UNCHANGED vars
  BY <1>6 DEF vars
<1> QED
  BY <1>1, <1>2, <1>3, <1>4, <1>5, <1>6 DEF Next

LEMMA SameLive == UNCHANGED broker => Live' = Live /\ Open' = Open /\ Pending' = Pending
BY DEF broker, Live, Open, Pending

\* A gate that finds both sides in agreement finds every live order but those
\* it loses sight of.
LEMMA RestartFacts ==
  ASSUME IInv, ReconcileRestart
  PROVE  \A k \in Live \ escaped' : IsMirrored(k)
<1> USE DEF IInv
<1>1. /\ Live \subseteq seenPositions \cup escaped
      /\ Cardinality(seenPositions) = Cardinality(OpenPositions(journal))
      /\ escaped' = escaped \cup Mistaken
  BY DEF ReconcileRestart, StartupInv, BothSidesAgree
<1> SUFFICES ASSUME NEW k \in Live \ escaped' PROVE IsMirrored(k)
  OBVIOUS
<1>2. k \in seenPositions /\ k \notin Mistaken
  BY <1>1
<1>3. k \in Open
  BY <1>2 DEF StartupInv, BrokerInv, Live, Open, Pending
<1>4. \A p \in OpenPositions(journal) : Mirrors(p, k)
  BY <1>2, <1>3 DEF Mistaken
<1>5. OpenPositions(journal) # {}
  <2> SUFFICES ASSUME OpenPositions(journal) = {} PROVE FALSE
    OBVIOUS
  <2>1. IsFiniteSet(seenPositions)
    <3>1. IsFiniteSet(Order)
      BY ConstantFacts, FS_Interval DEF Order
    <3> QED
      BY <3>1, FS_Subset DEF TypeOK
  <2>2. Cardinality(seenPositions) = 0
    BY <1>1, FS_EmptySet
  <2> QED
    BY <1>2, <2>1, <2>2, FS_EmptySet
<1> QED
  BY <1>4, <1>5 DEF IsMirrored, Mirrors

\* A closed mirror is accounted for by its order being lost.
LEMMA UpdateKnows ==
  ASSUME IInv, UpdatePosition
  PROVE  \A k \in Live' \ escaped' : IsMirrored(k)'
<1>1. Live' = Live /\ \A k \in Live \ escaped : IsMirrored(k)
  BY SameLive DEF UpdatePosition, IInv, ExposureInv, Cycle
<1>2. CASE UNCHANGED <<journal, memory, escaped>>
  BY <1>1, <1>2 DEF IsMirrored
<1>3. CASE \E p \in OpenPositions(journal) : escaped' = escaped \cup (Live \cap {OrderOf(p)})
  <2>1. PICK p \in OpenPositions(journal) : escaped' = escaped \cup (Live \cap {OrderOf(p)})
    BY <1>3
  <2>2. \A q \in OpenPositions(journal) : q = p
    BY OnePosition DEF IInv
  <2> QED
    BY <1>1, <2>1, <2>2 DEF IsMirrored
<1> QED
  BY <1>2, <1>3, UpdateStep

\* Nothing is mirrored twice: an order that may be filled has no open event.
LEMMA PendingUnrecorded ==
  ASSUME IInv, NEW k \in Pending
  PROVE  ~HasOpen(k)
<1> SUFFICES ASSUME NEW s \in Symbol, NEW i \in DOMAIN journal[s],
                    journal[s][i].kind = "open", OrderOf(journal[s][i]) = k
             PROVE  FALSE
  BY DEF HasOpen
<1>1. opened[k] = journal[s][i].epoch /\ journal[s][i] \in Event
  BY DEF IInv, JournalInv, OpensAccounted, OpenedFor, TypeOK
<1>2. opened[k] = None
  BY DEF IInv, BrokerInv, Pending
<1> QED
  BY <1>1, <1>2, ConstantFacts DEF Event

\* An order that was not sent has no event at all.
LEMMA UnsentUnrecorded ==
  ASSUME IInv
  PROVE  ~HasOpen(sent + 1)
<1> SUFFICES ASSUME NEW s \in Symbol, NEW i \in DOMAIN journal[s],
                    journal[s][i].kind = "open", OrderOf(journal[s][i]) = sent + 1
             PROVE  FALSE
  BY DEF HasOpen
<1>1. sent + 1 \in 1 .. sent
  BY DEF IInv, JournalInv, OpensAccounted, OpenedFor
<1> QED
  BY <1>1, SentFacts DEF IInv

LEMMA KnownStep ==
  ASSUME IInv, [Next]_vars
  PROVE  ExposureInv'
<1> USE DEF Answering, Asked
<1>0. TypeOK /\ BrokerInv /\ ExposureInv /\ SessionInv
  BY DEF IInv
<1>1. CASE /\ UNCHANGED <<broker, journal, escaped>>
           /\ pc' \in Answering => pc \in Answering
           /\ pc' \in Asked => pc \in Asked /\ UNCHANGED selected
           /\ pc' = "mirror" => pc = "mirror" /\ UNCHANGED <<selected, confirmed>>
           /\ pc' = "confirm" => pc = "confirm"
  <2>1. /\ UNCHANGED <<sent, symbolOf, opened>> /\ Live' = Live
        /\ \A k : (IsMirrored(k)' <=> IsMirrored(k)) /\ (HasOpen(k)' <=> HasOpen(k))
    BY <1>1, SameLive DEF broker, IsMirrored, HasOpen, OrderOf
  <2>2. pc' \in Answering => \A k \in Live' \ escaped' : IsMirrored(k)'
    BY <1>0, <1>1, <2>1 DEF ExposureInv
  <2>3. pc' \in Asked => \A k \in Live' : symbolOf'[k] \in selected' => ~HasOpen(k)'
    BY <1>0, <1>1, <2>1 DEF ExposureInv
  <2>4. pc' = "confirm" => Live' \ escaped' \subseteq {sent'} /\ opened'[sent'] # None
    BY <1>0, <1>1, <2>1 DEF ExposureInv
  <2>5. pc' = "mirror" =>
          /\ Live' \ escaped' \subseteq {confirmed'}
          /\ confirmed' \in 1 .. sent' /\ symbolOf'[confirmed'] \in selected'
          /\ opened'[confirmed'] # None /\ ~HasOpen(confirmed)'
    BY <1>0, <1>1, <2>1 DEF ExposureInv, HasOpen
  <2> QED
    BY <2>2, <2>3, <2>4, <2>5 DEF ExposureInv
<1>2. CASE Forget
  BY <1>2 DEF Forget, ExposureInv, Cycle
<1>3. CASE SendOrder /\ ~Forget
  <2> PICK s \in selected, fate \in {"void", "pending", "open"} :
        Place(sent + 1, s, fate) /\ s \in Symbol
    BY <1>3, SendFacts
  <2>1. sent + 1 \in Order /\ Live \subseteq escaped /\ UNCHANGED journal /\ pc = "send"
    BY <1>3, SendFacts
  <2>2. \A k \in Order : k # sent + 1 =>
          status'[k] = status[k] /\ symbolOf'[k] = symbolOf[k]
    BY <1>0, <2>1, PlaceFacts
  <2>3. /\ status'[sent + 1] = fate /\ sent' = sent + 1
        /\ opened'[sent + 1] = IF fate = "open" THEN now ELSE None
        /\ now # None
    BY <1>0, <2>1, PlaceFacts
  <2>4. Live' \subseteq Live \cup {sent + 1} /\ (fate = "void" => Live' \subseteq Live)
    BY <2>1, <2>2, <2>3 DEF Live, Open, Pending
  <2>5. ASSUME NEW t \in selected, Done(t) PROVE ExposureInv'
    <3>1. fate = "open" /\ pc' = "confirm" /\ UNCHANGED <<selected, escaped>>
      <4>1. Place(sent + 1, t, "open") /\ pc' = "confirm" /\ UNCHANGED <<selected, escaped>>
        BY <2>5 DEF Done, cycle, traded
      <4>2. status'[sent + 1] = "open"
        BY <1>0, <2>1, <4>1, PlaceFacts DEF TypeOK
      <4> QED
        BY <2>3, <4>1, <4>2
    <3>2. Live' \ escaped' \subseteq {sent'} /\ opened'[sent'] # None
      BY <2>1, <2>3, <2>4, <3>1
    <3>3. \A k \in Live' : symbolOf'[k] \in selected' => ~HasOpen(k)
      <4>1. \A k \in Live : symbolOf[k] \in selected => ~HasOpen(k)
        BY <1>0, <2>1 DEF ExposureInv
      <4>2. \A k \in Live : k \in Order /\ status[k] # "unsent"
        BY DEF Live, Open, Pending
      <4> QED
        BY <2>2, <2>4, <3>1, <4>1, <4>2, UnsentUnrecorded
    <3>4. \A k : HasOpen(k)' <=> HasOpen(k)
      BY <2>1 DEF HasOpen, OrderOf
    <3> QED
      BY <3>1, <3>2, <3>3, <3>4 DEF ExposureInv, Cycle
  <2>6. ASSUME NEW t \in selected, Refused(t) PROVE ExposureInv'
    <3>1. PICK f \in Fates : /\ Place(sent + 1, t, f)
                             /\ escaped' = escaped \cup IF f = "void" THEN {} ELSE {sent + 1}
      BY <2>6 DEF Refused
    <3>2. status'[sent + 1] = f
      BY <1>0, <2>1, <3>1, PlaceFacts DEF TypeOK
    <3>3. Live' \subseteq escaped'
      BY <2>1, <2>3, <2>4, <3>1, <3>2
    <3>4. pc' = "end"
      BY <2>6 DEF Refused
    <3> QED
      BY <3>3, <3>4 DEF ExposureInv
  <2>7. \E t \in selected : Done(t) \/ Refused(t)
    BY <1>3 DEF SendOrder, PostSendFailStop
  <2> QED
    BY <2>5, <2>6, <2>7
<1>4. CASE FinishClosure
  <2>1. pc' = "resume" /\ UNCHANGED <<broker, journal, escaped>> /\ Live \subseteq escaped
    BY <1>4 DEF FinishClosure, traded, Flat, IInv, StartupInv
  <2> QED
    BY <2>1, SameLive DEF ExposureInv
<1>5. CASE ReconcileRestart
  <2>1. pc' = "resume" /\ UNCHANGED <<broker, journal>>
    BY <1>5 DEF ReconcileRestart
  <2>2. \A k \in Live' \ escaped' : IsMirrored(k)'
    BY <1>5, <2>1, RestartFacts, SameLive DEF IsMirrored
  <2> QED
    BY <2>1, <2>2 DEF ExposureInv
<1>6. CASE ApplyClosure
  <2>1. pc' = "post positions"
    BY <1>6 DEF ApplyClosure
  <2> QED
    BY <2>1 DEF ExposureInv, Cycle
<1>7. CASE UpdatePosition
  <2>1. pc' = "refresh"
    BY <1>7 DEF UpdatePosition
  <2> QED
    BY <1>7, <2>1, UpdateKnows DEF ExposureInv
<1>8. CASE CheckPositions
  <2>1. /\ pc = "check" /\ UNCHANGED <<broker, journal, escaped, selected>>
        /\ \/ pc' = "end"
           \/ pc' = "check orders" /\ \A k \in Open : symbolOf[k] \notin selected
    BY <1>8 DEF CheckPositions, DuplicateIn, cycle, traded
  <2>2. \A k \in Live' \ escaped' : IsMirrored(k)'
    BY <1>0, <2>1, SameLive DEF ExposureInv, Cycle, IsMirrored
  <2>3. pc' = "check orders" => \A k \in Live : symbolOf[k] \in selected => ~HasOpen(k)
    BY <2>1, PendingUnrecorded DEF Live
  <2>4. \A k : HasOpen(k)' <=> HasOpen(k)
    BY <2>1 DEF HasOpen, OrderOf
  <2> QED
    BY <2>1, <2>2, <2>3, <2>4, SameLive DEF ExposureInv, broker
<1>9. CASE ConfirmPosition
  <2>1. pc = "confirm" /\ pc' = "mirror" /\ UNCHANGED <<broker, journal, escaped, selected>>
    BY <1>9 DEF ConfirmPosition, cycle
  <2> PICK s \in selected, k \in Open : {k} \in Matching(s) /\ confirmed' = k
    BY <1>9 DEF ConfirmPosition
  <2>2. sent \in Order /\ sent >= 1 /\ symbolOf[sent] = s
    BY <1>0, <2>1, SentFacts DEF SessionInv, Unrecorded
  <2>3. /\ sent \in Open => k = sent
        /\ k = sent \/ symbolOf[k] = s
    BY DEF Matching
  <2>4. /\ Live \ escaped \subseteq {sent} /\ opened[sent] # None
        /\ \A n \in Live : symbolOf[n] \in selected => ~HasOpen(n)
    BY <1>0, <2>1 DEF ExposureInv
  <2>5. sent \notin Open => sent \notin Live
    BY <1>0, <2>2, <2>4 DEF BrokerInv, Live, Open, Pending
  <2>6. Live \ escaped \subseteq {k}
    BY <2>3, <2>4, <2>5
  <2>7. symbolOf[k] \in selected /\ k \in Live /\ k \in Order
    BY <2>2, <2>3 DEF Live, Open
  <2>8. opened[k] # None /\ k \in 1 .. sent
    <3>1. opened[k] # None /\ ~(k > sent)
      BY <1>0, <2>7 DEF BrokerInv, Open
    <3>2. k \in Nat /\ k >= 1 /\ sent \in Nat
      BY <1>0, <2>7, SentFacts DEF Order
    <3> QED
      BY <3>1, <3>2
  <2>9. ~HasOpen(k)
    BY <2>4, <2>7
  <2>10. ~HasOpen(confirmed)'
    BY <2>1, <2>9 DEF HasOpen, OrderOf
  <2> QED
    BY <2>1, <2>6, <2>7, <2>8, <2>10, SameLive DEF ExposureInv, Cycle, broker
<1>10. CASE OpenShadow
  <2>1. /\ pc = "mirror" /\ pc' = "opened" /\ UNCHANGED broker
        /\ escaped' = escaped \ {confirmed}
    BY <1>10 DEF OpenShadow
  <2>2. Live' \ escaped' \subseteq {confirmed}
    BY <1>0, <2>1, SameLive DEF ExposureInv
  <2>3. IsMirrored(confirmed)'
    <3>1. UNCHANGED confirmed
      BY <1>10 DEF OpenShadow
    <3>2. \E p \in OpenPositions(journal') : OrderOf(p) = confirmed
      BY <1>10, OpenStep
    <3> QED
      BY <3>1, <3>2 DEF IsMirrored
  <2>4. UNCHANGED confirmed
    BY <1>10 DEF OpenShadow
  <2>5. \A k \in Live' \ escaped' : IsMirrored(k)'
    BY <2>2, <2>3, <2>4 DEF IsMirrored
  <2> QED
    BY <2>1, <2>5 DEF ExposureInv
<1>11. ASSUME NEW k \in Order, Fill(k) \/ Cancel(k) \/ BrokerClose(k) PROVE ExposureInv'
  <2>1. /\ UNCHANGED <<sent, symbolOf, journal, pc, cycle, confirmed>>
        /\ Live' \subseteq Live /\ escaped \subseteq escaped'
        /\ \A n \in Order : opened[n] # None => opened'[n] = opened[n]
    BY <1>0, <1>11, BrokerLeaves
  <2>2. \A n : (IsMirrored(n)' <=> IsMirrored(n)) /\ (HasOpen(n)' <=> HasOpen(n))
    BY <2>1 DEF IsMirrored, HasOpen, OrderOf
  <2>3. pc = "confirm" => opened'[sent] # None
    <3>1. pc = "confirm" => sent \in Order /\ opened[sent] # None
      BY <1>0, SentFacts DEF ExposureInv, SessionInv, Unrecorded
    <3> QED
      BY <2>1, <3>1
  <2>4. pc = "mirror" => opened'[confirmed] # None
    <3>1. pc = "mirror" => confirmed \in Order /\ opened[confirmed] # None
      BY <1>0, SentFacts DEF ExposureInv
    <3> QED
      BY <2>1, <3>1
  <2>5. ~HasOpen(confirmed) => ~HasOpen(confirmed)'
    BY <2>1 DEF HasOpen, OrderOf
  <2> QED
    BY <1>0, <2>1, <2>2, <2>3, <2>4, <2>5 DEF ExposureInv, cycle
<1> QED
  BY KnownFrame, <1>1, <1>2, <1>3, <1>4, <1>5, <1>6, <1>7, <1>8, <1>9, <1>10, <1>11 DEF Deciding

-----------------------------------------------------------------------------
\* The readings of a startup

\* The deals that are read are those of the order of the open position.
LEMMA HistoryFacts ==
  ASSUME IInv, ReadDeals
  PROVE  /\ OpenPositions(journal) # {}
         /\ \A d, e \in deals' : d = e
         /\ \A d \in deals' : \A p \in OpenPositions(journal) :
              d.order = OrderOf(p) /\ d.exit = closed[d.order]
<1>0. TypeOK /\ JournalInv
  BY DEF IInv
<1> PICK p \in OpenPositions(journal) :
      deals' = IF p.order # NoOrder THEN HistoryOf(p.order) ELSE LegacyHistory(p)
  BY DEF ReadDeals
<1>1. /\ p \in Position /\ OrderOf(p) \in Order /\ Mirrors(p, OrderOf(p))
      /\ opened[OrderOf(p)] \in Instant
  BY <1>0, OpenFacts
<1>2. deals' \subseteq HistoryOf(OrderOf(p))
  <2>1. CASE p.order # NoOrder
    BY <2>1 DEF OrderOf
  <2>2. CASE p.order = NoOrder
    <3> DEFINE Entries == {k \in Order : /\ symbolOf[k] = p.symbol
                                         /\ opened[k] # None
                                         /\ opened[k] - p.epoch \in 0 .. LegacyDelay}
    <3>0. OrderOf(p) = 1
      BY <2>2 DEF OrderOf
    <3>1. 1 \in Entries
      <4>1. opened[1] # None /\ opened[1] \in Nat /\ LegacyDelay \in Nat /\ 1 \in Order
        BY <1>1, <3>0, ConstantFacts
      <4>2. opened[1] = p.epoch /\ symbolOf[1] = p.symbol
        BY <1>1, <3>0 DEF Mirrors, Matches
      <4>3. opened[1] - p.epoch \in 0 .. LegacyDelay
        BY <4>1, <4>2
      <4> QED
        BY <4>1, <4>2, <4>3
    <3>2. deals' = IF Cardinality(Entries) = 1
                   THEN UNION {HistoryOf(k) : k \in Entries} ELSE {}
      BY <2>2 DEF LegacyHistory
    <3>3. IsFiniteSet(Entries)
      <4>1. IsFiniteSet(Order)
        BY ConstantFacts, FS_Interval DEF Order
      <4>2. Entries \subseteq Order
        OBVIOUS
      <4> HIDE DEF Entries
      <4> QED
        BY <4>1, <4>2, FS_Subset
    <3> HIDE DEF Entries
    <3>4. CASE Cardinality(Entries) = 1
      <4>1. PICK k : Entries = {k}
        BY <3>3, <3>4, FS_Singleton
      <4>2. Entries = {1}
        BY <3>1, <4>1
      <4> QED
        BY <3>0, <3>2, <3>4, <4>2
    <3>5. CASE Cardinality(Entries) # 1
      BY <3>2, <3>5
    <3> QED
      BY <3>4, <3>5
  <2> QED
    BY <2>1, <2>2
<1>3. \A d \in HistoryOf(OrderOf(p)) :
        d \in Deal /\ d.order = OrderOf(p) /\ d.exit = closed[OrderOf(p)]
  BY DEF HistoryOf
<1>4. \A d, e \in deals' : d = e
  BY <1>2, <1>3 DEF Deal
<1>5. \A q \in OpenPositions(journal) : q = p
  BY <1>0, OnePosition
<1> QED
  BY <1>2, <1>3, <1>4, <1>5

\* The deal that is found is one of a position that was closed after it was
\* opened.
LEMMA ConfirmedFacts ==
  ASSUME IInv, ReconcileClosure
  PROVE  \A d \in deals : d.exit > opened[d.order]
<1>1. pc = "closure" /\ TypeOK /\ JournalInv /\ DealsInv
  BY DEF ReconcileClosure, IInv
<1>2. PICK p \in OpenPositions(journal), d \in deals :
        ConfirmsClosure(p, d) \/ ConfirmsLegacyClosure(p, d)
  BY DEF ReconcileClosure
<1>3. d.exit > opened[d.order]
  BY <1>2 DEF ConfirmsClosure, ConfirmsLegacyClosure
<1>4. \A e \in deals : e = d
  BY <1>1 DEF DealsInv, Closing
<1> QED
  BY <1>3, <1>4

\* Where the readings are taken, and where they are kept.
LEMMA ReadingFrame ==
  ASSUME [Next]_vars
  PROVE  \/ ReadDeals \/ ReconcileClosure \/ SendOrder
         \/ \E from, to \in Startup :
              /\ Positions(from, to) /\ escaped' = escaped /\ UNCHANGED journal
              /\ to \notin {"journals", "restart", "post"}
              /\ to \in Closing => from \in Closing
              /\ to \in Confirmed => from \in Confirmed
         \/ \E from, to \in Startup :
              /\ Orders(from, to) /\ escaped' = escaped /\ UNCHANGED journal
              /\ to \notin {"orders", "post orders"}
              /\ to \in {"journals", "restart", "post"} => from \in {"orders", "post orders"}
              /\ to \in Closing => from \in Closing
              /\ to \in Confirmed => from \in Confirmed
         \/ \E k \in Order : Fill(k) \/ Cancel(k) \/ BrokerClose(k)
         \/ /\ UNCHANGED broker
            /\ seenPositions' \in {{}, seenPositions}
            /\ pc' \in {"orders", "post orders"} =>
                 pc = pc' /\ UNCHANGED <<seenPositions, escaped>>
            /\ pc' \in {"journals", "restart", "post"} =>
                 /\ pc \in {"journals", "restart", "post"}
                 /\ UNCHANGED <<seenPositions, seenOrders, escaped>>
            /\ pc' \in Closing => pc \in Closing /\ UNCHANGED <<journal, deals>>
            /\ pc' \in Confirmed => pc \in Confirmed
<1> USE DEF broker, reading, traded, session, Closing, Confirmed, Startup
<1>1. CASE Start
  BY <1>1 DEF Start, StartSession
<1>2. CASE Reconciliation
  <2>1. CASE ReadPositions
    <3>1. "positions" \in Startup /\ "orders" \in Startup
      OBVIOUS
    <3>2. Positions("positions", "orders") /\ escaped' = escaped /\ UNCHANGED journal
      BY <2>1 DEF ReadPositions, Positions
    <3> QED
      BY <3>1, <3>2
  <2>2. CASE ReadClosurePositions \/ RecheckPositions \/ ReadPostPositions
    <3>1. ASSUME NEW from \in Startup, NEW to \in Startup, Positions(from, to)
          PROVE  escaped' = escaped /\ UNCHANGED journal
      BY <3>1 DEF Positions
    <3> QED
      BY <2>2, <3>1 DEF ReadClosurePositions, RecheckPositions, ReadPostPositions
  <2>3. CASE ReadOrders \/ ReadClosureOrders \/ RecheckOrders \/ ReadPostOrders
    <3>1. ASSUME NEW from \in Startup, NEW to \in Startup, Orders(from, to)
          PROVE  escaped' = escaped /\ UNCHANGED journal
      BY <3>1 DEF Orders
    <3> QED
      BY <2>3, <3>1 DEF ReadOrders, ReadClosureOrders, RecheckOrders, ReadPostOrders
  <2>4. CASE RecoverJournals
    BY <2>4 DEF RecoverJournals
  <2>5. CASE RecheckLegacyClosure \/ ApplyClosure
    BY <2>5 DEF RecheckLegacyClosure, ApplyClosure
  <2>6. CASE FinishClosure \/ ReconcileRestart \/ Resume \/ EndReconciliation
    BY <2>6 DEF FinishClosure, ReconcileRestart, Resume, EndReconciliation, TakeOver, Forget
  <2> QED
    BY <1>2, <2>1, <2>2, <2>3, <2>4, <2>5, <2>6 DEF Reconciliation
<1>3. CASE Polling
  <2>1. CASE UpdatePosition \/ RefreshPortfolio \/ EndSession \/ CheckHealth
    BY <2>1 DEF UpdatePosition, RefreshPortfolio, EndSession, CheckHealth, Supervised, Forget
  <2>2. CASE FindTransitions \/ TakeSnapshots \/ BuildCandidates \/ Arbitrate
    BY <2>2 DEF FindTransitions, TakeSnapshots, BuildCandidates, Arbitrate
  <2>3. CASE FinalWatch \/ FinalPolicy \/ CheckPositions \/ CheckOrder
    BY <2>3 DEF FinalWatch, FinalPolicy, CheckPositions, CheckOrder, Again
  <2>4. CASE ConfirmPosition \/ OpenShadow \/ PostOpen \/ EndCycle
    BY <2>4 DEF ConfirmPosition, OpenShadow, PostOpen, EndCycle, Again
  <2> QED
    BY <1>3, <2>1, <2>2, <2>3, <2>4 DEF Polling
<1>4. CASE Stop
  BY <1>4 DEF Stop, Forget
<1>5. CASE Environment
  BY <1>5 DEF Environment, Tick, Quote, Disconnect, Reattach
<1>6. CASE UNCHANGED vars
  BY <1>6 DEF vars
<1> QED
  BY <1>1, <1>2, <1>3, <1>4, <1>5, <1>6 DEF Next

LEMMA DealsStep ==
  ASSUME IInv, [Next]_vars
  PROVE  DealsInv'
<1>0. TypeOK /\ DealsInv /\ JournalInv
  BY DEF IInv
<1>1. ASSUME pc' \in Closing => pc \in Closing /\ UNCHANGED <<journal, deals>>,
             pc' \in Confirmed => pc \in Confirmed \/ ReconcileClosure
      PROVE  DealsInv'
  <2> SUFFICES ASSUME pc' \in Closing PROVE DealsInv'
    BY DEF DealsInv, Closing, Confirmed
  <2>1. pc \in Closing /\ UNCHANGED <<journal, deals>>
    BY <1>1
  <2>2. ASSUME NEW d \in deals, NEW p \in OpenPositions(journal)
        PROVE  /\ d.order = OrderOf(p) /\ d.exit \in {None, closed'[d.order]}
               /\ pc' \in Confirmed => d.exit > opened'[d.order]
    <3>1. d.order = OrderOf(p) /\ d.exit \in {None, closed[d.order]}
      BY <1>0, <2>1 DEF DealsInv
    <3>2. OrderOf(p) \in 1 .. sent /\ opened[OrderOf(p)] # None
      BY <1>0, OpenFacts, ConstantFacts
    <3>3. opened'[d.order] = opened[d.order] /\ d.exit \in {None, closed'[d.order]}
      BY <3>1, <3>2, OrdersKept
    <3>4. pc' \in Confirmed => d.exit > opened[d.order]
      BY <1>0, <1>1, ConfirmedFacts DEF DealsInv
    <3> QED
      BY <3>1, <3>3, <3>4
  <2> QED
    BY <1>0, <2>1, <2>2 DEF DealsInv, OrderOf
<1>2. CASE ReadDeals
  <2>1. pc' = "closure positions" /\ UNCHANGED <<broker, journal>>
    BY <1>2 DEF ReadDeals
  <2> QED
    BY <1>2, <2>1, HistoryFacts DEF DealsInv, Confirmed, OrderOf, broker
<1>3. CASE ReconcileClosure
  <2>1. pc = "closure" /\ UNCHANGED <<journal, deals>>
    BY <1>3 DEF ReconcileClosure, reading
  <2> QED
    BY <1>1, <1>3, <2>1 DEF Closing
<1>4. CASE SendOrder
  <2>1. pc' \in {"down", "confirm", "end"}
    BY <1>4, SendPlaces DEF Forget
  <2> QED
    BY <2>1 DEF DealsInv, Closing, Confirmed
<1>5. ASSUME NEW from \in Startup, NEW to \in Startup,
             Positions(from, to) \/ Orders(from, to),
             to \in Closing => from \in Closing, to \in Confirmed => from \in Confirmed
      PROVE  DealsInv'
  <2>1. pc = from /\ pc' = to /\ UNCHANGED <<journal, deals>>
    BY <1>5 DEF Positions, Orders
  <2> QED
    BY <1>1, <1>5, <2>1
<1>6. ASSUME NEW k \in Order, Fill(k) \/ Cancel(k) \/ BrokerClose(k) PROVE DealsInv'
  <2>1. UNCHANGED <<pc, journal, deals>>
    BY <1>0, <1>6, BrokerLeaves DEF IInv, reading
  <2> QED
    BY <1>1, <2>1
<1> QED
  BY ReadingFrame, <1>1, <1>2, <1>3, <1>4, <1>5, <1>6

LEMMA StartupStep ==
  ASSUME IInv, [Next]_vars
  PROVE  StartupInv'
<1>0. TypeOK /\ BrokerInv /\ StartupInv
  BY DEF IInv
<1>1. \A k \in seenPositions : opened'[k] # None
  <2> SUFFICES ASSUME NEW k \in seenPositions PROVE opened'[k] # None
    OBVIOUS
  <2>1. opened[k] # None /\ k \in Order
    BY <1>0 DEF StartupInv, TypeOK
  <2>2. k \in 1 .. sent
    <3>1. ~(k > sent)
      BY <1>0, <2>1 DEF BrokerInv
    <3>2. k \in Nat /\ k >= 1 /\ sent \in Nat
      BY <1>0, <2>1, SentFacts DEF Order
    <3> QED
      BY <3>1, <3>2
  <2> QED
    BY <2>1, <2>2, OrdersKept
<1>2. CASE ReadDeals \/ ReconcileClosure
  <2>1. /\ pc' \in {"closure positions", "apply", "recheck positions"}
        /\ UNCHANGED seenPositions
    BY <1>2 DEF ReadDeals, ReconcileClosure, reading
  <2> QED
    BY <1>1, <2>1 DEF StartupInv
<1>3. CASE SendOrder
  <2>1. pc' \in {"down", "confirm", "end"} /\ seenPositions' \in {{}, seenPositions}
    BY <1>3, SendPlaces DEF Forget, reading
  <2> QED
    BY <1>1, <2>1 DEF StartupInv
<1>4. ASSUME NEW from \in Startup, NEW to \in Startup, Positions(from, to),
             to \notin {"journals", "restart", "post"}
      PROVE  StartupInv'
  <2>1. seenPositions' = Open /\ UNCHANGED broker /\ pc' = to
    BY <1>4 DEF Positions
  <2>2. \A k \in Open : opened'[k] # None
    BY <1>0, <2>1 DEF BrokerInv, Open, broker
  <2> QED
    BY <1>4, <2>1, <2>2, SameLive DEF StartupInv
<1>5. ASSUME NEW from \in Startup, NEW to \in Startup, Orders(from, to), escaped' = escaped,
             to \notin {"orders", "post orders"},
             to \in {"journals", "restart", "post"} => from \in {"orders", "post orders"}
      PROVE  StartupInv'
  <2>1. /\ seenOrders' = Pending /\ seenPositions' = seenPositions /\ UNCHANGED broker
        /\ pc = from /\ pc' = to
    BY <1>5 DEF Orders
  <2>2. to \in {"journals", "restart", "post"} => Open \subseteq seenPositions \cup escaped
    BY <1>0, <1>5, <2>1 DEF StartupInv
  <2> QED
    BY <1>1, <1>5, <2>1, <2>2, SameLive DEF StartupInv, Live
<1>6. ASSUME NEW k \in Order, Fill(k) \/ Cancel(k) \/ BrokerClose(k) PROVE StartupInv'
  <2>1. /\ UNCHANGED <<pc, seenPositions, seenOrders>>
        /\ Live' \subseteq Live /\ escaped \subseteq escaped'
    BY <1>0, <1>6, BrokerLeaves DEF reading
  <2>2. pc \in {"orders", "post orders"} => Open' \subseteq Open \cup escaped'
    <3>1. CASE Fill(k)
      BY <1>0, <3>1 DEF Fill, BetweenReadings, Open, TypeOK
    <3>2. CASE Cancel(k) \/ BrokerClose(k)
      BY <1>0, <3>2 DEF Cancel, BrokerClose, Open, TypeOK
    <3> QED
      BY <1>6, <3>1, <3>2
  <2> QED
    BY <1>0, <1>1, <2>1, <2>2 DEF StartupInv
<1>7. ASSUME UNCHANGED broker, seenPositions' \in {{}, seenPositions},
             pc' \in {"orders", "post orders"} =>
               pc = pc' /\ UNCHANGED <<seenPositions, escaped>>,
             pc' \in {"journals", "restart", "post"} =>
               /\ pc \in {"journals", "restart", "post"}
               /\ UNCHANGED <<seenPositions, seenOrders, escaped>>
      PROVE  StartupInv'
  <2>1. Live' = Live /\ Open' = Open
    BY <1>7, SameLive
  <2> QED
    BY <1>0, <1>1, <1>7, <2>1 DEF StartupInv
<1> QED
  BY ReadingFrame, <1>2, <1>3, <1>4, <1>5, <1>6, <1>7

-----------------------------------------------------------------------------
\* The closures


\* What a closure says of its deal stays so.
LEMMA ClosureKept ==
  ASSUME IInv, [Next]_vars, NEW s \in Symbol, NEW i \in DOMAIN journal[s],
         journal[s][i].kind = "close", journal[s][i].order # NoOrder
  PROVE  LET e == journal[s][i]
         IN  /\ symbolOf'[e.order] = s
             /\ closed'[e.order] = e.epoch /\ opened'[e.order] < e.epoch
             /\ \E n \in 1 .. i - 1 :
                  /\ n \in DOMAIN journal[s]
                  /\ journal[s][n].kind = "open" /\ journal[s][n].bar = e.bar
                  /\ OrderOf(journal[s][n]) = e.order
<1> DEFINE e == journal[s][i]
<1>1. /\ symbolOf[e.order] = s
      /\ closed[e.order] = e.epoch /\ opened[e.order] < e.epoch
      /\ \E n \in 1 .. i - 1 : /\ journal[s][n].kind = "open" /\ journal[s][n].bar = e.bar
                               /\ OrderOf(journal[s][n]) = e.order
  BY DEF IInv, OfflineClosureIsTheDeal
<1>2. PICK n \in 1 .. i - 1 : /\ journal[s][n].kind = "open" /\ journal[s][n].bar = e.bar
                              /\ OrderOf(journal[s][n]) = e.order
  BY <1>1
<1>3. journal[s] \in Seq(Event)
  BY DEF IInv, TypeOK
<1>4. n \in DOMAIN journal[s] /\ e \in Event /\ journal[s][n] \in Event
  BY <1>2, <1>3
<1>5. e.order \in 1 .. sent /\ opened[e.order] = journal[s][n].epoch
  BY <1>2, <1>4 DEF IInv, JournalInv, OpensAccounted, OpenedFor
<1>6. closed[e.order] # None /\ opened[e.order] # None
  BY <1>1, <1>4, <1>5, ConstantFacts DEF Event
<1> HIDE DEF e
<1>7. /\ symbolOf'[e.order] = symbolOf[e.order]
      /\ closed'[e.order] = closed[e.order] /\ opened'[e.order] = opened[e.order]
  BY <1>5, <1>6, OrdersKept
<1> QED
  BY <1>1, <1>2, <1>4, <1>7 DEF e

LEMMA ClosuresStep ==
  ASSUME IInv, [Next]_vars
  PROVE  OfflineClosureIsTheDeal'
<1>0. TypeOK /\ JournalInv
  BY DEF IInv
<1>1. CASE UNCHANGED journal
  BY <1>1, ClosureKept DEF OfflineClosureIsTheDeal, OrderOf
<1>2. ASSUME NEW t \in Symbol, NEW c \in Event,
             journal' = [journal EXCEPT ![t] = Append(@, c)],
             c.kind = "close" /\ c.order # NoOrder =>
               /\ symbolOf'[c.order] = t
               /\ closed'[c.order] = c.epoch /\ opened'[c.order] < c.epoch
               /\ \E n \in DOMAIN journal[t] :
                    /\ journal[t][n].kind = "open" /\ journal[t][n].bar = c.bar
                    /\ OrderOf(journal[t][n]) = c.order
      PROVE  OfflineClosureIsTheDeal'
  <2> SUFFICES ASSUME NEW s \in Symbol, NEW i \in DOMAIN journal'[s],
                      journal'[s][i].kind = "close", journal'[s][i].order # NoOrder
               PROVE  LET e == journal'[s][i]
                      IN  /\ symbolOf'[e.order] = s
                          /\ closed'[e.order] = e.epoch /\ opened'[e.order] < e.epoch
                          /\ \E n \in 1 .. i - 1 :
                               /\ journal'[s][n].kind = "open" /\ journal'[s][n].bar = e.bar
                               /\ OrderOf(journal'[s][n]) = e.order
    BY DEF OfflineClosureIsTheDeal, OrderOf
  <2>1. /\ i \in DOMAIN journal[s] \/ (s = t /\ i = Len(journal[t]) + 1)
        /\ \A n \in DOMAIN journal[s] : journal'[s][n] = journal[s][n]
        /\ journal'[t][Len(journal[t]) + 1] = c
        /\ Len(journal[t]) \in Nat /\ DOMAIN journal[t] = 1 .. Len(journal[t])
    <3>1. /\ Len(journal[t]) \in Nat /\ DOMAIN journal[t] = 1 .. Len(journal[t])
          /\ journal'[t][Len(journal[t]) + 1] = c
          /\ \A u \in Symbol : \A n :
               n \in DOMAIN journal'[u] <=>
                 n \in DOMAIN journal[u] \/ (u = t /\ n = Len(journal[t]) + 1)
          /\ \A u \in Symbol : \A n \in DOMAIN journal[u] : journal'[u][n] = journal[u][n]
      BY <1>0, <1>2, AddedEvent
    <3> QED
      BY <3>1
  <2>2. CASE i \in DOMAIN journal[s]
    <3>1. journal'[s][i] = journal[s][i]
      BY <2>1, <2>2
    <3>2. /\ journal[s][i].kind = "close" /\ journal[s][i].order # NoOrder
      BY <3>1
    <3>3. LET e == journal[s][i]
          IN  /\ symbolOf'[e.order] = s
              /\ closed'[e.order] = e.epoch /\ opened'[e.order] < e.epoch
              /\ \E n \in 1 .. i - 1 :
                   /\ n \in DOMAIN journal[s]
                   /\ journal[s][n].kind = "open" /\ journal[s][n].bar = e.bar
                   /\ OrderOf(journal[s][n]) = e.order
      BY <2>2, <3>2, ClosureKept
    <3> HIDE DEF OrderOf
    <3> QED
      BY <2>1, <3>1, <3>3
  <2>3. CASE s = t /\ i = Len(journal[t]) + 1
    <3>1. journal'[s][i] = c
      BY <2>1, <2>3
    <3>2. PICK n \in DOMAIN journal[t] :
            /\ journal[t][n].kind = "open" /\ journal[t][n].bar = c.bar
            /\ OrderOf(journal[t][n]) = c.order
      BY <1>2, <3>1
    <3>3. n \in 1 .. i - 1 /\ journal'[s][n] = journal[t][n]
      BY <2>1, <2>3
    <3> QED
      BY <1>2, <2>3, <3>1, <3>2, <3>3
  <2> QED
    BY <2>1, <2>2, <2>3
<1>3. CASE ApplyClosure /\ UNCHANGED broker
  <2> PICK p \in OpenPositions(journal), k \in 1 .. sent :
        /\ k = OrderOf(p)
        /\ journal' = [journal EXCEPT ![p.symbol] = Append(@, CloseEvent(p, k, closed[k]))]
        /\ CloseEvent(p, k, closed[k]) \in Event
        /\ opened[k] < closed[k]
    BY <1>3, ClosureStep
  <2> DEFINE c == CloseEvent(p, k, closed[k])
  <2>1. c.order = k /\ c.epoch = closed[k] /\ c.bar = p.bar
    BY DEF CloseEvent
  <2>2. p.symbol \in Symbol /\ symbolOf[k] = p.symbol
    BY <1>0, OpenFacts DEF Mirrors, Matches
  <2>3. \E n \in DOMAIN journal[p.symbol] :
          /\ journal[p.symbol][n].kind = "open" /\ journal[p.symbol][n].bar = p.bar
          /\ OrderOf(journal[p.symbol][n]) = k
    BY OpenPositionEvent DEF OrderOf
  <2>4. UNCHANGED <<symbolOf, opened, closed>>
    BY <1>3 DEF broker
  <2> HIDE DEF c
  <2>5. journal' = [journal EXCEPT ![p.symbol] = Append(@, c)] /\ c \in Event
    BY DEF c
  <2>6. /\ symbolOf'[c.order] = p.symbol
        /\ closed'[c.order] = c.epoch /\ opened'[c.order] < c.epoch
    BY <2>1, <2>2, <2>4
  <2>7. \E n \in DOMAIN journal[p.symbol] :
          /\ journal[p.symbol][n].kind = "open" /\ journal[p.symbol][n].bar = c.bar
          /\ OrderOf(journal[p.symbol][n]) = c.order
    BY <2>1, <2>3
  <2> QED
    BY <1>2, <2>2, <2>5, <2>6, <2>7
<1>4. CASE UpdatePosition
  <2> SUFFICES ASSUME NEW p \in OpenPositions(journal),
                      journal' = [journal EXCEPT ![p.symbol] =
                                    Append(@, CloseEvent(p, NoOrder, now))],
                      CloseEvent(p, NoOrder, now) \in Event
               PROVE  OfflineClosureIsTheDeal'
    BY <1>1, <1>4, UpdateStep
  <2> DEFINE c == CloseEvent(p, NoOrder, now)
  <2>1. c.order = NoOrder /\ p.symbol \in Symbol
    BY <1>0, OpenFacts DEF CloseEvent
  <2> HIDE DEF c
  <2>2. journal' = [journal EXCEPT ![p.symbol] = Append(@, c)] /\ c \in Event
    BY DEF c
  <2> QED
    BY <1>2, <2>1, <2>2
<1>5. CASE OpenShadow
  <2> PICK s \in Symbol :
        /\ journal' = [journal EXCEPT ![s] = Append(@, OpenEvent(s, confirmed))]
        /\ OpenEvent(s, confirmed) \in Event /\ OpenEvent(s, confirmed).kind = "open"
    BY <1>5, OpenStep
  <2> DEFINE c == OpenEvent(s, confirmed)
  <2>1. journal' = [journal EXCEPT ![s] = Append(@, c)] /\ c \in Event /\ c.kind # "close"
    OBVIOUS
  <2> HIDE DEF c
  <2> QED
    BY <1>2, <2>1
<1> QED
  BY JournalFrame, <1>1, <1>3, <1>4, <1>5

-----------------------------------------------------------------------------
\* The initial states

LEMMA EmptyJournal ==
  OpenEvents(<<>>) = {} /\ RiskRecoveryValid(<<>>)
BY DEF OpenEvents, RiskRecoveryValid

LEMMA OneEvent ==
  ASSUME NEW x
  PROVE  <<x>> = Append(<<>>, x) /\ DOMAIN <<x>> = {1} /\ <<x>>[1] = x
OBVIOUS

\* Before the first session nothing is read, and nothing is dealt with.
LEMMA InitSession ==
  ASSUME Init
  PROVE  ExposureInv /\ SessionInv /\ DealsInv /\ StartupInv
<1>1. /\ pc = "down" /\ seenPositions = {} /\ candidates = {} /\ selected = {}
  BY DEF Init, EmptySession
<1>2. ExposureInv /\ SessionInv
  BY <1>1 DEF ExposureInv, SessionInv, Cycle, Entry, Dealing
<1>3. DealsInv /\ StartupInv
  BY <1>1 DEF DealsInv, StartupInv, Closing, Confirmed
<1> QED
  BY <1>2, <1>3

LEMMA InitFresh ==
  ASSUME Init, Fresh
  PROVE  Live = {} /\ IInv /\ sent = 0 /\ \A s \in Symbol : journal[s] = <<>>
<1> USE ConstantFacts
<1>1. TypeOK
  BY TypeInit
<1>2. /\ sent = 0
      /\ \A k \in Order : status[k] = "unsent" /\ opened[k] = None /\ closed[k] = None
      /\ \A s \in Symbol : journal[s] = <<>>
      /\ pc = "down" /\ due = NoBar
  BY DEF Init, Fresh, EmptySession
<1>3. Live = {} /\ 1 .. sent = {}
  BY <1>2 DEF Live, Open, Pending
<1>4. OpenPositions(journal) = {}
  BY <1>2, EmptyJournal DEF OpenPositions
<1>5. BrokerInv
  <2>1. \A k \in Order : k > 0
    BY DEF Order
  <2> QED
    BY <1>2, <1>3, <2>1 DEF BrokerInv
<1>6. JournalInv
  BY <1>2, <1>4, EmptyJournal DEF JournalInv, Accounted, OpensAccounted, OpensDiffer
<1>7. OrderInv
  BY <1>2, <1>3 DEF OrderInv, Anchored, Startup, Cycle, Entry, NoBar
<1>8. OfflineClosureIsTheDeal
  BY <1>2 DEF OfflineClosureIsTheDeal
<1> QED
  BY <1>1, <1>2, <1>3, <1>5, <1>6, <1>7, <1>8, InitSession DEF IInv

LEMMA InitLegacy ==
  ASSUME Init, NEW s \in LegacySymbol, Legacy(s)
  PROVE  /\ s \in Symbol /\ sent = 1 /\ 1 \in Order
         /\ Pending = {} /\ Open = {1} /\ symbolOf[1] = s
         /\ DOMAIN journal[s] = {1} /\ journal[s][1] = LegacyOpen
         /\ \A t \in Symbol : t # s => journal[t] = <<>>
         /\ IInv
<1> USE ConstantFacts
<1>1. TypeOK
  BY TypeInit
<1>2. s \in Symbol /\ sent = 1 /\ 1 \in Order
  BY DEF Legacy, Order
<1>3. /\ \A k \in Order : /\ status[k] = IF k = 1 THEN "open" ELSE "unsent"
                          /\ opened[k] = IF k = 1 THEN 0 ELSE None
                          /\ closed[k] = None /\ symbolOf[k] = s /\ barOf[k] = 0
      /\ journal[s] = <<LegacyOpen>> /\ \A t \in Symbol : t # s => journal[t] = <<>>
      /\ pc = "down" /\ due = NoBar
      /\ \A t \in Symbol : latest[t] = 0
  BY <1>2 DEF Init, Legacy, EmptySession
<1>4. Open = {1} /\ Pending = {} /\ 1 .. sent = {1}
  BY <1>2, <1>3 DEF Open, Pending
<1>a. /\ LegacyOpen \in Event /\ LegacyOpen.kind = "open" /\ LegacyOpen.bar = 0
      /\ LegacyOpen.order = NoOrder /\ LegacyOpen.epoch = 0 /\ OrderOf(LegacyOpen) = 1
  BY DEF LegacyOpen, Event, OrderOf
<1>b. DOMAIN journal[s] = {1} /\ journal[s][1] = LegacyOpen
  BY <1>3, OneEvent
<1>5. /\ \A q : q \in OpenPositions(journal) <=>
                q = [symbol |-> s, bar |-> 0, order |-> NoOrder, epoch |-> 0]
      /\ \A t \in Symbol : RiskRecoveryValid(journal[t])
  <2> DEFINE J == [t \in Symbol |-> <<>>]
             e == LegacyOpen
  <2>1. e \in Event /\ e.kind = "open" /\ e.bar = 0 /\ e.order = NoOrder /\ e.epoch = 0
    BY <1>a
  <2>2. J \in [Symbol -> Seq(Event)] /\ \A t \in Symbol : J[t] = <<>>
    OBVIOUS
  <2>3. journal[s] = Append(<<>>, e)
    BY <1>3, OneEvent
  <2> HIDE DEF J, e
  <2>4. Adds(J, journal, s, e)
    BY <1>2, <1>3, <2>2, <2>3 DEF Adds
  <2>5. \A q : q \notin OpenPositions(J)
    BY <2>2, EmptyJournal DEF OpenPositions
  <2>6. \A t \in Symbol : RiskRecoveryValid(J[t])
    BY <2>2, EmptyJournal
  <2>7. /\ \A q : q \in OpenPositions(journal) <=>
                  q = [symbol |-> s, bar |-> e.bar, order |-> e.order, epoch |-> e.epoch]
        /\ \A t \in Symbol : RiskRecoveryValid(journal[t])
    BY <1>2, <2>1, <2>2, <2>4, <2>5, <2>6, FirstPositionOpened
  <2> QED
    BY <2>1, <2>7
<1>6. BrokerInv
  <2>1. \A k \in Order : k > 1 <=> k # 1
    BY DEF Order
  <2> QED
    BY <1>2, <1>3, <1>4, <2>1 DEF BrokerInv, None
<1>7. JournalInv
  <2>1. \A p \in OpenPositions(journal) :
          sent >= 1 /\ p.symbol = symbolOf[sent] /\ p.bar = barOf[sent]
    BY <1>2, <1>3, <1>5
  <2>2. \A t \in Symbol : \A i \in DOMAIN journal[t] :
          t = s /\ i = 1 /\ journal[t][i] = LegacyOpen
    BY <1>3, <1>b
  <2>3. OpenedFor(s, LegacyOpen)
    BY <1>2, <1>3, <1>4, <1>a DEF OpenedFor
  <2>4. Accounted
    BY <1>2, <1>3, <1>4, <1>a, <2>2 DEF Accounted
  <2>5. OpensAccounted /\ OpensDiffer
    BY <2>2, <2>3 DEF OpensAccounted, OpensDiffer
  <2> QED
    BY <1>5, <2>1, <2>4, <2>5 DEF JournalInv
<1>8. OrderInv
  BY <1>2, <1>3, <1>4 DEF OrderInv, Anchored, Startup, Cycle, Entry, NoBar
<1>9. OfflineClosureIsTheDeal
  <2>1. \A t \in Symbol : \A i \in DOMAIN journal[t] : journal[t][i].kind = "open"
    BY <1>3, <1>a, <1>b
  <2> QED
    BY <2>1 DEF OfflineClosureIsTheDeal
<1>10. IInv
  BY <1>1, <1>6, <1>7, <1>8, <1>9, InitSession DEF IInv
<1> QED
  BY <1>2, <1>3, <1>4, <1>b, <1>10

-----------------------------------------------------------------------------
\* What the invariant says

LEMMA InvariantInit == Init => IInv
<1>1. ASSUME Init PROVE Fresh \/ \E s \in LegacySymbol : Legacy(s)
  BY <1>1 DEF Init
<1> QED
  BY <1>1, InitFresh, InitLegacy

LEMMA InvariantStep == IInv /\ [Next]_vars => IInv'
<1> SUFFICES ASSUME IInv, [Next]_vars PROVE IInv'
  OBVIOUS
<1>1. TypeOK' /\ BrokerInv' /\ JournalInv' /\ OrderInv'
  BY TypeStep, BrokerStep, JournalStep, OrderStep
<1>2. ExposureInv' /\ SessionInv' /\ DealsInv' /\ StartupInv' /\ OfflineClosureIsTheDeal'
  BY KnownStep, SessionStep, DealsStep, StartupStep, ClosuresStep
<1> QED
  BY <1>1, <1>2 DEF IInv

LEMMA Invariant == Spec => []IInv
BY InvariantInit, InvariantStep, PTL DEF Spec

LEMMA InvariantExposure == IInv => OneExposure
<1> SUFFICES ASSUME IInv PROVE OneExposure
  OBVIOUS
<1>1. ASSUME pc \in Cycle \cup Entry, NEW k \in Live \ escaped, NEW n \in Live \ escaped
      PROVE  k = n
  <2>1. CASE pc \in Cycle \cup {"send", "opened"}
    <3>1. PICK p \in OpenPositions(journal) : OrderOf(p) = k
      BY <2>1 DEF IInv, ExposureInv, IsMirrored
    <3>2. PICK q \in OpenPositions(journal) : OrderOf(q) = n
      BY <2>1 DEF IInv, ExposureInv, IsMirrored
    <3>3. p = q
      BY OnePosition DEF IInv
    <3> QED
      BY <3>1, <3>2, <3>3
  <2>2. CASE pc \in {"confirm", "mirror"}
    BY <2>2 DEF IInv, ExposureInv
  <2> QED
    BY <1>1, <2>1, <2>2 DEF Entry
<1>2. pc = "send" => Live \subseteq escaped
  <2>1. pc = "send" => OpenPositions(journal) = {}
    BY DEF IInv, SessionInv, Entry, Dealing
  <2> QED
    BY <2>1 DEF IInv, ExposureInv, IsMirrored
<1> QED
  BY <1>1, <1>2 DEF OneExposure

LEMMA OneLifecycle ==
  ASSUME IInv, NEW s \in Symbol
  PROVE  LifecycleValid(journal[s])
<1> SUFFICES ASSUME NEW e \in OpenEvents(journal[s]), NEW f \in OpenEvents(journal[s])
             PROVE  e = f
  BY DEF LifecycleValid
<1> DEFINE P(x) == [symbol |-> s, bar |-> x.bar, order |-> x.order, epoch |-> x.epoch]
<1>1. P(e) \in OpenPositions(journal) /\ P(f) \in OpenPositions(journal)
  BY OpenPositionOf
<1>2. P(e) = P(f)
  BY <1>1, OnePosition DEF IInv
<1>3. e.bar = f.bar
  BY <1>2
<1>4. journal[s] \in Seq(Event)
  BY DEF IInv, TypeOK
<1> QED
  BY <1>3, <1>4, OneOpenEvent

LEMMA InvariantJournals == IInv => JournalsAgree
<1> SUFFICES ASSUME IInv PROVE JournalsAgree
  OBVIOUS
<1>1. ASSUME NEW p \in OpenPositions(journal)
      PROVE  \E k \in 1 .. sent : Mirrors(p, k) /\ barOf[k] <= p.bar
  BY OpenFacts DEF IInv
<1>2. AggregateValid(journal)
  BY OnePosition DEF AggregateValid, SnapshotValid, IInv, JournalInv
<1>3. \A s \in Symbol : LifecycleValid(journal[s])
  BY OneLifecycle
<1>4. Cardinality(OpenPositions(journal)) <= MaxOpenShadowPositions
  <2>1. CASE OpenPositions(journal) = {}
    BY <2>1, FS_EmptySet DEF MaxOpenShadowPositions
  <2>2. ASSUME NEW p \in OpenPositions(journal)
        PROVE  Cardinality(OpenPositions(journal)) <= MaxOpenShadowPositions
    <3>1. OpenPositions(journal) = {p}
      BY OnePosition DEF IInv
    <3>2. Cardinality({p}) = 1
      BY FS_Singleton
    <3> QED
      BY <3>1, <3>2 DEF MaxOpenShadowPositions
  <2> QED
    BY <2>1, <2>2
<1>5. pc \in Cycle \cup Entry => memory = OpenPositions(journal)
  BY DEF IInv, SessionInv
<1> QED
  BY <1>1, <1>2, <1>3, <1>4, <1>5 DEF JournalsAgree, PortfolioConsistent, RecoveriesValid

LEMMA InvariantMirrored == IInv => BrokerIsMirrored
<1> SUFFICES ASSUME IInv, pc \in Cycle, NEW k \in Live \ escaped
             PROVE  \E p \in memory : Mirrors(p, k)
  BY DEF BrokerIsMirrored
<1>1. memory = OpenPositions(journal) /\ IsMirrored(k)
  BY DEF IInv, SessionInv, ExposureInv
<1>2. PICK p \in OpenPositions(journal) : OrderOf(p) = k
  BY <1>1 DEF IsMirrored
<1>3. Mirrors(p, k)
  BY <1>2, OpenFacts DEF IInv
<1> QED
  BY <1>1, <1>3

LEMMA InvariantBars == IInv => OneOrderPerBar
<1> SUFFICES ASSUME IInv, NEW k \in 1 .. sent, NEW n \in 1 .. sent,
                    symbolOf[k] = symbolOf[n], barOf[k] = barOf[n]
             PROVE  k = n
  BY DEF OneOrderPerBar
<1>1. k \in Order /\ n \in Order /\ k \in Nat /\ n \in Nat
  BY SentFacts DEF IInv, Order
<1>2. barOf[k] \in Nat /\ barOf[n] \in Nat
  BY <1>1, SentFacts DEF IInv
<1>3. ~(k < n) /\ ~(n < k)
  BY <1>2 DEF IInv, OrderInv
<1> QED
  BY <1>1, <1>3

-----------------------------------------------------------------------------
\* The refinement

\* What the journals record of an order: nothing, its open, or both events.
LEMMA RecordMeans ==
  IInv => \A k \in Order :
            Record(k) = IF IsMirrored(k) THEN {"open"}
                        ELSE IF HasOpen(k) THEN {"open", "close"} ELSE {}
<1> SUFFICES ASSUME IInv, NEW k \in Order
             PROVE  Record(k) = IF IsMirrored(k) THEN {"open"}
                                ELSE IF HasOpen(k) THEN {"open", "close"} ELSE {}
  OBVIOUS
<1> DEFINE s == symbolOf[k]
           j == journal[s]
           Opens(i) == j[i].kind = "open" /\ OrderOf(j[i]) = k
<1>0. /\ s \in Symbol /\ j \in Seq(Event) /\ RiskRecoveryValid(j)
      /\ \A i, n \in DOMAIN j : j[i].kind = "open" /\ j[n].kind = "open" /\ j[i].bar = j[n].bar
                                => i = n
      /\ \A i, n \in DOMAIN j : Opens(i) /\ Opens(n) => i = n
  <2>1. s \in Symbol /\ j \in Seq(Event)
    BY DEF IInv, TypeOK
  <2>2. RiskRecoveryValid(j) /\ OpensDiffer
    BY <2>1 DEF IInv, JournalInv
  <2> QED
    BY <2>1, <2>2 DEF OpensDiffer
<1>1. \A x : x \in Record(k) <=>
        \E m, i \in DOMAIN j : Opens(i) /\ j[i].bar = j[m].bar /\ x = j[m].kind
  BY DEF Record
<1>2. HasOpen(k) <=> \E i \in DOMAIN j : Opens(i)
  <2>1. ASSUME NEW t \in Symbol, NEW i \in DOMAIN journal[t],
               journal[t][i].kind = "open", OrderOf(journal[t][i]) = k
        PROVE  t = s
    BY <2>1 DEF IInv, JournalInv, OpensAccounted, OpenedFor
  <2> QED
    BY <1>0, <2>1 DEF HasOpen
<1>3. IsMirrored(k) <=>
        \E i \in DOMAIN j : Opens(i) /\ \A m \in DOMAIN j : m > i => j[m].bar # j[i].bar
  <2>1. ASSUME NEW p \in OpenPositions(journal), OrderOf(p) = k
        PROVE  \E i \in DOMAIN j : Opens(i) /\ \A m \in DOMAIN j : m > i => j[m].bar # j[i].bar
    <3>1. p.symbol = s
      BY <2>1, OpenFacts DEF IInv, Mirrors, Matches
    <3>2. PICK i \in DOMAIN journal[p.symbol] :
            LET e == journal[p.symbol][i]
            IN  /\ e.kind = "open" /\ e.bar = p.bar
                /\ e.order = p.order /\ e.epoch = p.epoch
                /\ \A m \in DOMAIN journal[p.symbol] :
                     m > i => journal[p.symbol][m].bar # p.bar
      BY OpenPositionEvent
    <3> QED
      BY <2>1, <3>1, <3>2 DEF OrderOf
  <2>2. ASSUME NEW i \in DOMAIN j, Opens(i), \A m \in DOMAIN j : m > i => j[m].bar # j[i].bar
        PROVE  IsMirrored(k)
    <3> DEFINE p == [symbol |-> s, bar |-> j[i].bar, order |-> j[i].order,
                     epoch |-> j[i].epoch]
    <3>1. j[i] \in OpenEvents(j)
      BY <2>2 DEF OpenEvents
    <3>2. p \in OpenPositions(journal)
      BY <1>0, <3>1, OpenPositionOf
    <3>3. OrderOf(p) = k
      BY <2>2 DEF OrderOf
    <3> QED
      BY <3>2, <3>3 DEF IsMirrored
  <2> QED
    BY <2>1, <2>2 DEF IsMirrored
<1>4. \A i \in DOMAIN j : j[i].kind \in {"open", "close"} /\ i \in Nat
  <2>1. \A i \in DOMAIN j : j[i] \in Event /\ i \in Nat
    BY <1>0
  <2> QED
    BY <2>1 DEF Event
<1>5. ASSUME NEW i \in DOMAIN j, NEW m \in DOMAIN j, Opens(i), j[i].bar = j[m].bar, m <= i
      PROVE  j[m].kind = "open"
  <2> SUFFICES ASSUME j[m].kind = "close" PROVE FALSE
    BY <1>4
  <2>1. PICK n \in 1 .. (m - 1) : j[n].bar = j[m].bar /\ j[n].kind = "open"
    BY <1>0 DEF RiskRecoveryValid, OpenBefore
  <2>2. n \in DOMAIN j /\ n # i
    BY <1>0, <1>4, <1>5, <2>1
  <2> QED
    BY <1>0, <1>5, <2>1, <2>2
<1> HIDE DEF j, s
<1>6. CASE IsMirrored(k)
  <2>1. PICK i \in DOMAIN j : Opens(i) /\ \A m \in DOMAIN j : m > i => j[m].bar # j[i].bar
    BY <1>3, <1>6
  <2>2. ASSUME NEW m \in DOMAIN j, NEW n \in DOMAIN j, Opens(n), j[n].bar = j[m].bar
        PROVE  j[m].kind = "open"
    <3>1. n = i
      BY <1>0, <2>1, <2>2
    <3>2. m <= i
      BY <1>4, <2>1, <2>2, <3>1
    <3> QED
      BY <1>5, <2>1, <2>2, <3>1, <3>2
  <2>3. \A x : x \in Record(k) => x = "open"
    BY <1>1, <2>2
  <2>4. "open" \in Record(k)
    BY <1>1, <2>1
  <2> QED
    BY <1>6, <2>3, <2>4
<1>7. CASE ~IsMirrored(k) /\ HasOpen(k)
  <2>1. PICK i \in DOMAIN j : Opens(i)
    BY <1>2, <1>7
  <2>2. PICK m \in DOMAIN j : m > i /\ j[m].bar = j[i].bar
    BY <1>3, <1>7, <2>1
  <2>3. j[m].kind = "close"
    BY <1>0, <1>4, <2>1, <2>2
  <2>4. "open" \in Record(k) /\ "close" \in Record(k)
    BY <1>1, <2>1, <2>2, <2>3
  <2>5. \A x : x \in Record(k) => x \in {"open", "close"}
    BY <1>1, <1>4
  <2> QED
    BY <1>7, <2>4, <2>5
<1>8. CASE ~HasOpen(k)
  <2>1. \A x : x \notin Record(k)
    BY <1>1, <1>2, <1>8
  <2>2. ~IsMirrored(k)
    BY <1>2, <1>3, <1>8
  <2> QED
    BY <1>8, <2>1, <2>2
<1> QED
  BY <1>6, <1>7, <1>8

\* The mirrors of all orders.
Mirroring == [k \in Order |-> Record(k)]

LEMMA MirroringMeans ==
  IInv => \A k \in Order :
            Mirroring[k] = IF IsMirrored(k) THEN {"open"}
                           ELSE IF HasOpen(k) THEN {"open", "close"} ELSE {}
BY RecordMeans DEF Mirroring

LEMMA MirroringAfter ==
  ASSUME IInv, [Next]_vars
  PROVE  \A k \in Order :
           Mirroring'[k] = IF IsMirrored(k)' THEN {"open"}
                           ELSE IF HasOpen(k)' THEN {"open", "close"} ELSE {}
<1>1. IInv'
  BY InvariantStep
<1>2. (IInv => \A k \in Order :
                 Mirroring[k] = IF IsMirrored(k) THEN {"open"}
                                ELSE IF HasOpen(k) THEN {"open", "close"} ELSE {})'
  BY MirroringMeans, PTL
<1> QED
  BY <1>1, <1>2

LEMMA MirroringIs ==
  /\ Mirroring = [k \in Order |-> Mirroring[k]]
  /\ Mirroring' = [k \in Order |-> Mirroring'[k]]
BY DEF Mirroring

\* The exposure of MirroredExposure, by the state of the session.
LEMMA ExposureMeans ==
  ASSUME IInv
  PROVE  /\ Exposure!Exposed = Live
         /\ Exposure!Mirrored = {k \in Order : IsMirrored(k)}
         /\ \A p \in OpenPositions(journal) : OrderOf(p) \in Exposure!Mirrored
         /\ OpenPositions(journal) = {} => Exposure!Mirrored = {}
<1>1. Exposure!Exposed = Live
  BY DEF Exposure!Exposed, Live
<1>2. Exposure!Mirrored = {k \in Order : IsMirrored(k)}
  <2>1. \A k \in Order : Record(k) = {"open"} <=> IsMirrored(k)
    BY RecordMeans
  <2> QED
    BY <2>1 DEF Exposure!Mirrored
<1>3. \A p \in OpenPositions(journal) : OrderOf(p) \in Order
  BY OpenFacts DEF IInv
<1> QED
  BY <1>1, <1>2, <1>3 DEF IsMirrored

\* Where no journal is written the mirrors stay.
LEMMA MirroringStays ==
  ASSUME IInv, [Next]_vars, UNCHANGED journal
  PROVE  Mirroring' = Mirroring
<1>1. \A k \in Order : (IsMirrored(k)' <=> IsMirrored(k)) /\ (HasOpen(k)' <=> HasOpen(k))
  BY DEF IsMirrored, HasOpen, OrderOf
<1>2. \A k \in Order : Mirroring'[k] = Mirroring[k]
  BY <1>1, MirroringMeans, MirroringAfter
<1> QED
  BY <1>2, MirroringIs

\* A close of the open position settles its mirror, and no other.
LEMMA MirroringSettles ==
  ASSUME IInv, [Next]_vars, NEW p \in OpenPositions(journal), NEW c \in Event,
         c.kind = "close", journal' = [journal EXCEPT ![p.symbol] = Append(@, c)],
         OpenPositions(journal') = {}
  PROVE  /\ Mirroring[OrderOf(p)] = {"open"}
         /\ Mirroring' = [Mirroring EXCEPT ![OrderOf(p)] = {"open", "close"}]
<1> DEFINE n == OrderOf(p)
<1>1. n \in Order /\ p.symbol \in Symbol
  BY OpenFacts DEF IInv
<1>2. \A k \in Order : (IsMirrored(k) <=> k = n) /\ ~IsMirrored(k)'
  BY OnePosition DEF IInv, IsMirrored, OrderOf
<1>3. \A k \in Order : HasOpen(k)' <=> HasOpen(k)
  <2>1. ASSUME NEW t \in Symbol, NEW i \in DOMAIN journal'[t]
        PROVE  /\ i \in DOMAIN journal[t] \/ (t = p.symbol /\ i = Len(journal[p.symbol]) + 1)
               /\ i \in DOMAIN journal[t] => journal'[t][i] = journal[t][i]
               /\ t = p.symbol /\ i = Len(journal[p.symbol]) + 1 => journal'[t][i] = c
    BY <1>1, AddedEvent DEF IInv
  <2>2. \A t \in Symbol : \A i \in DOMAIN journal[t] :
          i \in DOMAIN journal'[t] /\ journal'[t][i] = journal[t][i]
    BY <1>1, AddedEvent DEF IInv
  <2> QED
    BY <2>1, <2>2 DEF HasOpen, OrderOf
<1>4. HasOpen(n)
  BY <1>1, OpenPositionEvent DEF HasOpen, OrderOf
<1> HIDE DEF n
<1>5. Mirroring[n] = {"open"} /\ Mirroring'[n] = {"open", "close"}
  BY <1>1, <1>2, <1>3, <1>4, MirroringMeans, MirroringAfter
<1>6. \A k \in Order : k # n => Mirroring'[k] = Mirroring[k]
  BY <1>2, <1>3, MirroringMeans, MirroringAfter
<1>7. Mirroring' = [Mirroring EXCEPT ![n] = {"open", "close"}]
  BY <1>1, <1>5, <1>6, MirroringIs
<1> QED
  BY <1>5, <1>7 DEF n

\* What is mirrored had no mirror, and is the only order that has an open one.
LEMMA MirroringOpens ==
  ASSUME IInv, [Next]_vars, OpenShadow
  PROVE  /\ Mirroring[confirmed] = {}
         /\ Mirroring' = [Mirroring EXCEPT ![confirmed] = {"open"}]
<1>1. PICK s \in Symbol :
        /\ confirmed \in Order
        /\ OpenEvent(s, confirmed) \in Event /\ OpenEvent(s, confirmed).kind = "open"
        /\ OrderOf(OpenEvent(s, confirmed)) = confirmed
        /\ ~HasOpen(confirmed)
        /\ journal' = [journal EXCEPT ![s] = Append(@, OpenEvent(s, confirmed))]
        /\ OpenPositions(journal) = {}
        /\ OpenPositions(journal') = {PositionOf(s, confirmed)}
        /\ OrderOf(PositionOf(s, confirmed)) = confirmed
  BY OpenStep
<1> DEFINE c == OpenEvent(s, confirmed)
<1>2. UNCHANGED confirmed
  BY DEF OpenShadow
<1>3. \A k \in Order : ~IsMirrored(k) /\ (IsMirrored(k)' <=> k = confirmed)
  BY <1>1 DEF IsMirrored
<1>4. c \in Event /\ c.kind = "open" /\ OrderOf(c) = confirmed
      /\ journal' = [journal EXCEPT ![s] = Append(@, c)]
  BY <1>1
<1> HIDE DEF c
<1>5. \A k \in Order : k # confirmed => (HasOpen(k)' <=> HasOpen(k))
  <2>1. ASSUME NEW t \in Symbol, NEW i \in DOMAIN journal'[t]
        PROVE  /\ i \in DOMAIN journal[t] \/ (t = s /\ i = Len(journal[s]) + 1)
               /\ i \in DOMAIN journal[t] => journal'[t][i] = journal[t][i]
               /\ t = s /\ i = Len(journal[s]) + 1 => journal'[t][i] = c
    <3>1. TypeOK
      BY DEF IInv
    <3> QED
      BY <1>4, <2>1, <3>1, AddedEvent
  <2>2. \A t \in Symbol : \A i \in DOMAIN journal[t] :
          i \in DOMAIN journal'[t] /\ journal'[t][i] = journal[t][i]
    BY <1>4, AddedEvent DEF IInv
  <2> QED
    BY <1>4, <2>1, <2>2 DEF HasOpen, OrderOf
<1>6. Mirroring[confirmed] = {} /\ Mirroring'[confirmed] = {"open"}
  BY <1>1, <1>3, MirroringMeans, MirroringAfter
<1>7. \A k \in Order : k # confirmed => Mirroring'[k] = Mirroring[k]
  BY <1>3, <1>5, MirroringMeans, MirroringAfter
<1> QED
  BY <1>1, <1>6, <1>7, MirroringIs

LEMMA ExposureInit == Init => Exposure!Init
<1> SUFFICES ASSUME Init PROVE Exposure!Init
  OBVIOUS
<1>0. escaped = {} /\ pc \notin Cycle \cup Entry
  BY DEF Init, EmptySession, Cycle, Entry
<1>1. CASE Fresh
  <2>1. Live = {} /\ IInv /\ sent = 0 /\ \A s \in Symbol : journal[s] = <<>>
    BY <1>1, InitFresh
  <2>2. \A k : ~HasOpen(k) /\ ~IsMirrored(k)
    BY <2>1, EmptyJournal DEF HasOpen, IsMirrored, OpenPositions
  <2>3. \A k \in Order : Record(k) = {}
    BY <2>1, <2>2, RecordMeans
  <2>4. 1 .. sent = {} /\ Open = {} /\ Pending = {}
    BY <2>1 DEF Live
  <2> QED
    BY <1>0, <2>3, <2>4 DEF Exposure!Init
<1>2. ASSUME NEW s \in LegacySymbol, Legacy(s) PROVE Exposure!Init
  <2>1. /\ sent = 1 /\ 1 \in Order /\ Pending = {} /\ Open = {1}
        /\ DOMAIN journal[s] = {1} /\ journal[s][1] = LegacyOpen
    BY <1>2, InitLegacy
  <2>2. \A k \in Order : symbolOf[k] = s
    BY <1>2 DEF Legacy
  <2>3. \A k \in Order : Record(k) = IF k = 1 THEN {"open"} ELSE {}
    BY <2>1, <2>2 DEF Record, LegacyOpen, OrderOf, NoOrder
  <2>4. 1 .. sent = {1}
    BY <2>1
  <2>5. \A k \in Order : Record(k) = IF k \in Open THEN {"open"} ELSE {}
    BY <2>1, <2>3
  <2> QED
    BY <1>0, <2>1, <2>4, <2>5 DEF Exposure!Init
<1> QED
  BY <1>1, <1>2 DEF Init

\* The steps that are seen in the exposure; to all others it is the same.
LEMMA ExposureFrame ==
  ASSUME [Next]_vars
  PROVE  \/ Forget /\ UNCHANGED <<broker, journal>>
         \/ Resume \/ ReconcileRestart \/ SendOrder
         \/ \E k \in Order : Fill(k) \/ Cancel(k) \/ BrokerClose(k)
         \/ OpenShadow \/ UpdatePosition \/ ApplyClosure
         \/ /\ UNCHANGED <<broker, journal, escaped>>
            /\ pc' \in Cycle \cup Entry <=> pc \in Cycle \cup Entry
<1> USE DEF broker, traded, session, Cycle, Entry
<1>1. CASE Start
  BY <1>1 DEF Start, StartSession
<1>2. CASE Reconciliation
  <2>1. CASE ReadPositions \/ ReadOrders \/ ReadClosurePositions \/ ReadClosureOrders
    BY <2>1 DEF ReadPositions, ReadOrders, ReadClosurePositions, ReadClosureOrders,
      Positions, Orders
  <2>2. CASE RecheckPositions \/ RecheckOrders \/ ReadPostPositions \/ ReadPostOrders
    BY <2>2 DEF RecheckPositions, RecheckOrders, ReadPostPositions, ReadPostOrders,
      Positions, Orders
  <2>3. CASE RecoverJournals \/ ReadDeals \/ ReconcileClosure
    BY <2>3 DEF RecoverJournals, ReadDeals, ReconcileClosure
  <2>4. CASE RecheckLegacyClosure \/ FinishClosure \/ EndReconciliation
    BY <2>4 DEF RecheckLegacyClosure, FinishClosure, EndReconciliation
  <2> QED
    BY <1>2, <2>1, <2>2, <2>3, <2>4 DEF Reconciliation
<1>3. CASE Polling
  <2>1. CASE RefreshPortfolio \/ EndSession \/ CheckHealth
    BY <2>1 DEF RefreshPortfolio, EndSession, CheckHealth, Supervised
  <2>2. CASE FindTransitions \/ TakeSnapshots \/ BuildCandidates \/ Arbitrate
    BY <2>2 DEF FindTransitions, TakeSnapshots, BuildCandidates, Arbitrate
  <2>3. CASE FinalWatch \/ FinalPolicy \/ CheckPositions \/ CheckOrder
    BY <2>3 DEF FinalWatch, FinalPolicy, CheckPositions, CheckOrder, Again
  <2>4. CASE ConfirmPosition \/ PostOpen \/ EndCycle
    BY <2>4 DEF ConfirmPosition, PostOpen, EndCycle, Again
  <2> QED
    BY <1>3, <2>1, <2>2, <2>3, <2>4 DEF Polling
<1>4. CASE Stop
  BY <1>4 DEF Stop
<1>5. CASE Environment
  BY <1>5 DEF Environment, Tick, Quote, Disconnect, Reattach
<1>6. CASE UNCHANGED vars
  BY <1>6 DEF vars
<1> QED
  BY <1>1, <1>2, <1>3, <1>4, <1>5, <1>6 DEF Next

\* The order that was sent is voided, pending or open; the others are as before.
LEMMA SentExposure ==
  ASSUME IInv, SendOrder, NEW s \in selected, NEW fate, Place(sent + 1, s, fate)
  PROVE  /\ 1 .. sent' = 1 .. sent \cup {sent + 1} /\ sent + 1 \notin 1 .. sent
         /\ Pending' = IF fate = "pending" THEN Pending \cup {sent + 1} ELSE Pending
         /\ Open' = IF fate = "open" THEN Open \cup {sent + 1} ELSE Open
<1>1. sent + 1 \in Order /\ s \in Symbol /\ TypeOK /\ BrokerInv
  BY SendFacts DEF IInv, TypeOK
<1>2. /\ \A k \in Order : k # sent + 1 => status'[k] = status[k]
      /\ status'[sent + 1] = fate
  BY <1>1, PlaceFacts
<1>3. status[sent + 1] = "unsent"
  <2>1. sent + 1 > sent
    BY <1>1, SentFacts
  <2> QED
    BY <1>1, <2>1 DEF BrokerInv
<1>4. /\ Pending' = IF fate = "pending" THEN Pending \cup {sent + 1} ELSE Pending
      /\ Open' = IF fate = "open" THEN Open \cup {sent + 1} ELSE Open
  BY <1>1, <1>2, <1>3 DEF Pending, Open
<1>5. \A k : k \in 1 .. sent' <=> k \in 1 .. sent \/ k = sent + 1
  BY <1>1, PlaceFacts
<1>6. sent + 1 \notin 1 .. sent
  BY <1>1, SentFacts
<1> QED
  BY <1>4, <1>5, <1>6

\* A sent order is done, refused or lost with the session.
LEMMA SendImplements ==
  ASSUME IInv, SendOrder
  PROVE  Exposure!Send(sent + 1)
<1> USE DEF Cycle, Entry
<1>1. PICK s \in selected : Done(s) \/ Refused(s) \/ PostSendFailStop(s)
  BY DEF SendOrder
<1>2. Exposure!Exposed \subseteq escaped /\ Exposure!Mirrored = {} /\ pc \in Cycle \cup Entry
  BY SendFacts, ExposureMeans
<1>3. CASE Done(s)
  <2>1. /\ Place(sent + 1, s, "open") /\ pc' = "confirm" /\ UNCHANGED escaped
    BY <1>3 DEF Done, traded
  <2>2. Exposure!Hold(sent + 1)
    BY <2>1, SentExposure DEF Exposure!Hold
  <2> QED
    BY <1>2, <2>1, <2>2, SentExposure DEF Exposure!Send
<1>4. CASE Refused(s)
  <2>1. PICK f \in Fates : /\ Place(sent + 1, s, f)
                           /\ escaped' = escaped \cup IF f = "void" THEN {} ELSE {sent + 1}
    BY <1>4 DEF Refused
  <2>2. pc' = "end" /\ f \in {"void", "pending", "open"}
    BY <1>4, FateTypes DEF Refused
  <2>3. /\ f = "void" => Exposure!Void(sent + 1)
        /\ f = "pending" => Exposure!Rest(sent + 1)
        /\ f = "open" => Exposure!Hold(sent + 1)
    BY <2>1, SentExposure
    DEF Exposure!Void, Exposure!Rest, Exposure!Hold, Exposure!exposure
  <2>4. /\ pc \in Cycle \cup Entry /\ pc' \in Cycle \cup Entry
        /\ sent + 1 \notin 1 .. sent /\ 1 .. sent' = 1 .. sent \cup {sent + 1}
    BY <1>2, <2>1, <2>2, SentExposure
  <2>5. CASE f = "void"
    BY <1>2, <2>1, <2>3, <2>4, <2>5 DEF Exposure!Send
  <2>6. CASE f # "void"
    BY <1>2, <2>1, <2>2, <2>3, <2>4, <2>6 DEF Exposure!Send
  <2> QED
    BY <2>5, <2>6
<1>5. CASE PostSendFailStop(s)
  <2>1. PICK f \in Fates : Place(sent + 1, s, f)
    BY <1>5 DEF PostSendFailStop
  <2>2. pc' = "down" /\ escaped' = {} /\ f \in {"void", "pending", "open"}
    BY <1>5, FateTypes DEF PostSendFailStop, Forget
  <2>3. /\ f = "void" => Exposure!Void(sent + 1)
        /\ f = "pending" => Exposure!Rest(sent + 1)
        /\ f = "open" => Exposure!Hold(sent + 1)
    BY <2>1, SentExposure
    DEF Exposure!Void, Exposure!Rest, Exposure!Hold, Exposure!exposure
  <2>4. /\ pc \in Cycle \cup Entry /\ pc' \notin Cycle \cup Entry
        /\ sent + 1 \notin 1 .. sent /\ 1 .. sent' = 1 .. sent \cup {sent + 1}
    BY <1>2, <2>1, <2>2, SentExposure
  <2>5. Exposure!Rest(sent + 1) \/ Exposure!Hold(sent + 1) \/ Exposure!Void(sent + 1)
    BY <2>2, <2>3
  <2>6. (pc' \in Cycle \cup Entry) = FALSE /\ escaped' = {}
    BY <2>2
  <2> HIDE DEF Cycle, Entry
  <2> QED
    BY <1>2, <2>4, <2>5, <2>6 DEF Exposure!Send
<1> QED
  BY <1>1, <1>3, <1>4, <1>5

\* At most one order is taken for the mirrored one.
LEMMA RestartImplements ==
  ASSUME IInv, ReconcileRestart
  PROVE  escaped' = escaped \/ \E k \in Order : Exposure!Mistake(k)
<1>1. /\ pc = "restart" /\ pc' = "resume" /\ UNCHANGED broker
      /\ Cardinality(seenPositions) <= 1 /\ escaped' = escaped \cup Mistaken
  BY DEF ReconcileRestart, BothSidesAgree
<1>2. ASSUME NEW k \in Mistaken PROVE Exposure!Mistake(k)
  <2>1. k \in Open /\ k \in seenPositions /\ \E p \in OpenPositions(journal) : ~Mirrors(p, k)
    BY DEF Mistaken
  <2>2. seenPositions = {k}
    <3>1. IsFiniteSet(seenPositions)
      <4>1. IsFiniteSet(Order)
        BY ConstantFacts, FS_Interval DEF Order
      <4> QED
        BY <4>1, FS_Subset DEF IInv, TypeOK
    <3>2. Cardinality(seenPositions) \in Nat /\ Cardinality(seenPositions) # 0
      BY <2>1, <3>1, FS_CardinalityType, FS_EmptySet
    <3>3. Cardinality(seenPositions) = 1
      BY <1>1, <3>2
    <3> QED
      BY <2>1, <3>1, <3>3, FS_Singleton
  <2>3. escaped' = escaped \cup {k}
    BY <1>1, <2>1, <2>2 DEF Mistaken
  <2>4. Exposure!Mirrored # {}
    BY <2>1, ExposureMeans
  <2>5. /\ pc \notin Cycle \cup Entry /\ pc' \notin Cycle \cup Entry
        /\ UNCHANGED <<sent, Pending, Open>>
    BY <1>1, SameLive DEF Cycle, Entry, broker
  <2> QED
    BY <2>1, <2>3, <2>4, <2>5 DEF Exposure!Mistake, Exposure!exposure
<1>3. ASSUME NEW k \in Mistaken PROVE k \in Order
  BY DEF Mistaken, Open
<1> QED
  BY <1>1, <1>2, <1>3

\* The broker fills, voids or closes.
LEMMA BrokerImplements ==
  ASSUME IInv, NEW k \in Order, Fill(k) \/ Cancel(k) \/ BrokerClose(k)
  PROVE  Exposure!Fill(k) \/ Exposure!Leave(k)
<1> USE DEF session, traded, Exposure!Exposed, Open, Pending
<1>0. TypeOK
  BY DEF IInv
<1>1. CASE Fill(k)
  <2>1. /\ k \in Pending /\ Pending' = Pending \ {k} /\ Open' = Open \cup {k}
        /\ UNCHANGED <<sent, pc>>
    BY <1>0, <1>1 DEF Fill, TypeOK
  <2>2. \/ UNCHANGED escaped
        \/ pc \notin Cycle \cup Entry /\ escaped' = escaped \cup {k}
    BY <1>1 DEF Fill, BetweenReadings, Cycle, Entry
  <2> QED
    BY <2>1, <2>2 DEF Exposure!Fill
<1>2. CASE Cancel(k) \/ BrokerClose(k)
  <2>1. /\ k \in Pending \cup Open /\ Pending' = Pending \ {k} /\ Open' = Open \ {k}
        /\ UNCHANGED <<sent, pc, escaped>>
    BY <1>0, <1>2 DEF Cancel, BrokerClose, TypeOK
  <2> QED
    BY <2>1 DEF Exposure!Leave
<1> QED
  BY <1>1, <1>2

\* Steps that write no journal change the exposure as MirroredExposure says.
LEMMA UnmirroredStep ==
  ASSUME IInv, [Next]_vars, UNCHANGED journal
  PROVE  \/ /\ pc' \in Cycle \cup Entry <=> pc \in Cycle \cup Entry
            /\ UNCHANGED <<sent, Pending, Open, escaped>>
         \/ Exposure!Begin \/ Exposure!End
         \/ \E k \in Order : \/ Exposure!Mistake(k) \/ Exposure!Send(k)
                             \/ Exposure!Fill(k) \/ Exposure!Leave(k)
<1> USE DEF Cycle, Entry
<1>1. CASE Forget /\ UNCHANGED <<broker, journal>>
  <2>1. /\ pc' = "down" /\ escaped' = {} /\ UNCHANGED <<sent, Pending, Open>>
    BY <1>1, SameLive DEF Forget, broker
  <2> QED
    BY <2>1 DEF Exposure!End, Exposure!exposure
<1>2. CASE Resume
  <2>1. /\ pc = "resume" /\ pc' = "update" /\ UNCHANGED <<sent, escaped, Pending, Open>>
    BY <1>2, SameLive DEF Resume, broker, traded
  <2>2. Exposure!Exposed \subseteq Exposure!Mirrored \cup escaped
    <3>1. \A k \in Live \ escaped : IsMirrored(k) /\ k \in Order
      BY <2>1 DEF IInv, ExposureInv, Live, Open, Pending
    <3> QED
      BY <3>1, ExposureMeans
  <2> QED
    BY <2>1, <2>2 DEF Exposure!Begin, Exposure!exposure
<1>3. CASE ReconcileRestart
  <2>1. /\ pc = "restart" /\ pc' = "resume" /\ UNCHANGED <<sent, Pending, Open>>
    BY <1>3, SameLive DEF ReconcileRestart, broker
  <2> QED
    BY <1>3, <2>1, RestartImplements
<1>4. CASE SendOrder
  BY <1>4, SendImplements, SendFacts
<1>5. ASSUME NEW k \in Order, Fill(k) \/ Cancel(k) \/ BrokerClose(k)
      PROVE  \E n \in Order : Exposure!Fill(n) \/ Exposure!Leave(n)
  BY <1>5, BrokerImplements
<1>6. CASE UpdatePosition
  <2>1. /\ pc = "update" /\ pc' = "refresh" /\ UNCHANGED <<sent, Pending, Open>>
    BY <1>6, SameLive DEF UpdatePosition, broker
  <2>2. UNCHANGED escaped
    <3> SUFFICES ASSUME NEW p \in OpenPositions(journal),
                        journal' = [journal EXCEPT ![p.symbol] =
                                      Append(@, CloseEvent(p, NoOrder, now))]
                 PROVE  FALSE
      BY <1>6, UpdateStep
    <3>1. p.symbol \in Symbol /\ journal \in [Symbol -> Seq(Event)]
      BY OpenFacts DEF IInv, TypeOK
    <3>2. journal[p.symbol] = Append(journal[p.symbol], CloseEvent(p, NoOrder, now))
      BY <3>1
    <3>3. Len(journal[p.symbol]) \in Nat
      BY <3>1
    <3>4. Len(Append(journal[p.symbol], CloseEvent(p, NoOrder, now)))
            = Len(journal[p.symbol]) + 1
      BY <3>1
    <3> QED
      BY <3>2, <3>3, <3>4
  <2> QED
    BY <2>1, <2>2
<1>7. CASE ApplyClosure
  <2>1. /\ pc = "apply" /\ pc' = "post positions" /\ UNCHANGED <<sent, Pending, Open, escaped>>
    BY <1>7, SameLive DEF ApplyClosure, broker, traded
  <2> QED
    BY <2>1
<1>8. CASE OpenShadow
  <2> SUFFICES FALSE
    OBVIOUS
  <2>1. /\ OpenPositions(journal) = {}
        /\ \E s \in Symbol : OpenPositions(journal') = {PositionOf(s, confirmed)}
    BY <1>8, OpenStep
  <2> QED
    BY <2>1
<1>9. CASE /\ UNCHANGED <<broker, journal, escaped>>
           /\ pc' \in Cycle \cup Entry <=> pc \in Cycle \cup Entry
  <2>1. UNCHANGED <<sent, Pending, Open>>
    BY <1>9, SameLive DEF broker
  <2> QED
    BY <1>9, <2>1
<1> QED
  BY ExposureFrame, <1>1, <1>2, <1>3, <1>4, <1>5, <1>6, <1>7, <1>8, <1>9

\* A closed mirror is settled.
LEMMA CloseImplements ==
  ASSUME IInv, [Next]_vars, NEW p \in OpenPositions(journal), NEW c \in Event,
         c.kind = "close", journal' = [journal EXCEPT ![p.symbol] = Append(@, c)],
         OpenPositions(journal') = {},
         OrderOf(p) \in Live => pc \in Cycle \cup Entry,
         escaped' = escaped \cup (Live \cap {OrderOf(p)})
  PROVE  OrderOf(p) \in Order /\ Exposure!Settle(OrderOf(p))
<1> DEFINE k == OrderOf(p)
<1>1. /\ Mirroring[k] = {"open"}
      /\ Mirroring' = [Mirroring EXCEPT ![k] = {"open", "close"}]
  BY MirroringSettles
<1>2. k \in Order
  BY OpenFacts DEF IInv
<1>3. Exposure!Exposed = Live
  BY ExposureMeans
<1> HIDE DEF k
<1>4. Exposure!Settle(k)
  BY <1>1, <1>3 DEF Exposure!Settle, Mirroring, k
<1> QED
  BY <1>2, <1>4 DEF k

LEMMA ExposureStep ==
  ASSUME IInv, [Next]_vars
  PROVE  [Exposure!Next]_Exposure!vars
<1> SUFFICES Exposure!Next
  OBVIOUS
<1>1. CASE UNCHANGED journal
  BY <1>1, MirroringStays, UnmirroredStep DEF Exposure!Next, Exposure!exposure, Mirroring
<1>2. CASE ApplyClosure /\ UNCHANGED broker
  <2>1. PICK p \in OpenPositions(journal), k \in 1 .. sent :
          /\ k = OrderOf(p)
          /\ journal' = [journal EXCEPT ![p.symbol] = Append(@, CloseEvent(p, k, closed[k]))]
          /\ CloseEvent(p, k, closed[k]) \in Event /\ k \notin Live
          /\ OpenPositions(journal') = {}
    BY <1>2, ClosureStep
  <2>2. CloseEvent(p, k, closed[k]).kind = "close"
    BY DEF CloseEvent
  <2>3. /\ pc = "apply" /\ pc' = "post positions" /\ UNCHANGED <<sent, Pending, Open, escaped>>
    BY <1>2, SameLive DEF ApplyClosure, broker, traded
  <2>4. OrderOf(p) \in Order /\ Exposure!Settle(OrderOf(p))
    BY <2>1, <2>2, <2>3, CloseImplements
  <2>5. (pc' \in Cycle \cup Entry) = (pc \in Cycle \cup Entry)
    <3>1. pc \notin Cycle \cup Entry /\ pc' \notin Cycle \cup Entry
      BY <2>3 DEF Cycle, Entry
    <3> QED
      BY <3>1
  <2> QED
    BY <2>3, <2>4, <2>5 DEF Exposure!Next, Exposure!exposure
<1>3. CASE UpdatePosition /\ UNCHANGED broker /\ ~UNCHANGED journal
  <2>1. PICK p \in OpenPositions(journal) :
          /\ journal' = [journal EXCEPT ![p.symbol] = Append(@, CloseEvent(p, NoOrder, now))]
          /\ CloseEvent(p, NoOrder, now) \in Event
          /\ escaped' = escaped \cup (Live \cap {OrderOf(p)})
          /\ OpenPositions(journal') = {}
    BY <1>3, UpdateStep
  <2>2. CloseEvent(p, NoOrder, now).kind = "close"
    BY DEF CloseEvent
  <2>3. /\ pc = "update" /\ pc' = "refresh" /\ UNCHANGED <<sent, Pending, Open>>
    BY <1>3, SameLive DEF UpdatePosition, broker
  <2>4. pc \in Cycle \cup Entry /\ pc' \in Cycle \cup Entry
    BY <2>3 DEF Cycle
  <2>5. OrderOf(p) \in Order /\ Exposure!Settle(OrderOf(p))
    BY <2>1, <2>2, <2>4, CloseImplements
  <2> QED
    BY <2>3, <2>4, <2>5 DEF Exposure!Next, Exposure!exposure
<1>4. CASE OpenShadow /\ UNCHANGED broker
  <2>1. /\ Mirroring[confirmed] = {}
        /\ Mirroring' = [Mirroring EXCEPT ![confirmed] = {"open"}]
    BY <1>4, MirroringOpens
  <2>2. /\ pc = "mirror" /\ pc' = "opened" /\ UNCHANGED <<sent, Pending, Open>>
        /\ escaped' = escaped \ {confirmed}
    BY <1>4, SameLive DEF OpenShadow, broker
  <2>3. /\ Live \ escaped \subseteq {confirmed} /\ confirmed \in 1 .. sent
        /\ OpenPositions(journal) = {} /\ confirmed \in Order
    BY <1>4, <2>2, OpenStep DEF IInv, ExposureInv
  <2>4. Exposure!Exposed = Live /\ Exposure!Mirrored = {}
    BY <2>3, ExposureMeans
  <2>5. Exposure!Mirror(confirmed)
    BY <2>1, <2>2, <2>3, <2>4 DEF Exposure!Mirror, Mirroring, Entry
  <2> QED
    BY <2>2, <2>3, <2>5 DEF Exposure!Next, Exposure!exposure, Entry
<1> QED
  BY JournalFrame, <1>1, <1>2, <1>3, <1>4

-----------------------------------------------------------------------------
\* The theorems

\* Every variable keeps its type, however often sessions, broker and market
\* stop, reconnect and go on.
THEOREM TypeCorrect == Spec => []TypeOK
<1>1. IInv => TypeOK
  BY DEF IInv
<1> QED
  BY Invariant, <1>1, PTL

\* Of the live orders a polling session has not lost sight of, there is one at
\* most, and none when it sends the next.
THEOREM OneExposureAtMost == Spec => []OneExposure
BY Invariant, InvariantExposure, PTL

\* The journals hold at most one position, that of an order that was opened,
\* and the portfolio check of a running session finds its memory in agreement.
THEOREM JournalsAgreeWithOrders == Spec => []JournalsAgree
BY Invariant, InvariantJournals, PTL

\* A polling session mirrors whatever the broker still holds, earlier sessions'
\* orders included, except for what it lost sight of itself.
THEOREM ExposureIsMirrored == Spec => []BrokerIsMirrored
BY Invariant, InvariantMirrored, PTL

\* A closure from the deal history is the closure of that very order.
THEOREM ClosureIsTheDeal == Spec => []OfflineClosureIsTheDeal
<1>1. IInv => OfflineClosureIsTheDeal
  BY DEF IInv
<1> QED
  BY Invariant, <1>1, PTL

\* No bar of a symbol is traded twice.
THEOREM OneOrderForABar == Spec => []OneOrderPerBar
BY Invariant, InvariantBars, PTL

\* The sessions implement MirroredExposure: an order is sent over nothing but
\* what the session lost sight of, and no session begins over what another lost.
THEOREM SessionsImplementExposure == Spec => ImplementsExposure
<1>1. Init => Exposure!Init
  BY ExposureInit
<1>2. IInv /\ [Next]_vars => [Exposure!Next]_Exposure!vars
  BY ExposureStep
<1> QED
  BY Invariant, <1>1, <1>2, PTL DEF Spec, ImplementsExposure, Exposure!Spec
=============================================================================
