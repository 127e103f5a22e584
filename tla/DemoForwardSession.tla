------------------------ MODULE DemoForwardSession ------------------------
(***************************************************************************)
(* The long-running demo-forward session, with the broker, the market and  *)
(* the operator around it.                                                 *)
(*                                                                         *)
(* A session started with --demo-forward compares what the broker holds    *)
(* with the shadow position journals, settles a position the broker closed *)
(* while no session was running, and then polls: it sends one market order *)
(* at most, mirrors the confirmed broker position in a journal, and closes *)
(* the mirror when a tick reaches its stop or target.  Whatever the code   *)
(* raises ends the session, so that it is a Stop, which may also be a      *)
(* crash or Ctrl-C, between any two steps.  The kill switch, the market    *)
(* gate, the analysis of the candles and the sizing of a trade are refusals*)
(* that may come at any reading.                                           *)
(*                                                                         *)
(* The session does not always see what the broker does: an order answered *)
(* with an error may be placed or filled all the same, a tick may close    *)
(* the mirror of a position the broker still holds, a pending order may be *)
(* filled between the two readings of a gate, and a gate may take one      *)
(* order for another.  "escaped" is a history variable that no guard       *)
(* reads: the live orders the running session has lost in this way.        *)
(*                                                                         *)
(* Assumed of the environment: the lists of the broker are current, a      *)
(* login to another account breaks the attachment to the terminal, and no  *)
(* second session runs.                                                    *)
(***************************************************************************)
EXTENDS ShadowPortfolio

CONSTANTS Priority,     \* Priority[s]: rank of s in the symbol list
          MaxOrders,    \* bound on the orders sent
          BarLength,    \* length of a bar
          EntryWindow,  \* largest delay of the tick an entry is watched at
          MaxResidual,  \* largest age of a tick of the confirmed time domain
          LegacySymbol, \* symbols whose journal may hold an open of an earlier version
          LegacyDelay,  \* largest delay of the entry deal of a legacy open
          Last,         \* last instant
          LastBar       \* LastBar[s]: last bar of s that is quoted

ASSUME SessionAssumption ==
  /\ Priority \in [Symbol -> Nat]
  /\ Symbol # {} /\ \A s, t \in Symbol : Priority[s] = Priority[t] => s = t
  /\ MaxOrders \in Nat /\ Last \in Nat /\ BarLength \in Nat \ {0}
  /\ LegacySymbol \subseteq Symbol /\ (LegacySymbol # {} => MaxOrders >= 1)
  /\ EntryWindow \in Nat /\ MaxResidual \in Nat /\ LegacyDelay \in Nat

Order == 1 .. MaxOrders
None == -1
Instant == 0 .. Last
Modes == {"trade", "reconcile"}

VARIABLES
  now,
  latest, prior,    \* latest[s], prior[s]: the forming bar of s and the one before it
  account,          \* the account the terminal answers for, "none" if it does not
  (* the broker *)
  sent,             \* orders sent so far
  status,           \* status[k]: what became of order k
  symbolOf, barOf,  \* symbolOf[k], barOf[k]: what order k was sent for
  opened, closed,   \* opened[k], closed[k]: the instants of its deals, or None
  (* durable *)
  journal,          \* journal[s]: shadow position journal of s
  (* the session *)
  pc, mode,
  memory,           \* the position in memory
  seenPositions, seenOrders,  \* the last reading of the broker
  deals,            \* entry and exit deal of the recovered position
  anchor,           \* anchor[s]: the bar s was last looked at
  enabled,
  due,              \* due[s]: the new bar of s in this cycle, or None
  chained,          \* symbols whose new bar follows their anchor
  candidates, selected,
  confirmed,        \* the broker position an order led to
  escaped           \* history: live orders this session has lost sight of

market == <<now, latest, prior>>
broker == <<sent, status, symbolOf, barOf, opened, closed>>
reading == <<seenPositions, seenOrders, deals>>
bars == <<anchor, enabled>>
cycle == <<due, chained, candidates, selected>>
traded == <<confirmed, escaped>>
session == <<pc, mode, memory, reading, bars, cycle, traded>>
vars == <<market, account, broker, journal, session>>

Event == [kind : {"open", "close"}, bar : Instant, order : Order \cup {NoOrder}, epoch : Instant]
Position == [symbol : Symbol, bar : Instant, order : Order \cup {NoOrder}, epoch : Instant]
Deal == [order : Order, exit : Instant \cup {None}]

Startup == {"positions", "orders", "journals", "deals",
            "closure positions", "closure orders", "closure",
            "recheck positions", "recheck orders", "recheck",
            "apply", "post positions", "post orders", "post", "restart", "resume"}
Cycle == {"update", "refresh", "health", "transitions", "snapshots", "candidates",
          "arbitrate", "watch", "policy", "check", "check orders", "end"}
Entry == {"send", "confirm", "mirror", "opened"}

TypeOK ==
  /\ now \in Instant
  /\ latest \in [Symbol -> Instant] /\ prior \in [Symbol -> Instant \cup {None}]
  /\ account \in {"demo", "real", "none"}
  /\ sent \in 0 .. MaxOrders
  /\ status \in [Order -> {"unsent", "void", "pending", "open", "closed"}]
  /\ symbolOf \in [Order -> Symbol] /\ barOf \in [Order -> Instant]
  /\ opened \in [Order -> Instant \cup {None}]
  /\ closed \in [Order -> Instant \cup {None}]
  /\ journal \in [Symbol -> Seq(Event)]
  /\ pc \in {"down"} \cup Startup \cup Cycle \cup Entry
  /\ mode \in Modes
  /\ memory \subseteq Position
  /\ seenPositions \subseteq Order /\ seenOrders \subseteq Order
  /\ deals \subseteq Deal
  /\ anchor \in [Symbol -> Instant] /\ enabled \subseteq Symbol
  /\ due \in [Symbol -> Instant \cup {None}]
  /\ chained \subseteq Symbol /\ candidates \subseteq Symbol /\ selected \subseteq Symbol
  /\ confirmed \in Order \cup {NoOrder}
  /\ escaped \subseteq Order

Attached == account # "none"

Open == {k \in Order : status[k] = "open"}
Pending == {k \in Order : status[k] = "pending"}
Live == Open \cup Pending

NoBar == [s \in Symbol |-> None]

EmptySession ==
  /\ pc = "down" /\ mode = "trade"
  /\ memory = {} /\ seenPositions = {} /\ seenOrders = {} /\ deals = {}
  /\ anchor = [s \in Symbol |-> 0] /\ enabled = {}
  /\ due = NoBar /\ chained = {} /\ candidates = {} /\ selected = {}
  /\ confirmed = NoOrder /\ escaped = {}

Forget ==
  /\ pc' = "down" /\ mode' = "trade"
  /\ memory' = {} /\ seenPositions' = {} /\ seenOrders' = {} /\ deals' = {}
  /\ anchor' = [s \in Symbol |-> 0] /\ enabled' = {}
  /\ due' = NoBar /\ chained' = {} /\ candidates' = {} /\ selected' = {}
  /\ confirmed' = NoOrder /\ escaped' = {}

\* An open of an earlier version, which did not record the broker identity.
LegacyOpen == [kind |-> "open", bar |-> 0, order |-> NoOrder, epoch |-> 0]

\* The journals are empty, or s holds a legacy open of order 1.
Legacy(s) ==
  /\ sent = 1
  /\ status = [k \in Order |-> IF k = 1 THEN "open" ELSE "unsent"]
  /\ symbolOf = [k \in Order |-> s]
  /\ opened = [k \in Order |-> IF k = 1 THEN 0 ELSE None]
  /\ journal = [t \in Symbol |-> IF t = s THEN <<LegacyOpen>> ELSE <<>>]

Fresh ==
  /\ sent = 0
  /\ status = [k \in Order |-> "unsent"]
  /\ symbolOf = [k \in Order |-> CHOOSE s \in Symbol : TRUE]
  /\ opened = [k \in Order |-> None]
  /\ journal = [t \in Symbol |-> <<>>]

Init ==
  /\ now = 0
  /\ latest = [s \in Symbol |-> 0] /\ prior = NoBar
  /\ account = "demo"
  /\ barOf = [k \in Order |-> 0]
  /\ closed = [k \in Order |-> None]
  /\ Fresh \/ \E s \in LegacySymbol : Legacy(s)
  /\ EmptySession

-----------------------------------------------------------------------------
\* Startup

\* The command line and the demo account.
StartSession(m) ==
  /\ pc = "down"
  /\ account = "demo"
  /\ mode' = m
  /\ pc' = "positions"
  /\ UNCHANGED <<market, account, broker, journal, memory, reading, bars, cycle, traded>>

\* What the broker holds under the session's magic number; None is an error.
Positions(from, to) ==
  /\ pc = from
  /\ Attached
  /\ seenPositions' = Open
  /\ pc' = to
  /\ UNCHANGED <<market, account, broker, journal, mode, memory, seenOrders, deals, bars,
                 cycle, traded>>

Orders(from, to) ==
  /\ pc = from
  /\ Attached
  /\ seenOrders' = Pending
  /\ pc' = to
  /\ UNCHANGED <<market, account, broker, journal, mode, memory, seenPositions, deals, bars,
                 cycle, traded>>

Flat == seenPositions = {} /\ seenOrders = {}

ReadPositions == Positions("positions", "orders")
ReadOrders == Orders("orders", "journals")

\* Both recoveries of every journal have the same positions, one at most.
RecoveriesAgree == PortfolioConsistent(journal, OpenPositions(journal))

\* Symbols that could not be observed or have no history stay disabled.
EnableUsable ==
  \E usable \in SUBSET Symbol : usable # {} /\ enabled' = IF mode = "trade" THEN usable ELSE {}

\* Mutation: the anchor is not set to the forming bar.
RecoverWithoutAnchor ==
  /\ pc = "journals"
  /\ RecoveriesAgree
  /\ EnableUsable
  /\ pc' = IF seenPositions = {} /\ OpenPositions(journal) # {} THEN "deals" ELSE "restart"
  /\ UNCHANGED <<market, account, broker, journal, mode, memory, reading, anchor, cycle,
                 traded>>

\* The anchor of a symbol is its forming bar.
RecoverJournals ==
  /\ pc = "journals"
  /\ RecoveriesAgree
  /\ EnableUsable
  /\ anchor' = IF mode = "trade" THEN latest ELSE anchor
  /\ pc' = IF seenPositions = {} /\ OpenPositions(journal) # {} THEN "deals" ELSE "restart"
  /\ UNCHANGED <<market, account, broker, journal, mode, memory, reading, cycle, traded>>

HistoryOf(k) == {d \in Deal : d.order = k /\ d.exit = closed[k] /\ opened[k] # None}

\* The one deal a legacy open can have led to, none if it is not unique.
LegacyHistory(p) ==
  LET Entries == {k \in Order : /\ symbolOf[k] = p.symbol
                                /\ opened[k] # None
                                /\ opened[k] - p.epoch \in 0 .. LegacyDelay}
  IN  IF Cardinality(Entries) = 1 THEN UNION {HistoryOf(k) : k \in Entries} ELSE {}

\* A legacy open is only looked up by a reconciliation that may do so; without
\* the operator's permission the code raises.
ReadDeals ==
  /\ pc = "deals"
  /\ Attached
  /\ \E p \in OpenPositions(journal) :
       /\ p.order = NoOrder => mode = "reconcile"
       /\ deals' = IF p.order # NoOrder THEN HistoryOf(p.order) ELSE LegacyHistory(p)
  /\ pc' = "closure positions"
  /\ UNCHANGED <<market, account, broker, journal, mode, memory, seenPositions, seenOrders, bars,
                 cycle, traded>>

ReadClosurePositions == Positions("closure positions", "closure orders")
ReadClosureOrders == Orders("closure orders", "closure")

\* Does deal d confirm that the broker closed position p?
ConfirmsClosure(p, d) ==
  /\ d.order = p.order
  /\ symbolOf[d.order] = p.symbol
  /\ d.exit > p.epoch
  /\ opened[d.order] = p.epoch

ConfirmsLegacyClosure(p, d) ==
  /\ p.order = NoOrder
  /\ symbolOf[d.order] = p.symbol
  /\ opened[d.order] - p.epoch \in 0 .. LegacyDelay
  /\ d.exit > opened[d.order]

\* The recovered position is gone at the broker, by its own deals.
ReconcileClosure ==
  /\ pc = "closure"
  /\ Flat
  /\ \E p \in OpenPositions(journal), d \in deals :
       \/ ConfirmsClosure(p, d) /\ pc' = "apply"
       \/ ConfirmsLegacyClosure(p, d) /\ pc' = "recheck positions"
  /\ UNCHANGED <<market, account, broker, journal, mode, memory, reading, bars, cycle, traded>>

\* Once more under the identity that was found.
RecheckPositions == Positions("recheck positions", "recheck orders")
RecheckOrders == Orders("recheck orders", "recheck")

RecheckLegacyClosure ==
  /\ pc = "recheck"
  /\ Flat
  /\ \E p \in OpenPositions(journal), d \in deals : ConfirmsLegacyClosure(p, d)
  /\ pc' = "apply"
  /\ UNCHANGED <<market, account, broker, journal, mode, memory, reading, bars, cycle, traded>>

CloseEvent(p, k, t) == [kind |-> "close", bar |-> p.bar, order |-> k, epoch |-> t]

\* Mutation: the closure is stamped with the time of the reconciliation.
ApplyClosureNow ==
  /\ pc = "apply"
  /\ \E p \in OpenPositions(journal), d \in deals :
       journal' = [journal EXCEPT ![p.symbol] = Append(@, CloseEvent(p, d.order, now))]
  /\ pc' = "post positions"
  /\ UNCHANGED <<market, account, broker, mode, memory, reading, bars, cycle, traded>>

\* The closure carries the broker identity and the exit of the deal.
ApplyClosure ==
  /\ pc = "apply"
  /\ \E p \in OpenPositions(journal), d \in deals :
       journal' = [journal EXCEPT ![p.symbol] = Append(@, CloseEvent(p, d.order, d.exit))]
  /\ pc' = "post positions"
  /\ UNCHANGED <<market, account, broker, mode, memory, reading, bars, cycle, traded>>

ReadPostPositions == Positions("post positions", "post orders")
ReadPostOrders == Orders("post orders", "post")

\* Nothing may be open anywhere after a closure was applied.
FinishClosure ==
  /\ pc = "post"
  /\ PortfolioConsistent(journal, {})
  /\ Flat
  /\ pc' = "resume"
  /\ UNCHANGED <<market, account, broker, journal, mode, memory, reading, bars, cycle, traded>>

\* Does position p mirror the broker position k?
Matches(p, k) == symbolOf[k] = p.symbol /\ opened[k] = p.epoch

\* The order that an event or a position is of; a legacy open is of the first.
OrderOf(e) == IF e.order = NoOrder THEN 1 ELSE e.order

\* Was position p opened for order k?  The restart gate compares no tickets.
Mirrors(p, k) == Matches(p, k) /\ OrderOf(p) = k

\* Mutation: a broker position without a shadow position passes.
ShadowMayBeMissing ==
  /\ seenOrders = {}
  /\ Cardinality(seenPositions) <= 1
  /\ Cardinality(OpenPositions(journal)) <= Cardinality(seenPositions)
  /\ \A p \in OpenPositions(journal), k \in seenPositions : Matches(p, k)

\* Mutation: a pending order passes.
OrderMayBePending ==
  /\ Cardinality(seenPositions) <= 1
  /\ Cardinality(OpenPositions(journal)) = Cardinality(seenPositions)
  /\ \A p \in OpenPositions(journal), k \in seenPositions : Matches(p, k)

\* Nothing on either side, or one position on each that mirrors the other.
BothSidesAgree ==
  /\ seenOrders = {}
  /\ Cardinality(seenPositions) <= 1
  /\ Cardinality(OpenPositions(journal)) = Cardinality(seenPositions)
  /\ \A p \in OpenPositions(journal), k \in seenPositions : Matches(p, k)

\* Orders that pass for the order of a recovered position.
Mistaken == {k \in Open \cap seenPositions : \E p \in OpenPositions(journal) : ~Mirrors(p, k)}

ReconcileRestart ==
  /\ pc = "restart"
  /\ BothSidesAgree
  /\ escaped' = escaped \cup Mistaken
  /\ pc' = "resume"
  /\ UNCHANGED <<market, account, broker, journal, mode, memory, reading, bars, cycle, confirmed>>

\* The namespace before the demo session's is one that nobody writes.
Predecessor == {}
PredecessorConsumed == FALSE

\* The recovered position is the one in memory; the readings are done with.
TakeOver ==
  /\ Cardinality(OpenPositions(journal)) <= MaxOpenShadowPositions
  /\ memory' = OpenPositions(journal)
  /\ seenPositions' = {} /\ seenOrders' = {} /\ deals' = {}

\* A reconciliation ends here; a session takes the recovered position over.
Resume ==
  /\ pc = "resume"
  /\ mode = "trade"
  /\ ContinuityAllows(OpenPositions(journal), Predecessor, PredecessorConsumed)
  /\ TakeOver
  /\ pc' = "update"
  /\ UNCHANGED <<market, account, broker, journal, mode, bars, cycle, traded>>

EndReconciliation ==
  /\ pc = "resume"
  /\ mode # "trade"
  /\ Forget
  /\ UNCHANGED <<market, account, broker, journal>>

-----------------------------------------------------------------------------
\* The polling loop

\* A tick reaches the stop or target of the mirror; what became of the position
\* at the broker is not asked.
CloseMirror(p) ==
  /\ escaped' = escaped \cup {k \in Live : Mirrors(p, k)}
  /\ journal' = [journal EXCEPT ![p.symbol] = Append(@, CloseEvent(p, NoOrder, now))]

\* Mutation: the closed position stays in memory.
UpdateWithoutReset ==
  /\ pc = "update"
  /\ \/ UNCHANGED <<journal, escaped>>
     \/ \E p \in memory : CloseMirror(p)
  /\ pc' = "refresh"
  /\ UNCHANGED <<market, account, broker, mode, memory, reading, bars, cycle, confirmed>>

UpdatePosition ==
  /\ pc = "update"
  /\ \/ UNCHANGED <<journal, memory, escaped>>
     \/ memory' = {} /\ \E p \in memory : CloseMirror(p)
  /\ pc' = "refresh"
  /\ UNCHANGED <<market, account, broker, mode, reading, bars, cycle, confirmed>>

\* A portfolio that cannot be recovered blocks the cycle.
RefreshPortfolio ==
  /\ pc = "refresh"
  /\ pc' = IF PortfolioConsistent(journal, memory) THEN "health" ELSE "update"
  /\ UNCHANGED <<market, account, broker, journal, mode, memory, reading, bars, cycle, traded>>

\* The time limit ends a session that holds no position.
EndSession ==
  /\ pc \in {"update", "health"}
  /\ memory = {}
  /\ Forget
  /\ UNCHANGED <<market, account, broker, journal>>

\* A lost attachment is initialized again, or cannot be.
Reconnect == account' \in IF Attached THEN {account} ELSE {"demo", "real", "none"}

\* A cycle that reconnects goes on only with a demo account, a later one asks
\* for an account and no more.
AcceptsAccount == account' = "real" => Attached

\* The kill switch may refuse as well; the portfolio was recovered just before.
Healthy == account' # "none"

\* What the runtime supervisor makes of its heartbeat is left open here.
Supervised == {"update", "transitions"}

CheckHealth ==
  /\ pc = "health"
  /\ Reconnect
  /\ \/ pc' = "update"
     \/ /\ AcceptsAccount
        /\ Healthy
        /\ pc' \in Supervised
  /\ UNCHANGED <<market, broker, journal, mode, memory, reading, bars, cycle, traded>>

\* The enabled symbols with a new bar.
FindTransitions ==
  /\ pc = "transitions"
  /\ due' = [s \in Symbol |->
               IF s \in enabled /\ Attached /\ latest[s] > anchor[s] THEN latest[s] ELSE None]
  /\ chained' = {s \in Symbol : due'[s] # None /\ prior[s] = anchor[s]}
  /\ pc' = IF due' = NoBar THEN "update" ELSE "snapshots"
  /\ UNCHANGED <<market, account, broker, journal, mode, memory, reading, bars, candidates,
                 selected, traded>>

\* Without authority or history a bar is passed over; an error disables.
TakeSnapshots ==
  /\ pc = "snapshots"
  /\ \E passed, failed \in SUBSET {s \in Symbol : due[s] # None} :
       /\ passed \cap failed = {}
       /\ anchor' = [s \in Symbol |-> IF s \in passed THEN due[s] ELSE anchor[s]]
       /\ enabled' = enabled \ failed
       /\ due' = [s \in Symbol |-> IF s \in passed \cup failed THEN None ELSE due[s]]
  /\ pc' = "candidates"
  /\ UNCHANGED <<market, account, broker, journal, mode, memory, reading, chained, candidates,
                 selected, traded>>

InTimeDomain(tick) == tick <= now /\ now - tick <= MaxResidual
InWindow(bar, tick) == tick - bar \in 0 .. EntryWindow

\* Some tick of the confirmed time domain falls into the window of the bar.
Timely(bar) == \E tick \in Instant : InTimeDomain(tick) /\ InWindow(bar, tick)

\* The snapshots whose analysis completes may have a frozen signal.
Analysed == SUBSET {s \in Symbol : due[s] # None}

\* The bar follows the one of the signal and is looked at in its window.
MayEnter(s) == s \in chained /\ Timely(due[s])

\* Symbols whose frozen signal may enter at their new bar.
BuildCandidates ==
  /\ pc = "candidates"
  /\ \E signalled \in Analysed : candidates' = {s \in signalled : MayEnter(s)}
  /\ chained' = {}
  /\ pc' = "arbitrate"
  /\ UNCHANGED <<market, account, broker, journal, mode, memory, reading, bars, due, selected,
                 traded>>

Eligible(C) == {s \in C : GovernorAllows(s, OpenPositions(journal))}
FirstOf(C) == {s \in C : \A t \in C : Priority[s] <= Priority[t]}

\* A closed market, an old quote or a wide spread may refuse any candidate.
MarketGate(C) == SUBSET C

\* An open position locks the portfolio; the first eligible symbol wins.
Arbitrate ==
  /\ pc = "arbitrate"
  /\ \E allowed \in MarketGate(Eligible(candidates)) :
       selected' = IF memory = {} THEN FirstOf(allowed) ELSE {}
  /\ candidates' = {}
  /\ pc' = IF selected' = {} THEN "end" ELSE "watch"
  /\ UNCHANGED <<market, account, broker, journal, mode, memory, reading, bars, due, chained,
                 traded>>

\* The entry is watched again on a tick of its own.
WatchedAgain(s) == Timely(due[s])

FinalWatch ==
  /\ pc = "watch"
  /\ \E s \in selected : pc' = IF WatchedAgain(s) THEN "policy" ELSE "end"
  /\ UNCHANGED <<market, account, broker, journal, mode, memory, reading, bars, cycle, traded>>

\* Nothing of the cycle is kept when the portfolio or the safety state
\* refuses, not even that the bar was looked at.
Again ==
  /\ due' = NoBar /\ chained' = {} /\ candidates' = {} /\ selected' = {}
  /\ pc' = "update"

PolicyStands == PortfolioConsistent(journal, memory) /\ Eligible(selected) = selected

\* The governor asks for the terminal, the account and the time authority.
EntrySafe == Attached

FinalPolicy ==
  /\ pc = "policy"
  /\ \/ Again
     \/ /\ pc' = "end"
        /\ UNCHANGED cycle
     \/ /\ PolicyStands
        /\ EntrySafe
        /\ pc' = "check"
        /\ UNCHANGED cycle
  /\ UNCHANGED <<market, account, broker, journal, mode, memory, reading, bars, traded>>

DuplicateIn(held) == \E k \in held : symbolOf[k] \in selected

\* The trade may have no valid size, the account has to be a demo account, and
\* no position of the symbol may be open, of the session or not.
CheckPositions ==
  /\ pc = "check"
  /\ \/ pc' = "end"
     \/ account = "demo" /\ ~DuplicateIn(Open) /\ pc' = "check orders"
  /\ UNCHANGED <<market, account, broker, journal, mode, memory, reading, bars, cycle, traded>>

\* Nor may an order of it be pending; the order may be checked and refused.
CheckOrder ==
  /\ pc = "check orders"
  /\ \/ pc' = "end"
     \/ Attached /\ ~DuplicateIn(Pending) /\ pc' = "send"
  /\ UNCHANGED <<market, account, broker, journal, mode, memory, reading, bars, cycle, traded>>

\* Order k of symbol s gets the fate the broker decides on.
Place(k, s, fate) ==
  /\ sent' = k
  /\ status' = [status EXCEPT ![k] = fate]
  /\ symbolOf' = [symbolOf EXCEPT ![k] = s]
  /\ barOf' = [barOf EXCEPT ![k] = due[s]]
  /\ opened' = [opened EXCEPT ![k] = IF fate = "open" THEN now ELSE None]
  /\ UNCHANGED closed

\* What may become of an order that is not reported done.
Fates == {"void"} \cup IF Attached THEN {"pending", "open"} ELSE {}

\* An answer that is missing or partial ends the session.
PostSendFailStop(s) ==
  /\ \E fate \in Fates : Place(sent + 1, s, fate)
  /\ Forget

\* Any other answer is a refusal, a timeout and an order that was only placed
\* included; the session goes on as if nothing had been sent.
Refused(s) ==
  /\ \E fate \in Fates :
       /\ Place(sent + 1, s, fate)
       /\ escaped' = escaped \cup IF fate = "void" THEN {} ELSE {sent + 1}
  /\ pc' = "end"
  /\ UNCHANGED <<mode, memory, reading, bars, cycle, confirmed>>

Done(s) ==
  /\ Attached
  /\ Place(sent + 1, s, "open")
  /\ pc' = "confirm"
  /\ UNCHANGED <<mode, memory, reading, bars, cycle, traded>>

SendOrder ==
  /\ pc = "send"
  /\ sent < MaxOrders
  /\ \E s \in selected : Done(s) \/ Refused(s) \/ PostSendFailStop(s)
  /\ UNCHANGED <<market, account, journal>>

\* Positions of the symbol with the volume, stop and target of the order: its
\* own, and those of earlier orders that happen to have the same.
Matching(s) ==
  LET Own == {sent} \cap Open
  IN  {Own \cup others : others \in SUBSET {n \in Open : symbolOf[n] = s}}

\* Exactly one such position, the one to be mirrored.
ConfirmPosition ==
  /\ pc = "confirm"
  /\ Attached
  /\ \E s \in selected : \E k \in Open : {k} \in Matching(s) /\ confirmed' = k
  /\ pc' = "mirror"
  /\ UNCHANGED <<market, account, broker, journal, mode, memory, reading, bars, cycle, escaped>>

PositionOf(s, k) == [symbol |-> s, bar |-> due[s], order |-> k, epoch |-> opened[k]]

OpenEvent(s, k) == [kind |-> "open", bar |-> due[s], order |-> k, epoch |-> opened[k]]

\* The mirror takes over what the broker confirmed.
OpenShadow ==
  /\ pc = "mirror"
  /\ \E s \in selected :
       /\ journal' = [journal EXCEPT ![s] = Append(@, OpenEvent(s, confirmed))]
       /\ memory' = {PositionOf(s, confirmed)}
  /\ escaped' = escaped \ {confirmed}
  /\ pc' = "opened"
  /\ UNCHANGED <<market, account, broker, mode, reading, bars, cycle, confirmed>>

\* A portfolio that cannot be recovered after an open stops the session.
PostOpen ==
  /\ pc = "opened"
  /\ PortfolioConsistent(journal, memory)
  /\ pc' = "end"
  /\ UNCHANGED <<market, account, broker, journal, mode, memory, reading, bars, cycle, traded>>

\* Mutation: symbols without a new bar lose their anchor.
EndCycleUnguarded ==
  /\ pc = "end"
  /\ anchor' = due
  /\ Again
  /\ confirmed' = NoOrder
  /\ UNCHANGED <<market, account, broker, journal, mode, memory, reading, enabled, escaped>>

\* Every bar of the cycle has been looked at.
EndCycle ==
  /\ pc = "end"
  /\ anchor' = [s \in Symbol |-> IF due[s] # None /\ anchor[s] < due[s]
                                 THEN due[s] ELSE anchor[s]]
  /\ Again
  /\ confirmed' = NoOrder
  /\ UNCHANGED <<market, account, broker, journal, mode, memory, reading, enabled, escaped>>

\* An exception, a crash or Ctrl-C.
Stop ==
  /\ pc # "down"
  /\ Forget
  /\ UNCHANGED <<market, account, broker, journal>>

-----------------------------------------------------------------------------
\* The environment

Tick ==
  /\ now < Last
  /\ now' = now + 1
  /\ UNCHANGED <<latest, prior, account, broker, journal, session>>

BarAt(t) == t - (t % BarLength)

\* The first quote of a bar shows the bar.
Quote(s) ==
  /\ latest[s] < BarAt(now) /\ BarAt(now) <= LastBar[s]
  /\ latest' = [latest EXCEPT ![s] = BarAt(now)]
  /\ prior' = [prior EXCEPT ![s] = latest[s]]
  /\ UNCHANGED <<now, account, broker, journal, session>>

\* Between the two readings a session is started on.
BetweenReadings == pc \in {"orders", "post orders"}

Fill(k) ==
  /\ status[k] = "pending"
  /\ status' = [status EXCEPT ![k] = "open"]
  /\ opened' = [opened EXCEPT ![k] = now]
  /\ escaped' = escaped \cup IF BetweenReadings THEN {k} ELSE {}
  /\ UNCHANGED <<market, account, sent, symbolOf, barOf, closed, journal, pc, mode, memory,
                 reading, bars, cycle, confirmed>>

Cancel(k) ==
  /\ status[k] = "pending"
  /\ status' = [status EXCEPT ![k] = "void"]
  /\ UNCHANGED <<market, account, sent, symbolOf, barOf, opened, closed, journal, session>>

\* Stop, target or a manual close.
BrokerClose(k) ==
  /\ status[k] = "open"
  /\ status' = [status EXCEPT ![k] = "closed"]
  /\ closed' = [closed EXCEPT ![k] = now]
  /\ UNCHANGED <<market, account, sent, symbolOf, barOf, opened, journal, session>>

Disconnect ==
  /\ Attached
  /\ account' = "none"
  /\ UNCHANGED <<market, broker, journal, session>>

\* The terminal is attached again, to any account, for the next session.
Reattach ==
  /\ pc = "down"
  /\ ~Attached
  /\ account' \in {"demo", "real"}
  /\ UNCHANGED <<market, broker, journal, session>>

-----------------------------------------------------------------------------
Start == \E m \in Modes : StartSession(m)

Reconciliation ==
  \/ ReadPositions \/ ReadOrders \/ RecoverJournals \/ ReadDeals
  \/ ReadClosurePositions \/ ReadClosureOrders \/ ReconcileClosure
  \/ RecheckPositions \/ RecheckOrders \/ RecheckLegacyClosure
  \/ ApplyClosure \/ ReadPostPositions \/ ReadPostOrders \/ FinishClosure
  \/ ReconcileRestart \/ Resume \/ EndReconciliation

Polling ==
  \/ UpdatePosition \/ RefreshPortfolio \/ EndSession \/ CheckHealth
  \/ FindTransitions \/ TakeSnapshots \/ BuildCandidates \/ Arbitrate
  \/ FinalWatch \/ FinalPolicy \/ CheckPositions \/ CheckOrder \/ SendOrder
  \/ ConfirmPosition \/ OpenShadow \/ PostOpen \/ EndCycle

Environment ==
  \/ Tick \/ Disconnect \/ Reattach
  \/ \E s \in Symbol : Quote(s)
  \/ \E k \in Order : Fill(k) \/ Cancel(k) \/ BrokerClose(k)

Next == Start \/ Reconciliation \/ Polling \/ Stop \/ Environment

Spec == Init /\ [][Next]_vars

-----------------------------------------------------------------------------
\* Properties

\* "Maximum one global position" is kept at the broker as far as the session
\* can see: of the live orders it has not lost sight of, one is left at most
\* while it polls, and none when it sends the next one
\* (run_sprint92h14_7_demo_forward_session.py, adapter and restart gate).
OneExposure ==
  /\ pc \in Cycle \cup Entry => \A k, n \in Live \ escaped : k = n
  /\ pc = "send" => Live \subseteq escaped

\* A position is open in the journals for an order that was sent for its
\* symbol, at its bar or, if another order was taken for it, before, and was
\* opened at its epoch; a running session holds the position of the journals
\* in memory, so that the portfolio check, which is to catch a damaged journal,
\* never fires on the session's own doing.
JournalsAgree ==
  /\ \A p \in OpenPositions(journal) : \E k \in 1 .. sent :
       Mirrors(p, k) /\ barOf[k] <= p.bar
  /\ PortfolioConsistent(journal,
       IF pc \in Cycle \cup Entry THEN memory ELSE OpenPositions(journal))

\* Outside the steps between an order and its mirror, a session that polls
\* holds the mirror of every live order but those it lost sight of itself:
\* whatever an earlier session left at the broker, refused, unanswered or with
\* its mirror closed by a tick, keeps the next one from starting.
BrokerIsMirrored ==
  pc \in Cycle => \A k \in Live \ escaped : \E p \in memory : Mirrors(p, k)

\* A closure written from deal history is the deal of that very position: the
\* order it was opened for and the exit of that order, not those of another
\* order of the symbol (demo_broker_offline_closure_reconciler.py).
OfflineClosureIsTheDeal ==
  \A s \in Symbol : \A i \in DOMAIN journal[s] :
    LET e == journal[s][i]
    IN  e.kind = "close" /\ e.order # NoOrder =>
          /\ symbolOf[e.order] = s
          /\ closed[e.order] = e.epoch /\ opened[e.order] < e.epoch
          /\ \E j \in 1 .. i - 1 :
               /\ journal[s][j].kind = "open" /\ journal[s][j].bar = e.bar
               /\ OrderOf(journal[s][j]) = e.order

\* A bar of a symbol is traded once at most, by whatever sessions: the
\* position identifier, which names symbol and bar, is never used twice.
OneOrderPerBar ==
  \A k, n \in 1 .. sent :
    symbolOf[k] = symbolOf[n] /\ barOf[k] = barOf[n] => k = n

\* What the journals record of the position that mirrors order k.
Record(k) ==
  LET j == journal[symbolOf[k]]
      Opens(e) == e.kind = "open" /\ OrderOf(e) = k
  IN  {j[n].kind : n \in {m \in DOMAIN j : \E i \in DOMAIN j : Opens(j[i]) /\ j[i].bar = j[m].bar}}

Exposure == INSTANCE MirroredExposure
              WITH sent <- 1 .. sent, resting <- Pending, held <- Open,
                   mirror <- [k \in Order |-> Record(k)],
                   polling <- pc \in Cycle \cup Entry

\* The sessions, the broker and the market implement the exposure of
\* MirroredExposure: an order goes out over nothing but what the session lost
\* sight of, and no session begins polling over what an earlier one lost.
ImplementsExposure == Exposure!Spec
=============================================================================
