------------------------- MODULE ShadowLiveSession -------------------------
(***************************************************************************)
(* The shadow-live sessions, which hold a virtual position and send no     *)
(* orders.  Every generation of the program has a namespace of its own     *)
(* with one position journal per symbol, and reads the one of the          *)
(* generation before it, its predecessor; an operator carries an open      *)
(* position over into the namespace of the program in use.                 *)
(*                                                                         *)
(* A session recovers its journals, takes the recovered position over if   *)
(* the predecessor allows it, and polls: it monitors the position, and     *)
(* opens one if there is none.  Stop is whatever ends it: an exception, a  *)
(* crash, Ctrl-C or the time limit, between any two steps.  The analysis   *)
(* of the candles, the entry window, the sizing of a trade, the heartbeat  *)
(* and an unavailable quote are refusals that may come at any reading; a   *)
(* bar is numbered in the sequence of the trading bars of its symbol.      *)
(*                                                                         *)
(* Assumed of the operator, because the code does not guard against it: a  *)
(* program is used after its predecessor was stopped for good and had once *)
(* got past its own gate, and one session and one import run at a time.    *)
(***************************************************************************)
EXTENDS ShadowPortfolio

CONSTANTS Priority,         \* Priority[s]: rank of s in the symbol list
          FirstGeneration,  \* the program used first
          LastGeneration,   \* and the one used last
          Last,             \* Last[s]: last bar of s
          SymbolLists,      \* the symbol lists a session may be started with
          ImportAnytime     \* may an import run next to a session?

\* The programs that read each other's journals, in the order of their use.
LivePolicy == 0      \* 14.5a
PortfolioRisk == 1   \* 14.5b.1
SafetyGovernor == 2  \* 14.5c
LongRunning == 3     \* 14.6

ASSUME ShadowAssumption ==
  /\ Priority \in [Symbol -> Nat]
  /\ \A s, t \in Symbol : Priority[s] = Priority[t] => s = t
  /\ FirstGeneration \in LivePolicy .. LastGeneration /\ LastGeneration \in LivePolicy .. LongRunning
  /\ Last \in [Symbol -> Nat]
  /\ SymbolLists \subseteq SUBSET Symbol
  /\ ImportAnytime \in BOOLEAN

Generation == 0 .. LastGeneration
Bar == UNION {0 .. Last[s] : s \in Symbol}
None == -1

VARIABLES
  latest,      \* latest[s]: the forming bar of s
  reached,     \* does a valid tick read the stop or target of the position in memory?
  switch,      \* is there a kill switch file?
  generation,  \* the program in use
  entered,     \* did a session of it get past the gate?
  journal,     \* journal[g][s]: position journal of s in namespace g
  staged,      \* the position an import has staged
  (* the session *)
  pc,
  watched,     \* its symbol list
  recovered,   \* the positions it recovered at startup
  memory,      \* the position in memory
  anchor,      \* anchor[s]: the bar s was last looked at
  enabled,
  due,         \* due[s]: the new bar of s in this cycle, or None
  selected,
  authority    \* was the last time authority of the candidates confirmed?

world == <<latest, reached, switch>>
operator == <<generation, entered, staged>>
cycle == <<due, selected, authority>>
session == <<pc, watched, recovered, memory, anchor, enabled, cycle>>
vars == <<world, operator, journal, session>>

Event == [kind : {"open", "close"}, bar : Bar, order : {NoOrder}, epoch : Bar,
          imported : BOOLEAN]
Position == [symbol : Symbol, bar : Bar, order : {NoOrder}, epoch : Bar]

Startup == {"recover", "gate"}
Loop == {"update", "refresh", "health", "supervise", "bars", "snapshots", "candidates",
         "entries", "policy", "watch", "revalidate", "governor", "open", "opened", "end"}

TypeOK ==
  /\ latest \in [Symbol -> Bar]
  /\ reached \in BOOLEAN /\ switch \in BOOLEAN
  /\ generation \in Generation /\ entered \in BOOLEAN
  /\ journal \in [Generation -> [Symbol -> Seq(Event)]]
  /\ staged \subseteq Position
  /\ pc \in {"down"} \cup Startup \cup Loop
  /\ watched \subseteq Symbol /\ recovered \subseteq Position /\ memory \subseteq Position
  /\ anchor \in [Symbol -> Bar] /\ enabled \subseteq Symbol
  /\ due \in [Symbol -> Bar \cup {None}] /\ selected \subseteq Symbol
  /\ authority \in BOOLEAN

NoBar == [s \in Symbol |-> None]

EmptySession ==
  /\ pc = "down" /\ watched = {} /\ recovered = {} /\ memory = {}
  /\ anchor = [s \in Symbol |-> 0] /\ enabled = {}
  /\ due = NoBar /\ selected = {} /\ authority = FALSE

Forget ==
  /\ pc' = "down" /\ watched' = {} /\ recovered' = {} /\ memory' = {}
  /\ anchor' = [s \in Symbol |-> 0] /\ enabled' = {}
  /\ due' = NoBar /\ selected' = {} /\ authority' = FALSE

OpenEvent(bar, imported) ==
  [kind |-> "open", bar |-> bar, order |-> NoOrder, epoch |-> bar, imported |-> imported]

NoEvents == [s \in Symbol |-> <<>>]

\* The program before the first one is over, and may have left a position open.
Init ==
  /\ latest = [s \in Symbol |-> 0]
  /\ reached = FALSE /\ switch = FALSE
  /\ generation = FirstGeneration /\ entered = FALSE /\ staged = {}
  /\ \E open \in {{}} \cup {{s} : s \in Symbol} :
       journal = [g \in Generation |->
                    IF g = FirstGeneration - 1
                    THEN [s \in Symbol |-> IF s \in open THEN <<OpenEvent(0, FALSE)>> ELSE <<>>]
                    ELSE NoEvents]
  /\ EmptySession

\* What a session sees of namespace g.
View(g) == [s \in Symbol |-> IF s \in watched THEN journal[g][s] ELSE <<>>]

\* Did position p come into namespace g by an import?
Imported(g, p) ==
  \E i \in DOMAIN journal[g][p.symbol] :
    journal[g][p.symbol][i].imported /\ journal[g][p.symbol][i].bar = p.bar

-----------------------------------------------------------------------------
\* Startup

StartSession(list) ==
  /\ pc = "down"
  /\ watched' = list
  /\ pc' = "recover"
  /\ UNCHANGED <<world, operator, journal, recovered, memory, anchor, enabled, cycle>>

\* Symbols without a usable feed or history stay disabled.
EnableUsable(seen) == \E usable \in SUBSET seen : usable # {} /\ enabled' = usable

\* Mutation: the anchor is the bar before the forming one.
AnchorBehind ==
  anchor' = [s \in Symbol |-> IF s \in enabled' /\ latest[s] > 0 THEN latest[s] - 1 ELSE 0]

\* An enabled symbol is looked at from its forming bar on.
AnchorEnabled == anchor' = [s \in Symbol |-> IF s \in enabled' THEN latest[s] ELSE 0]

\* The aggregate and the recovery of each journal have the same positions.
RecoveriesAgree(P) == PortfolioConsistent(View(generation), P)

\* Every journal is recovered, whatever the feed of its symbol.
RecoverCurrent ==
  /\ pc = "recover"
  /\ recovered' = OpenPositions(View(generation))
  /\ RecoveriesAgree(recovered')
  /\ EnableUsable(watched)
  /\ AnchorEnabled
  /\ pc' = "gate"
  /\ UNCHANGED <<world, operator, journal, watched, memory, cycle>>

\* What the program before this one left open.
Predecessor == OpenPositions(View(generation - 1))
PredecessorValid == AggregateValid(View(generation - 1))

\* Was it carried over?
Consumed(P) == Cardinality(P) = 1 /\ \A p \in P : Imported(generation, p)

\* Mutation: the position of the predecessor is not looked at.
ContinuesUnchecked(consumed) == TRUE

\* The predecessor holds nothing, or what it holds was carried over and is
\* closed, or is the position recovered here.
Continues(consumed) == ContinuityAllows(recovered, Predecessor, consumed)

\* The session takes the recovered position over.
TakeOver ==
  /\ Cardinality(recovered) <= MaxOpenShadowPositions
  /\ memory' = recovered /\ recovered' = {}
  /\ entered' = TRUE
  /\ pc' = "update"
  /\ UNCHANGED <<world, generation, staged, journal, watched, anchor, enabled, cycle>>

PassGate ==
  /\ pc = "gate"
  /\ PredecessorValid
  /\ Continues(Consumed(Predecessor))
  /\ TakeOver

-----------------------------------------------------------------------------
\* The polling loop

CloseEvent(p) ==
  [kind |-> "close", bar |-> p.bar, order |-> NoOrder, epoch |-> latest[p.symbol],
   imported |-> FALSE]

Close(p) ==
  journal' = [journal EXCEPT ![generation][p.symbol] = Append(@, CloseEvent(p))]

Monitored == {p \in memory : reached}

\* Mutation: a disabled symbol is not monitored.
MonitorEnabledOnly ==
  /\ IF {p \in Monitored : p.symbol \in enabled} = {}
     THEN UNCHANGED <<journal, memory, reached>>
     ELSE memory' = {} /\ reached' = FALSE /\ \E p \in Monitored : Close(p)
  /\ UNCHANGED <<latest, switch, operator, watched, recovered, anchor, enabled, cycle>>

\* The position is monitored first, whatever inhibits an entry later.
Monitor ==
  /\ IF Monitored = {}
     THEN UNCHANGED <<journal, memory, reached>>
     ELSE memory' = {} /\ reached' = FALSE /\ \E p \in Monitored : Close(p)
  /\ UNCHANGED <<latest, switch, operator, watched, recovered, anchor, enabled, cycle>>

UpdatePosition == pc = "update" /\ Monitor /\ pc' = "refresh"

\* The journals say what is in memory.
Refreshed == RecoveriesAgree(memory)

\* A portfolio that cannot be recovered blocks the cycle.
RefreshPortfolio ==
  /\ pc = "refresh"
  /\ pc' = IF Refreshed THEN "health" ELSE "update"
  /\ UNCHANGED <<world, operator, journal, watched, recovered, memory, anchor, enabled, cycle>>

\* The watchdog before the candidates; terminal and account may block too.
Healthy == ~switch

CheckHealth ==
  /\ pc = "health"
  /\ \/ pc' = "update"
     \/ Healthy /\ pc' = "supervise"
  /\ UNCHANGED <<world, operator, journal, watched, recovered, memory, anchor, enabled, cycle>>

\* A heartbeat that is stale blocks one cycle.
Supervise ==
  /\ pc = "supervise"
  /\ pc' \in {"update", "bars"}
  /\ UNCHANGED <<world, operator, journal, watched, recovered, memory, anchor, enabled, cycle>>

\* The bars that began since the anchor, if they are read.
FindTransitions ==
  /\ pc = "bars"
  /\ \E seen \in SUBSET {s \in enabled : latest[s] > anchor[s]} :
       /\ due' = [s \in Symbol |-> IF s \in seen THEN latest[s] ELSE None]
       /\ pc' = IF seen = {} THEN "update" ELSE "snapshots"
  /\ UNCHANGED <<world, operator, journal, watched, recovered, memory, anchor, enabled,
                 selected, authority>>

Due == {s \in Symbol : due[s] # None}

\* Without time authority or history a bar is passed over; a snapshot that
\* fails disables its symbol.
TakeSnapshots ==
  /\ pc = "snapshots"
  /\ \E outcome \in [Due -> {"taken", "passed", "failed"}] :
       LET With(o) == {s \in Due : outcome[s] = o}
       IN  /\ anchor' = [s \in Symbol |-> IF s \in With("passed") THEN due[s] ELSE anchor[s]]
           /\ enabled' = enabled \ With("failed")
           /\ due' = [s \in Symbol |-> IF s \in With("taken") THEN due[s] ELSE None]
  /\ pc' = "candidates"
  /\ UNCHANGED <<world, operator, journal, watched, recovered, memory, selected, authority>>

\* The snapshots are analysed in parallel; some have a frozen signal.
Analysed == SUBSET Due

FirstOf(C) == {s \in C : \A t \in C : Priority[s] <= Priority[t]}
LastOf(C) == {s \in C : \A t \in C : Priority[t] <= Priority[s]}

\* Symbols with a signal ask, in the order of the list, for a time authority of
\* their own, which is answered and confirmed or not.
AskAuthorities ==
  /\ pc = "candidates"
  /\ \E signalled \in Analysed : \E answered \in SUBSET signalled :
       \E confirmed \in SUBSET answered :
         /\ selected' = confirmed
         /\ authority' = (answered # {} /\ LastOf(answered) \subseteq confirmed)
  /\ pc' = "entries"
  /\ UNCHANGED <<world, operator, journal, watched, recovered, memory, anchor, enabled, due>>

\* The new bar of s is the one after the bar of the signal.
Chained(s) == due[s] = anchor[s] + 1

\* Those whose entry window is open are the candidates.
WatchEntries ==
  /\ pc = "entries"
  /\ selected' \in SUBSET {s \in selected : Chained(s)}
  /\ authority' = (authority /\ selected' # {})
  /\ pc' = "policy"
  /\ UNCHANGED <<world, operator, journal, watched, recovered, memory, anchor, enabled, due>>

\* An open position locks the portfolio, else the first eligible candidate
\* wins.  Past the gate only the session writes the journals it has read.
Choose(portfolio) ==
  /\ pc = "policy"
  /\ \E eligible \in SUBSET {s \in selected : GovernorAllows(s, portfolio)} :
       selected' = IF memory = {} THEN FirstOf(eligible) ELSE {}
  /\ pc' = IF selected' = {} THEN "end" ELSE "watch"
  /\ UNCHANGED <<world, operator, journal, watched, recovered, memory, anchor, enabled, due,
                 authority>>

Arbitrate == Choose(OpenPositions(View(generation)))

\* The entry window once more, with a time authority of the selected symbol.
WatchedAgain(s) == Chained(s)

FinalWatch ==
  /\ pc = "watch"
  /\ \/ pc' = "end"
     \/ (\A s \in selected : WatchedAgain(s)) /\ pc' = "revalidate"
  /\ UNCHANGED <<world, operator, journal, watched, recovered, memory, anchor, enabled, cycle>>

\* Nothing of the cycle is kept when the portfolio or the safety state
\* refuses, not even that the bar was looked at.
Again ==
  /\ due' = NoBar /\ selected' = {} /\ authority' = FALSE
  /\ pc' = "update"

\* The portfolio and the policy again.
RevalidateEntry ==
  /\ pc = "revalidate"
  /\ \/ pc' = "end" /\ UNCHANGED cycle
     \/ ~Refreshed /\ Again
     \/ /\ Refreshed
        /\ \A s \in selected : GovernorAllows(s, OpenPositions(View(generation)))
        /\ pc' = "governor"
        /\ UNCHANGED cycle
  /\ UNCHANGED <<world, operator, journal, watched, recovered, memory, anchor, enabled>>

Safe == ~switch /\ authority

\* The last gate, which is given the authority of the last candidate looked
\* at; it also refuses without terminal or account.
FinalGovernor ==
  /\ pc = "governor"
  /\ \/ Again
     \/ Safe /\ pc' = "open" /\ UNCHANGED cycle
  /\ UNCHANGED <<world, operator, journal, watched, recovered, memory, anchor, enabled>>

\* The sizing may still refuse.
OpenSelected(next) ==
  /\ pc = "open"
  /\ \/ pc' = "end" /\ UNCHANGED <<journal, memory>>
     \/ /\ \E s \in selected :
             /\ journal' = [journal EXCEPT ![generation][s] = Append(@, OpenEvent(due[s], FALSE))]
             /\ memory' = {[symbol |-> s, bar |-> due[s], order |-> NoOrder, epoch |-> due[s]]}
        /\ pc' = next
  /\ UNCHANGED <<world, operator, watched, recovered, anchor, enabled, cycle>>

OpenShadow == OpenSelected("opened")

\* A portfolio that cannot be recovered after an open stops the session.
PostOpen ==
  /\ pc = "opened"
  /\ Refreshed
  /\ pc' = "end"
  /\ UNCHANGED <<world, operator, journal, watched, recovered, memory, anchor, enabled, cycle>>

\* Mutation: symbols without a new bar lose their anchor.
EndCycleUnguarded ==
  /\ pc = "end"
  /\ anchor' = due
  /\ Again
  /\ UNCHANGED <<world, operator, journal, watched, recovered, memory, enabled>>

EndCycle ==
  /\ pc = "end"
  /\ anchor' = [s \in Symbol |-> IF anchor[s] < due[s] THEN due[s] ELSE anchor[s]]
  /\ Again
  /\ UNCHANGED <<world, operator, journal, watched, recovered, memory, enabled>>

Stop ==
  /\ pc # "down"
  /\ Forget
  /\ reached' = FALSE
  /\ UNCHANGED <<latest, switch, operator, journal>>

-----------------------------------------------------------------------------
\* The operator

MayImport == ImportAnytime \/ pc = "down"

\* A position is imported once, into a journal without events.
Importable(p) ==
  /\ p \in OpenPositions(journal[generation - 1])
  /\ ~Imported(generation, p)
  /\ journal[generation][p.symbol] = <<>>

StageImport ==
  /\ MayImport
  /\ staged = {} /\ generation > LivePolicy
  /\ \E p \in Position : Importable(p) /\ staged' = {p}
  /\ UNCHANGED <<world, generation, entered, journal, session>>

\* The staged file replaces the journal if that still has no event; nothing
\* can write to it between that test and the replacement, because no session
\* of its symbol is past the gate.
CommitImport ==
  /\ MayImport
  /\ \E p \in staged :
       /\ journal[generation][p.symbol] = <<>>
       /\ journal' = [journal EXCEPT ![generation][p.symbol] = <<OpenEvent(p.bar, TRUE)>>]
  /\ staged' = {}
  /\ UNCHANGED <<world, generation, entered, session>>

\* A failed check or a crash: the staged file is never looked at again.
AbandonImport ==
  /\ staged # {}
  /\ staged' = {}
  /\ UNCHANGED <<world, generation, entered, journal, session>>

NextProgram ==
  /\ pc = "down" /\ staged = {}
  /\ entered
  /\ generation < LastGeneration
  /\ generation' = generation + 1
  /\ entered' = FALSE
  /\ UNCHANGED <<world, staged, journal, session>>

ToggleSwitch ==
  /\ switch' = ~switch
  /\ UNCHANGED <<latest, reached, operator, journal, session>>

-----------------------------------------------------------------------------
\* The market

NewBar(s) ==
  /\ latest[s] < Last[s]
  /\ latest' = [latest EXCEPT ![s] = @ + 1]
  /\ UNCHANGED <<reached, switch, operator, journal, session>>

Quote ==
  /\ memory # {}
  /\ reached' = ~reached
  /\ UNCHANGED <<latest, switch, operator, journal, session>>

-----------------------------------------------------------------------------
LongRunningStart == RecoverCurrent \/ PassGate

LongRunningCycle ==
  \/ UpdatePosition \/ RefreshPortfolio \/ CheckHealth \/ Supervise
  \/ FindTransitions \/ TakeSnapshots \/ AskAuthorities \/ WatchEntries \/ Arbitrate
  \/ FinalWatch \/ RevalidateEntry \/ FinalGovernor
  \/ OpenShadow \/ PostOpen \/ EndCycle
=============================================================================
