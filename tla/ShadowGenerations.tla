------------------------- MODULE ShadowGenerations -------------------------
(***************************************************************************)
(* The shadow programs one after the other: each is used until the         *)
(* operator moves on to the next, over the journals the others leave.      *)
(***************************************************************************)
EXTENDS LivePolicySession, PortfolioRiskSession, SafetyGovernorSession

StartNamed(list) ==
  \/ generation = LivePolicy /\ PolicyStart(list)
  \/ generation = PortfolioRisk /\ RiskStart(list)
  \/ generation = SafetyGovernor /\ GovernedStart(list)
  \/ generation = LongRunning /\ StartSession(list)

Start ==
  \/ \E list \in SymbolLists : StartNamed(list)
  \/ generation = LivePolicy /\ (PolicyRecover \/ PolicyTakeOver)
  \/ generation = PortfolioRisk /\ (RiskRecover \/ RiskGate)
  \/ generation = SafetyGovernor /\ (GovernedRecover \/ GovernedGate)
  \/ generation = LongRunning /\ LongRunningStart

Polling ==
  \/ generation = LivePolicy /\ PolicyCycle
  \/ generation = PortfolioRisk /\ RiskCycle
  \/ generation = SafetyGovernor /\ GovernedCycle
  \/ generation = LongRunning /\ LongRunningCycle

Operator == StageImport \/ CommitImport \/ AbandonImport \/ NextProgram \/ ToggleSwitch

Market == Quote \/ \E s \in Symbol : NewBar(s)

Next == Start \/ Polling \/ Stop \/ Operator \/ Market

Spec == Init /\ [][Next]_vars

\* The loop of a session does not rest.
FairSpec == Spec /\ WF_vars(Polling)

-----------------------------------------------------------------------------
\* Properties

\* "If an H14.5c position is still open, H14.6 must not start a fresh
\* portfolio as though that exposure did not exist"
\* (run_sprint92h14_6_long_running_shadow_live_session.py:1427): past the gate,
\* what the predecessor left open was carried over.
NoFreshPortfolio ==
  pc \in Loop /\ generation > LivePolicy =>
    \A p \in OpenPositions(journal[generation - 1]) : Imported(generation, p)

\* "an existing Shadow position that MUST remain recoverable and monitorable"
\* (the same file:1089): past the gate, the open position of the namespace is
\* the one in memory, which is what the session monitors.
PositionIsMonitored == pc \in Loop => OpenPositions(journal[generation]) = memory

Opens(g, s, bar) ==
  {i \in DOMAIN journal[g][s] : journal[g][s][i].kind = "open" /\ journal[g][s][i].bar = bar}

\* A position identifier names symbol and bar: it is opened once in a
\* namespace, and by one session of one generation; all others are imports.
\* Restarts, crashes and generations between two bars do not matter.
EachBarOnce ==
  \A s \in Symbol, bar \in Bar :
    /\ \A g \in Generation : \A i, j \in Opens(g, s, bar) : i = j
    /\ \A g, h \in Generation : \A i \in Opens(g, s, bar), j \in Opens(h, s, bar) :
         ~journal[g][s][i].imported /\ ~journal[h][s][j].imported => g = h

\* Time authority is "candidate-specific" (the same file:160-166): at the last
\* gate, which only a candidate with a confirmed authority of its own gets to,
\* the authority that is judged is confirmed.
OwnAuthorityCounts == pc = "governor" => authority

\* A position whose stop or target is reached and stays reached is closed,
\* whatever keeps the session from entering: kill switch, lost terminal,
\* disabled symbol.
ReachedPositionCloses ==
  [](([](pc \in Loop /\ reached)) => <>(OpenPositions(journal[generation]) = {}))

PositionIds(g) ==
  {x \in Symbol \X Bar : \E i \in DOMAIN journal[g][x[1]] : journal[g][x[1]][i].bar = x[2]}

\* The positions there ever were.
KnownIds == UNION {PositionIds(g) : g \in Generation}

\* What became of a position, the last namespace it came into tells.
OpenExposures ==
  {PositionId(p) : p \in UNION {{q \in OpenPositions(journal[g]) :
                                  \A h \in Generation : h > g => PositionId(q) \notin PositionIds(h)} :
                                 g \in Generation}}

Exposures == INSTANCE SingleExposure
               WITH Exposure <- Symbol \X Bar,
                    open <- OpenExposures,
                    done <- KnownIds \ OpenExposures

\* All generations together hold one position at a time, which is opened once
\* and closed once, whatever is stopped, restarted or carried over.
ImplementsSingleExposure == Exposures!Spec
=============================================================================
