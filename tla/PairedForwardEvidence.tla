---------------------- MODULE PairedForwardEvidence ----------------------
(***************************************************************************)
(* PairedForwardEvidenceCollector with the processes that drive it: the    *)
(* fresh continuous supervisor, the bounded boundary collector and the     *)
(* recovery-only lifecycle manager.  The runner lease admits one of them   *)
(* at a time; each is a single thread, so what interleaves with it is the  *)
(* clock, the market, and its own death between two durable writes.  The   *)
(* market is the time of the latest MT5 tick: it may lag behind the clock, *)
(* and it is what a snapshot carries.                                      *)
(*                                                                         *)
(* Durable are the paired evidence journal (events .. terminal) and, in a  *)
(* file of its own for every branch, the virtual position journal (pos,    *)
(* close).  One durable append is one step, and a process may stop before  *)
(* or after each of them.  That an append is atomic and is never lost once *)
(* it has returned is what IndexedShadowTradeJournal is about.             *)
(*                                                                         *)
(* Time is counted in instants.  Instant 0 precedes the activation; the    *)
(* two second entry window of pair p is instant EntryAt[p]; the final M15  *)
(* bar is FinalBar .. End-1; from End on (the clock saturates there) the   *)
(* experiment is over.                                                     *)
(***************************************************************************)
EXTENDS Integers, FiniteSets

CONSTANTS Pair,       \* observation pairs: one per symbol and boundary
          EntryAt,    \* EntryAt[p]: the instant of p's entry window
          FinalBar,   \* first instant of the final eligible M15 bar
          End,        \* exclusive end of the experiment
          MaxStops    \* bound on crashes and unforced exceptions

ASSUME PairAssumption == Pair # {}
ASSUME TimeAssumption ==
  /\ End \in Nat /\ FinalBar \in 1 .. End - 1
  /\ EntryAt \in [Pair -> 1 .. End - 1]
ASSUME StopAssumption == MaxStops \in Nat

None == -1
Branch == {"baseline", "candidate"}
Phase == {"decision", "entry_input", "entry", "boundary_authority", "settlement"}
Instant == 0 .. End
AnyPair == CHOOSE p \in Pair : TRUE

VARIABLES
  (* paired evidence journal *)
  events,    \* events[p]: the phases of p with a durable event
  eligible,  \* eligible[p]: branches the frozen decision can activate
  actual,    \* actual[p]: branches the entry event calls actual trades
  input,     \* input[p][b]: instant of the frozen terminal input, or None
  terminal,  \* terminal[p][b]: instant of the terminal event, or None
  (* virtual position journals *)
  pos,       \* pos[p][b]: "none", "open" or "closed"
  close,     \* close[p][b]: instant of the POSITION_CLOSED event, or None
  (* files next to the evidence: the index and the operations journals *)
  ledger,    \* "pristine", "used" by some command, or "finished"
  (* the running process *)
  mode,      \* which command holds the runner lease
  pc,        \* the durable write it is heading for
  queue,     \* pairs whose entry outcome is still to be committed
  todo,      \* branches this lifecycle pass has still to visit
  at, arm,   \* the pair and the branch being worked on
  obs,       \* market time of the snapshots at hand, None when replaying
  opened,    \* branches found or made open while committing an entry
  (* environment *)
  now,       \* the UTC clock
  market,    \* time of the latest tick and bar MT5 publishes
  stops      \* crashes and exceptions so far

evidence == <<events, eligible, actual, input, terminal>>
journals == <<pos, close>>
process == <<mode, pc, queue, todo, at, arm, obs, opened>>
environment == <<now, market, stops>>
vars == <<evidence, journals, ledger, process, environment>>

TypeOK ==
  /\ events \in [Pair -> SUBSET Phase]
  /\ eligible \in [Pair -> SUBSET Branch]
  /\ actual \in [Pair -> SUBSET Branch]
  /\ input \in [Pair -> [Branch -> Instant \cup {None}]]
  /\ terminal \in [Pair -> [Branch -> Instant \cup {None}]]
  /\ pos \in [Pair -> [Branch -> {"none", "open", "closed"}]]
  /\ close \in [Pair -> [Branch -> Instant \cup {None}]]
  /\ ledger \in {"pristine", "used", "finished"}
  /\ mode \in {"down", "supervise", "collect", "manage"}
  /\ pc \in {"idle", "next", "entry", "intent", "write", "baseline",
             "candidate", "record", "preflight", "branch", "update", "close", "terminal",
             "settle", "audit"}
  /\ queue \subseteq Pair
  /\ todo \subseteq Pair \X Branch
  /\ at \in Pair
  /\ arm \in Branch
  /\ obs \in Instant \cup {None}
  /\ opened \subseteq Branch
  /\ now \in Instant
  /\ market \in Instant
  /\ stops \in 0 .. MaxStops

-----------------------------------------------------------------------------
(* Queries over the durable evidence. *)

Has(p, phase) == phase \in events[p]
Pending == {p \in Pair : Has(p, "decision") /\ ~Has(p, "entry")}
Outstanding ==
  {x \in Pair \X Branch :
     /\ Has(x[1], "entry")
     /\ x[2] \in actual[x[1]]
     /\ terminal[x[1]][x[2]] = None}
\* Mutation: the first terminal branch makes the pair ready.
ReadyAtFirstTerminal ==
  {p \in Pair :
     /\ Has(p, "entry") /\ ~Has(p, "settlement")
     /\ \E b \in actual[p] : terminal[p][b] # None}
Ready ==
  {p \in Pair :
     /\ Has(p, "entry") /\ ~Has(p, "settlement")
     /\ actual[p] # {}
     /\ \A b \in actual[p] : terminal[p][b] # None}

\* The two second window of the next candle.
InEntryWindow(p) == now = EntryAt[p]

Init ==
  /\ events = [p \in Pair |-> {}]
  /\ eligible = [p \in Pair |-> {}]
  /\ actual = [p \in Pair |-> {}]
  /\ input = [p \in Pair |-> [b \in Branch |-> None]]
  /\ terminal = [p \in Pair |-> [b \in Branch |-> None]]
  /\ pos = [p \in Pair |-> [b \in Branch |-> "none"]]
  /\ close = [p \in Pair |-> [b \in Branch |-> None]]
  /\ ledger = "pristine"
  /\ mode = "down" /\ pc = "idle"
  /\ queue = {} /\ todo = {}
  /\ at = AnyPair /\ arm = "baseline"
  /\ obs = None /\ opened = {}
  /\ now = 0 /\ market = 0 /\ stops = 0

-----------------------------------------------------------------------------
(* Process life: start, raise, die. *)

Launch(m, step, pairs) ==
  /\ mode = "down"
  /\ mode' = m /\ pc' = step /\ queue' = pairs
  /\ todo' = {} /\ obs' = None /\ opened' = {}
  /\ at' = AnyPair /\ arm' = "baseline"
  /\ ledger' = IF ledger = "pristine" THEN "used" ELSE ledger
  /\ UNCHANGED <<evidence, journals, environment>>

\* A fresh run: before activation, with no trace of an earlier command.
StartSupervisor ==
  /\ now = 0 /\ ledger = "pristine"
  /\ Launch("supervise", "idle", {})

\* Mutation: the collector may be started inside the window.
StartCollectorLate(p) ==
  /\ now <= EntryAt[p]
  /\ Pending = {} /\ Outstanding = {}
  /\ Launch("collect", "idle", {q \in Pair : EntryAt[q] = EntryAt[p]})

\* The bounded collector is given the pairs of one boundary, must be ready
\* before it, and refuses while a lifecycle needs attention.
StartCollector(p) ==
  /\ now < EntryAt[p]
  /\ Pending = {} /\ Outstanding = {}
  /\ Launch("collect", "idle", {q \in Pair : EntryAt[q] = EntryAt[p]})

\* Mutation: recovery goes straight to the frozen terminal inputs.
StartManagerWithoutEntries ==
  /\ now >= 1
  /\ Launch("manage", "next", {})

\* Recovery mode: every pending entry first, then the frozen inputs.
StartManager ==
  /\ now >= 1
  /\ Launch("manage", "next", Pending)

\* The process unwinds: durable state stays, everything in memory is gone.
Unwind ==
  /\ mode' = "down" /\ pc' = "idle"
  /\ queue' = {} /\ todo' = {} /\ obs' = None /\ opened' = {}
  /\ at' = AnyPair /\ arm' = "baseline"

\* A crash, a blocked valuation, a stale authority, a broker context change:
\* whatever ends the process between two durable writes.
Stop ==
  /\ mode # "down" /\ stops < MaxStops
  /\ stops' = stops + 1
  /\ Unwind
  /\ UNCHANGED <<evidence, journals, ledger, now, market>>

\* The clock runs whether or not a process does.
Tick ==
  /\ now < End
  /\ now' = now + 1
  /\ UNCHANGED <<evidence, journals, ledger, process, market, stops>>

\* A tick and the current M15 bar reach the terminal.
MarketTick ==
  /\ market < now
  /\ market' = now
  /\ UNCHANGED <<evidence, journals, ledger, process, now, stops>>

-----------------------------------------------------------------------------
(* A decision boundary: both symbols captured, then decided and entered.   *)

Due == {p \in Pair : InEntryWindow(p)}
Undecided == {p \in Pair : ~Has(p, "decision")}

\* Mutation: the bar of the boundary need not be published yet.
CaptureBoundaryEarly ==
  /\ pc = "idle" /\ Due # {}
  /\ \/ mode = "supervise" /\ {p \in Undecided : EntryAt[p] <= now} = Due
     \/ mode = "collect" /\ queue = Due
  /\ queue' = Due /\ obs' = market /\ pc' = "next"
  /\ UNCHANGED <<evidence, journals, ledger, mode, todo, at, arm, opened, environment>>

CaptureBoundary ==
  /\ pc = "idle" /\ market = now /\ Due # {}
  /\ \/ mode = "supervise" /\ {p \in Undecided : EntryAt[p] <= now} = Due
     \/ mode = "collect" /\ queue = Due
  /\ queue' = Due /\ obs' = market /\ pc' = "next"
  /\ UNCHANGED <<evidence, journals, ledger, mode, todo, at, arm, opened, environment>>

\* No backfill: a boundary that was slept through, or whose bar was not
\* published in time, ends the command.
MissBoundary ==
  /\ pc = "idle"
  /\ \/ mode = "supervise" /\ \E p \in Undecided : EntryAt[p] < now
     \/ mode = "collect" /\ \E p \in queue : EntryAt[p] < now
  /\ Unwind
  /\ UNCHANGED <<evidence, journals, ledger, environment>>

\* The engines fix which branches may trade; the candidate only filters the
\* baseline.  The pair is new here (see FreshBoundary), so the event is too.
CollectDecision(p) ==
  /\ mode \in {"supervise", "collect"} /\ pc = "next" /\ p \in queue
  /\ \E E \in SUBSET Branch :
       /\ "candidate" \in E => "baseline" \in E
       /\ eligible' = [eligible EXCEPT ![p] = E]
  /\ events' = [events EXCEPT ![p] = @ \cup {"decision"}]
  /\ at' = p /\ pc' = "entry"
  /\ UNCHANGED <<actual, input, terminal, journals, ledger,
                 mode, queue, todo, arm, obs, opened, environment>>

\* resume_pending_entry: only the frozen decision, no new market data.
ResumePending(p) ==
  /\ mode = "manage" /\ pc = "next" /\ p \in queue
  /\ at' = p /\ pc' = "entry"
  /\ UNCHANGED <<evidence, journals, ledger, mode, queue, todo, arm, obs, opened, environment>>

\* Leaving the entry of pair at behind.
EntryDone == pc' = "next" /\ queue' = queue \ {at} /\ UNCHANGED <<mode, todo, at, arm, obs>>

\* The window passed before the intent was durable: both branches are
\* recorded as no trade.  A collecting command then fails.
RecordMissedEntry ==
  /\ events' = [events EXCEPT ![at] = @ \cup {"entry"}]
  /\ UNCHANGED <<eligible, actual, input, terminal, journals, ledger, environment>>
  /\ IF mode = "manage" THEN EntryDone /\ UNCHANGED opened ELSE Unwind

\* The entry of pair at is not committed yet (FreshBoundary).
BeginEntry ==
  /\ pc = "entry"
  /\ \/ /\ Has(at, "entry_input")
        /\ pc' = "baseline" /\ opened' = {}
        /\ UNCHANGED <<evidence, journals, ledger, mode, queue, todo, at, arm, obs, environment>>
     \/ /\ ~Has(at, "entry_input") /\ InEntryWindow(at)
        /\ pc' = "intent"
        /\ UNCHANGED <<evidence, journals, ledger, mode, queue, todo, at, arm, obs, opened, environment>>
     \/ /\ ~Has(at, "entry_input") /\ ~InEntryWindow(at)
        /\ RecordMissedEntry

\* Mutation: the deadline is only checked when the entry begins.
WindowUnchecked ==
  /\ pc = "intent"
  /\ pc' = "write"
  /\ UNCHANGED <<evidence, journals, ledger, mode, queue, todo, at, arm, obs, opened, environment>>

\* pre_write_check: the deadline again, with the journal open for append.
RecheckWindow ==
  /\ pc = "intent"
  /\ \/ /\ InEntryWindow(at)
        /\ pc' = "write"
        /\ UNCHANGED <<evidence, journals, ledger, mode, queue, todo, at, arm, obs, opened, environment>>
     \/ ~InEntryWindow(at) /\ RecordMissedEntry

\* The durable write has no guard of its own: by then the window may be over.
FreezeIntent ==
  /\ pc = "write"
  /\ events' = [events EXCEPT ![at] = @ \cup {"entry_input"}]
  /\ pc' = "baseline" /\ opened' = {}
  /\ UNCHANGED <<eligible, actual, input, terminal, journals, ledger,
                 mode, queue, todo, at, arm, obs, environment>>

\* Mutation: a position an earlier process opened is not recovered.
OpenBranchOnce(b) ==
  /\ pc = b
  /\ pc' = IF b = "baseline" THEN "candidate" ELSE "record"
  /\ \/ /\ b \in eligible[at] /\ (b = "candidate" => "baseline" \in opened)
        /\ pos[at][b] = "none"
        /\ opened' = opened \cup {b}
        /\ pos' = [pos EXCEPT ![at][b] = "open"]
     \/ UNCHANGED <<opened, pos>>
  /\ UNCHANGED <<evidence, close, ledger, mode, queue, todo, at, arm, obs, environment>>

\* open_branch: recover the position an earlier process opened, open it, or
\* have the risk calculator block it.
OpenBranch(b) ==
  /\ pc = b
  /\ pc' = IF b = "baseline" THEN "candidate" ELSE "record"
  /\ LET admitted == b \in eligible[at] /\ (b = "candidate" => "baseline" \in opened)
     IN \/ /\ admitted
           /\ opened' = opened \cup {b}
           /\ pos' = [pos EXCEPT ![at][b] = IF @ = "none" THEN "open" ELSE @]
        \/ /\ ~admitted \/ pos[at][b] = "none"
           /\ UNCHANGED <<opened, pos>>
  /\ UNCHANGED <<evidence, close, ledger, mode, queue, todo, at, arm, obs, environment>>

RecordEntry ==
  /\ pc = "record"
  /\ events' = [events EXCEPT ![at] = @ \cup {"entry"}]
  /\ actual' = [actual EXCEPT ![at] = opened]
  /\ EntryDone
  /\ UNCHANGED <<eligible, input, terminal, journals, ledger, opened, environment>>

\* All entries are committed: the supervisor applies the same snapshots to
\* the open lifecycles, the manager replays frozen inputs, the collector ends.
EntriesDone ==
  /\ pc = "next" /\ queue = {}
  /\ \/ /\ mode = "supervise" /\ pc' = "preflight"
        /\ UNCHANGED <<mode, queue, todo, at, arm, obs, opened>>
     \/ /\ mode = "manage" /\ pc' = "branch"
        /\ todo' = {x \in Outstanding : input[x[1]][x[2]] # None}
        /\ UNCHANGED <<mode, queue, at, arm, obs, opened>>
     \/ mode = "collect" /\ Unwind
  /\ UNCHANGED <<evidence, journals, ledger, environment>>

-----------------------------------------------------------------------------
(* A lifecycle pass over the outstanding branches. *)

Poll ==
  /\ pc = "idle"
  /\ \/ mode = "manage" /\ Outstanding # {}
     \/ /\ mode = "supervise" /\ \A p \in Undecided : now < EntryAt[p]
        /\ Outstanding # {} \/ now = End
  /\ obs' = market /\ pc' = "preflight"
  /\ UNCHANGED <<evidence, journals, ledger, mode, queue, todo, at, arm, opened, environment>>

\* Every snapshot and, past the end, every pair's frozen boundary authority is
\* validated before the first lifecycle write.
PreflightHolds ==
  now = End => obs = End /\ \A x \in Outstanding : Has(x[1], "boundary_authority")

Preflight ==
  /\ pc = "preflight" /\ PreflightHolds
  /\ todo' = Outstanding /\ pc' = "branch"
  /\ UNCHANGED <<evidence, journals, ledger, mode, queue, at, arm, obs, opened, environment>>

PreflightFails ==
  /\ pc = "preflight" /\ ~PreflightHolds
  /\ Unwind
  /\ UNCHANGED <<evidence, journals, ledger, environment>>

\* A fresh snapshot from before the end must not be used once it has passed.
Crossed == obs # None /\ obs < End /\ now = End

NextBranch(x) ==
  /\ pc = "branch" /\ x \in todo /\ ~Crossed
  /\ at' = x[1] /\ arm' = x[2] /\ pc' = "update"
  /\ UNCHANGED <<evidence, journals, ledger, mode, queue, todo, obs, opened, environment>>

CrossEnd ==
  /\ pc = "branch" /\ todo # {} /\ Crossed
  /\ Unwind
  /\ UNCHANGED <<evidence, journals, ledger, environment>>

BoundaryDue == obs \in FinalBar .. End - 1 /\ ~Has(at, "boundary_authority")

RecordBoundaryAuthority ==
  /\ pc = "update" /\ BoundaryDue
  /\ events' = [events EXCEPT ![at] = @ \cup {"boundary_authority"}]
  /\ UNCHANGED <<eligible, actual, input, terminal, journals, ledger, process, environment>>

Visited == todo' = todo \ {<<at, arm>>} /\ pc' = "branch"

\* No stop, no target: the position is held.
Hold ==
  /\ pc = "update" /\ ~BoundaryDue
  /\ obs \in 0 .. End - 1 /\ input[at][arm] = None /\ pos[at][arm] = "open"
  /\ Visited
  /\ UNCHANGED <<evidence, journals, ledger, mode, queue, at, arm, obs, opened, environment>>

\* The price that closes the branch is frozen before the branch is closed.
FreezeInput ==
  /\ input[at][arm] = None /\ pos[at][arm] = "open"
  /\ input' = [input EXCEPT ![at][arm] = obs]
  /\ pc' = "close"
  /\ UNCHANGED <<events, eligible, actual, terminal, journals, ledger,
                 mode, queue, todo, at, arm, obs, opened, environment>>

\* A live tick reaches the stop or the target.
FreezeTrigger ==
  /\ pc = "update" /\ ~BoundaryDue
  /\ obs \in 0 .. End - 1
  /\ FreezeInput

\* Past the end: the final completed candle, found under the frozen offset.
FreezeTimebox ==
  /\ pc = "update"
  /\ obs = End /\ Has(at, "boundary_authority")
  /\ FreezeInput

\* A frozen input takes precedence over any snapshot (FreshPassHasNoFrozenInput
\* is why a timebox pass never meets an ordinary one).
ReplayTerminalInput ==
  /\ pc = "update" /\ ~BoundaryDue
  /\ input[at][arm] # None
  /\ \/ pos[at][arm] = "open" /\ pc' = "close"
     \/ pos[at][arm] = "closed" /\ pc' = "terminal"
  /\ UNCHANGED <<evidence, journals, ledger, mode, queue, todo, at, arm, obs, opened, environment>>

\* Mutation: the position closes at the price of now, not the frozen one.
ClosePositionAtMarket ==
  /\ pc = "close"
  /\ pos' = [pos EXCEPT ![at][arm] = "closed"]
  /\ close' = [close EXCEPT ![at][arm] = market]
  /\ pc' = "terminal"
  /\ UNCHANGED <<evidence, ledger, mode, queue, todo, at, arm, obs, opened, environment>>

ClosePosition ==
  /\ pc = "close"
  /\ pos' = [pos EXCEPT ![at][arm] = "closed"]
  /\ close' = [close EXCEPT ![at][arm] = input[at][arm]]
  /\ pc' = "terminal"
  /\ UNCHANGED <<evidence, ledger, mode, queue, todo, at, arm, obs, opened, environment>>

AppendTerminal ==
  /\ pc = "terminal"
  /\ terminal' = [terminal EXCEPT ![at][arm] = close[at][arm]]
  /\ Visited
  /\ UNCHANGED <<events, eligible, actual, input, journals, ledger,
                 mode, queue, at, arm, obs, opened, environment>>

\* Mutation: recovery leaves settling to whoever closed the branches.
PassDoneWithoutSettling ==
  /\ pc = "branch" /\ todo = {}
  /\ pc' = IF mode = "manage" THEN "idle" ELSE "settle"
  /\ UNCHANGED <<evidence, journals, ledger, mode, queue, todo, at, arm, obs, opened, environment>>

PassDone ==
  /\ pc = "branch" /\ todo = {}
  /\ pc' = "settle"
  /\ UNCHANGED <<evidence, journals, ledger, mode, queue, todo, at, arm, obs, opened, environment>>

FinalizeSettlement(p) ==
  /\ pc = "settle" /\ p \in Ready
  /\ events' = [events EXCEPT ![p] = @ \cup {"settlement"}]
  /\ UNCHANGED <<eligible, actual, input, terminal, journals, ledger, process, environment>>

\* Mutation: the pass ends after any number of settlements.
SettlementsDoneEarly ==
  /\ pc = "settle"
  /\ pc' = IF mode = "supervise" /\ obs = End THEN "audit" ELSE "idle"
  /\ UNCHANGED <<evidence, journals, ledger, mode, queue, todo, at, arm, obs, opened, environment>>

SettlementsDone ==
  /\ pc = "settle" /\ Ready = {}
  /\ pc' = IF mode = "supervise" /\ obs = End THEN "audit" ELSE "idle"
  /\ UNCHANGED <<evidence, journals, ledger, mode, queue, todo, at, arm, obs, opened, environment>>

\* The final coverage audit of the supervisor.
FinishSupervisor ==
  /\ pc = "audit"
  /\ Undecided = {} /\ Pending = {} /\ Outstanding = {}
  /\ ledger' = "finished"
  /\ Unwind
  /\ UNCHANGED <<evidence, journals, environment>>

ManagerDone ==
  /\ mode = "manage" /\ pc = "idle" /\ Outstanding = {}
  /\ Unwind
  /\ UNCHANGED <<evidence, journals, ledger, environment>>

Step ==
  \/ CaptureBoundary \/ MissBoundary
  \/ \E p \in Pair : CollectDecision(p) \/ ResumePending(p)
  \/ BeginEntry \/ RecheckWindow \/ FreezeIntent
  \/ \E b \in Branch : OpenBranch(b)
  \/ RecordEntry \/ EntriesDone
  \/ Poll \/ Preflight \/ PreflightFails
  \/ \E x \in Pair \X Branch : NextBranch(x)
  \/ CrossEnd \/ RecordBoundaryAuthority
  \/ Hold \/ FreezeTrigger \/ FreezeTimebox \/ ReplayTerminalInput
  \/ ClosePosition \/ AppendTerminal \/ PassDone
  \/ \E p \in Pair : FinalizeSettlement(p)
  \/ SettlementsDone \/ FinishSupervisor \/ ManagerDone

Start == StartSupervisor \/ (\E p \in Pair : StartCollector(p)) \/ StartManager

Next == Start \/ Step \/ Stop \/ Tick \/ MarketTick

Spec == Init /\ [][Next]_vars

(* A running command makes progress, the clock and the market move on, and  *)
(* an operator who finds nothing running starts recovery again and again.   *)
FairSpec ==
  /\ Spec
  /\ WF_vars(Step) /\ WF_vars(Tick) /\ WF_vars(MarketTick)
  /\ SF_vars(StartManager)

-----------------------------------------------------------------------------
(* Safety. *)

\* A candidate branch is never counted, and never holds a position, next to a
\* baseline that was not opened, whichever process opened which branch.
CandidateNeedsBaseline ==
  \A p \in Pair :
    /\ "candidate" \in actual[p] => "baseline" \in actual[p]
    /\ pos[p]["candidate"] # "none" => pos[p]["baseline"] # "none"

\* Once an entry is committed, the branches it calls actual trades are exactly
\* those whose position journal holds an opened position: a crash between the
\* two files leaves neither an orphan position nor a trade without one.
NoOrphanPosition ==
  \A p \in Pair, b \in Branch :
    Has(p, "entry") => (b \in actual[p] <=> pos[p][b] # "none")

\* The evidence, the position journal and the frozen input agree on the one
\* instant a branch closed at, and the input comes first.
FrozenSettlement ==
  \A p \in Pair, b \in Branch :
    /\ close[p][b] # None => close[p][b] = input[p][b]
    /\ terminal[p][b] # None => pos[p][b] = "closed" /\ terminal[p][b] = close[p][b]
    /\ pos[p][b] = "closed" <=> close[p][b] # None

\* A settled pair lacks no terminal of an actual trade and no trade at all.
SettlementComplete ==
  \A p \in Pair : Has(p, "settlement") =>
    actual[p] # {} /\ \A b \in actual[p] : terminal[p][b] # None

\* No branch closes before its entry, and one that closes at the exclusive end
\* does so under a broker offset observed during the final bar.
SettlesInsideExperiment ==
  \A p \in Pair, b \in Branch : input[p][b] # None =>
    /\ input[p][b] >= EntryAt[p]
    /\ input[p][b] = End => Has(p, "boundary_authority")

\* The commit path of a new boundary never meets evidence of an earlier
\* command: its "duplicate boundary evidence" failure is unreachable.
FreshBoundary ==
  /\ mode \in {"supervise", "collect"} /\ pc = "next" =>
       \A p \in queue : events[p] = {}
  /\ pc \in {"entry", "intent", "write", "baseline", "candidate", "record"} =>
       Has(at, "decision") /\ ~Has(at, "entry")

\* A finished supervision has every pair decided and entered and every actual
\* trade settled, and it stays so.
FinishedMeansComplete ==
  ledger = "finished" =>
    \A p \in Pair : Has(p, "entry") /\ (actual[p] # {} => Has(p, "settlement"))

\* Durable evidence is never withdrawn or overwritten: not by recovery, not by
\* a replay with different snapshots.
EvidenceIsImmutable ==
  [][\A p \in Pair :
       /\ events[p] \subseteq events'[p]
       /\ Has(p, "decision") => eligible'[p] = eligible[p]
       /\ Has(p, "entry") => actual'[p] = actual[p]
       /\ \A b \in Branch :
            /\ input[p][b] # None => input'[p][b] = input[p][b]
            /\ terminal[p][b] # None => terminal'[p][b] = terminal[p][b]
            /\ close[p][b] # None => close'[p][b] = close[p][b]]_vars

\* The two seconds of p are over, no intent is durable, and no process is past
\* the last look at the clock.
WindowMissed(p) ==
  /\ now > EntryAt[p] /\ ~Has(p, "entry_input")
  /\ ~(pc = "write" /\ at = p)

\* A missed window is missed for good: no command that was still entering, no
\* restart and no recovery freezes an intent or opens a trade after it.
MissedWindowIsFinal ==
  \A p \in Pair :
    [](WindowMissed(p) =>
         [](~Has(p, "entry_input") /\ \A b \in Branch : pos[p][b] = "none"))

-----------------------------------------------------------------------------
(* What the above rests on: an inductive invariant. *)

Entering == {"entry", "intent", "write", "baseline", "candidate", "record"}
Closing == {"update", "close", "terminal"}

\* Phases become durable in their order, and a pair has no trade before its
\* entry event, no decision before its window.
PhasesInOrder ==
  \A p \in Pair :
    /\ events[p] # {} => Has(p, "decision")
    /\ Has(p, "decision") => EntryAt[p] <= now
    /\ Has(p, "settlement") => Has(p, "entry")
    /\ ~Has(p, "entry") => actual[p] = {}

\* Only an eligible branch of a pair with a durable intent has a position.
PositionsFollowIntent ==
  \A p \in Pair, b \in Branch :
    pos[p][b] # "none" => Has(p, "entry_input") /\ b \in eligible[p]

\* The pairs a process has still to enter are untouched, or pending when it
\* recovers them; the collector never comes to a lifecycle pass.
QueueIsFresh ==
  /\ mode = "collect" => pc \in Entering \cup {"idle", "next"}
  /\ mode = "collect" /\ pc = "idle" => \A p \in queue : events[p] = {}
  /\ mode \in {"supervise", "collect"} /\ pc \in Entering \cup {"next"} =>
       \A p \in queue :
         /\ EntryAt[p] <= now
         /\ pc = "next" \/ p # at => events[p] = {}
  /\ mode = "manage" /\ pc \in Entering \cup {"next"} =>
       \A p \in queue : Has(p, "decision") /\ ~Has(p, "entry")

\* What the process remembers of the branches it opened is what is durable.
EntryInProgress ==
  /\ pc \in Entering => Has(at, "decision") /\ ~Has(at, "entry")
  /\ pc \in {"baseline", "candidate", "record"} => Has(at, "entry_input")
  /\ pc \in {"intent", "write"} => ~Has(at, "entry_input")
  /\ pc \in {"candidate", "record"} =>
       ("baseline" \in opened <=> pos[at]["baseline"] # "none")
  /\ pc = "candidate" => "candidate" \notin opened
  /\ pc = "baseline" => opened = {}
  /\ pc = "record" => ("candidate" \in opened <=> pos[at]["candidate"] # "none")

\* A pass only visits entered pairs, and closes what is open with the frozen
\* input at hand.
CloseInProgress ==
  /\ \A x \in todo : Has(x[1], "entry")
  /\ pc \in Closing => Has(at, "entry")
  /\ pc = "close" => pos[at][arm] = "open" /\ input[at][arm] # None
  /\ pc = "terminal" => pos[at][arm] = "closed"

Inductive ==
  /\ TypeOK
  /\ PhasesInOrder /\ PositionsFollowIntent
  /\ QueueIsFresh /\ EntryInProgress /\ CloseInProgress
  /\ CandidateNeedsBaseline /\ NoOrphanPosition
  /\ FrozenSettlement /\ SettlementComplete

-----------------------------------------------------------------------------
(* Refinement and liveness. *)

Stage(p) ==
  CASE Has(p, "settlement") -> "settled"
    [] Has(p, "entry") /\ ~Has(p, "settlement") -> "entered"
    [] Has(p, "decision") /\ ~Has(p, "entry") -> "decided"
    [] OTHER -> "unseen"

Lifecycle == INSTANCE PairLifecycle
  WITH stage <- [p \in Pair |-> Stage(p)], traded <- actual, result <- terminal

\* Seen from the evidence journal alone, every execution is a pair lifecycle:
\* decided, entered, closed branch by branch and settled, each of them once.
ImplementsLifecycle == Lifecycle!Spec

\* One trade without a frozen boundary authority blocks the timebox of every
\* pair: the preflight is over the whole outstanding universe, by design.
Blocked ==
  /\ now = End
  /\ \E x \in Outstanding : input[x[1]][x[2]] = None /\ ~Has(x[1], "boundary_authority")

\* Every actual trade is eventually settled, across crashes and restarts,
\* unless the boundary authority of some trade is missing for good.
TradesSettle ==
  \A p \in Pair :
    (Has(p, "entry") /\ actual[p] # {}) ~> (Has(p, "settlement") \/ Blocked)

\* A decision never stays without its entry outcome.
DecisionsGetEntries == \A p \in Pair : Has(p, "decision") ~> Has(p, "entry")
=============================================================================
