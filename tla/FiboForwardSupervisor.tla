----------------------- MODULE FiboForwardSupervisor -----------------------
(***************************************************************************)
(* The FIBO forward supervisor: one run over an activated window, which    *)
(* decides both symbols at every M15 boundary it observes live, skips      *)
(* those it does not, and waits while a feed stands still.                 *)
(*                                                                         *)
(* Both feeds publish bars when they like, at most Skew ahead of the wall  *)
(* clock, and may leave bars out.  A capture reads BTCUSD and then ETHUSD. *)
(* Whatever the code raises, a broker context that fails validation        *)
(* included, ends the run with an audit record; a kill ends it with none.  *)
(* The wall clock does not step back.                                      *)
(***************************************************************************)
EXTENDS Integers, Sequences, FiniteSetsExt

CONSTANTS BarLength,        \* length of a bar
          Start, End,       \* the activated window
          Delay,            \* largest delay of the observation of a boundary
          Lag,              \* largest delay of its publication
          CycleLimit,       \* longest evaluation of a boundary
          Poll,             \* sleep between two looks at a paused feed
          Skew,             \* how far ahead of the wall clock a bar may appear
          Last              \* last instant

ASSUME SupervisorAssumption ==
  /\ BarLength \in Nat \ {0} /\ Poll \in Nat \ {0}
  /\ Start \in Nat /\ End \in Nat /\ 0 < Start /\ Start < End
  /\ Start % BarLength = 0 /\ End % BarLength = 0
  /\ Delay \in Nat /\ Lag \in Nat /\ CycleLimit \in Nat
  /\ Skew \in Nat /\ Last \in Nat /\ Start <= Last

Symbol == {"BTCUSD", "ETHUSD"}
Instant == 0 .. Last
Boundary == {t \in 0 .. (Last + Skew + 2 * BarLength) : t % BarLength = 0}
None == -1

VARIABLES
  now,
  bar,        \* bar[s]: the newest bar the feed of s has published
  (* durable *)
  evidence,   \* the decisions: boundary and newest candle of each symbol
  audit,      \* the operations journal
  (* the supervisor *)
  pc,
  goal,       \* where a capture leads, or the record to write
  next,       \* the boundary that is armed
  completed, skipped,
  observed,   \* the clock reading in use
  seen,       \* seen[s]: the bar of s in the capture, or None
  previous    \* the common bar when a pause began

feed == <<now, bar>>
journals == <<evidence, audit>>
counters == <<next, completed, skipped>>
vars == <<feed, journals, pc, goal, counters, observed, seen, previous>>

Kinds == {"started", "rearmed", "skipped", "paused", "resumed", "completed", "finished", "failed"}
Goals == {"initial", "take", "missed", "late", "pause", "resume"}

TypeOK ==
  /\ now \in Instant
  /\ bar \in [Symbol -> Boundary]
  /\ evidence \in Seq([boundary : Boundary, newest : [Symbol -> Boundary]])
  /\ audit \in Seq([kind : Kinds, next : Boundary, completed : Nat, skipped : Nat])
  /\ pc \in {"down", "capture", "capture second", "wait", "sleep", "commit", "record", "audit"}
           \cup Goals
  /\ goal \in Goals \cup Kinds
  /\ next \in Boundary /\ completed \in Nat /\ skipped \in Nat
  /\ observed \in Instant
  /\ seen \in [Symbol -> Boundary \cup {None}]
  /\ previous \in Boundary

Unseen == [s \in Symbol |-> None]

\* The slower symbol decides.
Common == Min({seen[s] : s \in Symbol})

Audit(kind, boundary, done, lost) ==
  Append(audit, [kind |-> kind, next |-> boundary, completed |-> done, skipped |-> lost])

\* The first boundary the wall clock and the broker have both still ahead.
NextFutureBoundary(clock, live) ==
  Max({Start, (clock \div BarLength + 1) * BarLength, live + BarLength})

Idle ==
  /\ goal = "initial" /\ next = 0 /\ completed = 0 /\ skipped = 0
  /\ observed = 0 /\ seen = Unseen /\ previous = 0

Init ==
  /\ now = 0
  /\ bar = [s \in Symbol |-> 0]
  /\ evidence = <<>> /\ audit = <<>>
  /\ pc = "down" /\ Idle

Capture(for) ==
  /\ pc' = "capture"
  /\ goal' = for
  /\ seen' = Unseen

\* The boundary of a launch: the start, or the first one not in the past.
FirstBoundary ==
  IF now >= Start THEN ((now + BarLength - 1) \div BarLength) * BarLength ELSE Start

\* Under the lease, with pristine journals.
Launch(lateAllowed) ==
  /\ pc = "down"
  /\ now >= Start => lateAllowed
  /\ now < End /\ FirstBoundary < End
  /\ evidence = <<>> /\ audit = <<>>
  /\ next' = FirstBoundary
  /\ audit' = Audit("started", FirstBoundary, 0, 0)
  /\ Capture("initial")
  /\ UNCHANGED <<feed, evidence, completed, skipped, observed, previous>>

CaptureFirst ==
  /\ pc = "capture"
  /\ seen' = [seen EXCEPT !["BTCUSD"] = bar["BTCUSD"]]
  /\ pc' = "capture second"
  /\ UNCHANGED <<feed, journals, goal, counters, observed, previous>>

CaptureSecond ==
  /\ pc = "capture second"
  /\ seen' = [seen EXCEPT !["ETHUSD"] = bar["ETHUSD"]]
  /\ pc' = goal
  /\ UNCHANGED <<feed, journals, goal, counters, observed, previous>>

\* A later boundary is armed; those in between are counted as skipped.
Rearm(kind, clock) ==
  /\ next' = NextFutureBoundary(clock, Common)
  /\ skipped' = skipped + IF next' > next THEN (next' - next) \div BarLength ELSE 0
  /\ pc' = "audit" /\ goal' = kind
  /\ UNCHANGED <<feed, journals, completed, observed, seen, previous>>

RecordSkip ==
  /\ pc = "audit" /\ goal # "completed"
  /\ audit' = Audit(goal, next, completed, skipped)
  /\ pc' = "wait"
  /\ UNCHANGED <<feed, evidence, goal, counters, observed, seen, previous>>

StandsStill(clock) == clock - Common > BarLength + Lag

PauseFeed ==
  /\ Capture("pause")
  /\ observed' = now
  /\ UNCHANGED <<feed, journals, counters, previous>>

\* The broker's bars decide what the launch may still observe.
InitialPause == pc = "initial" /\ StandsStill(now) /\ PauseFeed

InitialRearm ==
  /\ pc = "initial"
  /\ ~StandsStill(now) /\ Common > next
  /\ Rearm("rearmed", now)

InitialWait ==
  /\ pc = "initial"
  /\ ~StandsStill(now) /\ Common <= next
  /\ pc' = "wait"
  /\ UNCHANGED <<feed, journals, goal, counters, observed, seen, previous>>

\* The boundary is due; past the observation window it is given up.
Observe ==
  /\ pc = "wait"
  /\ next < End /\ now >= next
  /\ observed' = now
  /\ Capture(IF now - next > Delay THEN "late" ELSE "take")
  /\ UNCHANGED <<feed, journals, counters, previous>>

ObservedLate == pc = "late" /\ Rearm("skipped", observed)

\* Mutation: there is no limit on the publication lag.
NotPublishedEver ==
  /\ pc = "take"
  /\ Common < next
  /\ Capture("take")
  /\ UNCHANGED <<feed, journals, counters, observed, previous>>

\* The armed boundary is not there yet: look again, or pause.
NotPublished ==
  /\ pc = "take"
  /\ Common < next
  /\ \/ now - next >= Lag /\ PauseFeed
     \/ /\ now - next < Lag
        /\ Capture("take")
        /\ UNCHANGED <<feed, journals, counters, observed, previous>>

\* The broker is past the armed boundary: never backfilled.
Missed ==
  /\ pc = "take"
  /\ Common > next
  /\ Capture("missed")
  /\ UNCHANGED <<feed, journals, counters, observed, previous>>

RearmMissed == pc = "missed" /\ Common > next /\ Rearm("rearmed", now)

CapturedLate ==
  /\ pc = "take"
  /\ Common = next /\ now - next > Lag
  /\ Rearm("skipped", now)

Captured ==
  /\ pc = "take"
  /\ Common = next /\ now - next <= Lag
  /\ observed' = now
  /\ pc' = "commit"
  /\ UNCHANGED <<feed, journals, goal, counters, seen, previous>>

\* Mutation: the faster symbol keeps its newer candles.
VisibleAhead(s) == seen[s]

\* What capture_pair leaves of the rates of s.
Visible(s) == IF seen[s] > next THEN next ELSE seen[s]

Decided == {evidence[i].boundary : i \in DOMAIN evidence}

\* Both symbols are decided in one event.
Commit ==
  /\ pc = "commit"
  /\ Start <= next /\ next < End
  /\ next \notin Decided
  /\ evidence' = Append(evidence, [boundary |-> next, newest |-> [s \in Symbol |-> Visible(s)]])
  /\ pc' = "record"
  /\ UNCHANGED <<feed, audit, goal, counters, observed, seen, previous>>

\* A cycle past its limit raises instead.
Complete ==
  /\ pc = "record"
  /\ now - observed <= CycleLimit
  /\ completed' = completed + 1
  /\ pc' = "audit" /\ goal' = "completed"
  /\ UNCHANGED <<feed, journals, next, skipped, observed, seen, previous>>

RecordCompletion ==
  /\ pc = "audit" /\ goal = "completed"
  /\ audit' = Audit("completed", next + BarLength, completed, skipped)
  /\ next' = next + BarLength
  /\ pc' = "wait"
  /\ UNCHANGED <<feed, evidence, goal, completed, skipped, observed, seen, previous>>

StartPause ==
  /\ pc = "pause"
  /\ previous' = Common
  /\ audit' = Audit("paused", next, completed, skipped)
  /\ pc' = "sleep"
  /\ UNCHANGED <<feed, evidence, goal, counters, observed, seen>>

\* A pause that lasts until the end of the window gives the rest of it up.
PauseOver ==
  /\ pc = "sleep"
  /\ now >= End
  /\ next' = End
  /\ pc' = "wait"
  /\ UNCHANGED <<feed, journals, goal, completed, skipped, observed, seen, previous>>

PollFeed ==
  /\ pc = "sleep"
  /\ now >= observed + Poll /\ now < End
  /\ observed' = now
  /\ Capture("resume")
  /\ UNCHANGED <<feed, journals, counters, previous>>

\* A common bar that is new and the current one; old history is neither.
Fed == Common > previous /\ observed - Common \in 0 .. BarLength - 1

StillPaused ==
  /\ pc = "resume"
  /\ ~Fed
  /\ pc' = "sleep"
  /\ UNCHANGED <<feed, journals, goal, counters, observed, seen, previous>>

\* Mutation: what was lost in the pause is not counted.
ResumeUncounted ==
  /\ pc = "resume"
  /\ Fed
  /\ next' = NextFutureBoundary(observed, Common)
  /\ pc' = "audit" /\ goal' = "resumed"
  /\ UNCHANGED <<feed, journals, completed, skipped, observed, seen, previous>>

Resumed == pc = "resume" /\ Fed /\ Rearm("resumed", observed)

Leave ==
  /\ pc' = "down"
  /\ goal' = "initial" /\ next' = 0 /\ completed' = 0 /\ skipped' = 0
  /\ observed' = 0 /\ seen' = Unseen /\ previous' = 0

Finish ==
  /\ pc = "wait"
  /\ next >= End
  /\ audit' = Audit("finished", next, completed, skipped)
  /\ Leave
  /\ UNCHANGED <<feed, evidence>>

\* An exception, which a clock or broker check may raise at any point.
Fail ==
  /\ pc # "down"
  /\ audit' = Audit("failed", next, completed, skipped)
  /\ Leave
  /\ UNCHANGED <<feed, evidence>>

\* The limit of the cycle, on the way of every evaluation.
FailSlow == pc = "record" /\ now - observed > CycleLimit /\ Fail

Kill ==
  /\ pc # "down"
  /\ Leave
  /\ UNCHANGED <<feed, journals>>

-----------------------------------------------------------------------------
Tick ==
  /\ now < Last
  /\ now' = now + 1
  /\ UNCHANGED <<bar, journals, pc, goal, counters, observed, seen, previous>>

\* A feed publishes a later bar, not always the current one.
Publish(s) ==
  /\ \E b \in Boundary :
       /\ b > bar[s] /\ b <= now + Skew
       /\ bar' = [bar EXCEPT ![s] = b]
  /\ UNCHANGED <<now, journals, pc, goal, counters, observed, seen, previous>>

-----------------------------------------------------------------------------
Running ==
  \/ CaptureFirst \/ CaptureSecond
  \/ InitialPause \/ InitialRearm \/ InitialWait
  \/ Observe \/ ObservedLate \/ NotPublished \/ Missed \/ RearmMissed
  \/ CapturedLate \/ Captured \/ Commit \/ Complete \/ FailSlow
  \/ RecordSkip \/ RecordCompletion
  \/ StartPause \/ PauseOver \/ PollFeed \/ StillPaused \/ Resumed
  \/ Finish

Next ==
  \/ \E lateAllowed \in BOOLEAN : Launch(lateAllowed)
  \/ Running
  \/ Fail \/ Kill
  \/ Tick
  \/ \E s \in Symbol : Publish(s)

Spec == Init /\ [][Next]_vars

\* The process runs and time passes; a feed owes nothing.
FairSpec == Spec /\ WF_vars(Running) /\ WF_vars(Tick)

-----------------------------------------------------------------------------
\* Properties

\* The journals tell what became of every boundary.  A run that is up has
\* either completed or counted as skipped each boundary from the first one it
\* armed to the one it waits for, except what a pause up to the end of the
\* window gave up; a record of the operations journal counts the decisions of
\* the evidence, but for one whose evaluation did not end in time.
\* (pause_until_feed_resumes and the main loop of run_fibo_forward_supervisor)
BoundariesAccounted ==
  /\ pc # "down" =>
       LET passed == (next - audit[1].next) \div BarLength
       IN  /\ Len(evidence) = completed + (IF pc = "record" THEN 1 ELSE 0)
           /\ \/ passed + (IF pc = "audit" /\ goal = "completed" THEN 1 ELSE 0)
                   = completed + skipped
              \/ next = End /\ audit[Len(audit)].kind = "paused"
  /\ \A i \in DOMAIN audit :
       /\ i > 1 => audit[i].kind # "started" /\ audit[i].next >= audit[i - 1].next
       /\ i = Len(audit) => Len(evidence) - audit[i].completed \in
            IF audit[i].kind = "finished" THEN {0} ELSE {0, 1}

\* No boundary is decided from later candles, twice, out of order, or after
\* the operations journal has given it up; one that counts as completed was
\* observed while it was live ("no backfill allowed").
OnlyLiveEvidence ==
  [][/\ evidence' # evidence =>
          LET e == evidence'[Len(evidence')]
          IN  /\ \A s \in Symbol : e.newest[s] = e.boundary
              /\ \A b \in Decided : b < e.boundary
              /\ \A i \in DOMAIN audit : audit[i].next <= e.boundary
     /\ completed' > completed => now - next <= Lag + CycleLimit]_vars

\* However the feeds behave, a run comes to its end.
WindowEnds == pc # "down" ~> pc = "down"

=============================================================================
