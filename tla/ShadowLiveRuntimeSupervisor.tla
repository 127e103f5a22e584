-------------------- MODULE ShadowLiveRuntimeSupervisor --------------------
(***************************************************************************)
(* Heartbeat, watchdog and telemetry of a long-running shadow-live         *)
(* session: what is decided and counted between the portfolio refresh of a *)
(* cycle and the discovery of candidates.  ShadowLiveSession takes the     *)
(* decision as a free choice; here it is made from the monotonic clock.    *)
(*                                                                         *)
(* A session keeps the heartbeat twice, in local variables of the loop and *)
(* in the telemetry state, and a disagreement of the two is an invalid     *)
(* input, which would block every later cycle.  A cycle may take any time. *)
(***************************************************************************)
EXTENDS Integers

CONSTANTS MaxGap,     \* largest gap between two heartbeats
          Horizon,    \* bound on the clock
          MaxCycles   \* bound on the cycles of a session

ASSUME SupervisorAssumption ==
  MaxGap \in Nat \ {0} /\ Horizon \in Nat /\ MaxCycles \in Nat

None == -1
Instant == 0 .. Horizon

Connection == {"up", "disconnected", "no terminal", "no account"}

VARIABLES
  now,          \* the monotonic clock
  pc,
  started,      \* start of the session
  last,         \* time of the last heartbeat, or None
  sequence,     \* number of the last heartbeat
  telemetry,
  connection,   \* the terminal as the watchdog has read it in this cycle
  watchdog,     \* cycles the portfolio or the watchdog blocked
  hardBlocks,   \* cycles the supervisor blocked
  discovery     \* history: heartbeat and blocks at the last discovery

loop == <<pc, started, last, sequence, telemetry, connection>>
counted == <<watchdog, hardBlocks, discovery>>
vars == <<now, loop, counted>>

Telemetry == [started : Instant, sequence : Nat, count : Nat, stale : Nat, blocks : Nat,
              disconnects : Nat, failures : Nat, last : Instant \cup {None}]

TypeOK ==
  /\ now \in Instant
  /\ pc \in {"down", "portfolio", "health", "supervise", "discover"}
  /\ started \in Instant /\ last \in Instant \cup {None} /\ sequence \in Nat
  /\ telemetry \in Telemetry
  /\ connection \in Connection
  /\ watchdog \in Nat /\ hardBlocks \in Nat
  /\ discovery \in [beat : Instant \cup {None}, blocks : Nat]

\* ShadowLiveRuntimeTelemetry.initialize
FreshTelemetry(start) ==
  [started |-> start, sequence |-> 0, count |-> 0, stale |-> 0, blocks |-> 0,
   disconnects |-> 0, failures |-> 0, last |-> None]

NoDiscovery == [beat |-> None, blocks |-> 0]

Init ==
  /\ now \in Instant
  /\ pc = "down" /\ started = 0 /\ last = None /\ sequence = 0
  /\ telemetry = FreshTelemetry(0) /\ connection = "up"
  /\ watchdog = 0 /\ hardBlocks = 0 /\ discovery = NoDiscovery

StartSession ==
  /\ pc = "down"
  /\ pc' = "portfolio"
  /\ started' = now /\ last' = None /\ sequence' = 0
  /\ telemetry' = FreshTelemetry(now)
  /\ watchdog' = 0 /\ hardBlocks' = 0 /\ discovery' = NoDiscovery
  /\ UNCHANGED <<now, connection>>

-----------------------------------------------------------------------------
\* What the telemetry records.

RecordBlock(t) == [t EXCEPT !.blocks = @ + 1]

RecordDisconnect(t) == [t EXCEPT !.disconnects = @ + 1]

RecordFailure(t) == [t EXCEPT !.failures = @ + 1]

RecordHeartbeat(t, n, stale) ==
  [t EXCEPT !.sequence = n, !.count = @ + 1, !.stale = IF stale THEN @ + 1 ELSE @, !.last = now]

\* A heartbeat it would not take raises.
Recordable(t, n) ==
  /\ n > t.sequence
  /\ now >= t.started
  /\ t.last # None => now >= t.last

-----------------------------------------------------------------------------
\* A cycle

\* Bound: a session goes through at most MaxCycles cycles.
RefreshPortfolio ==
  /\ pc = "portfolio"
  /\ telemetry.blocks + telemetry.count < MaxCycles
  /\ \/ /\ telemetry' = RecordBlock(RecordFailure(telemetry))
        /\ watchdog' = watchdog + 1
        /\ UNCHANGED pc
     \/ pc' = "health" /\ UNCHANGED <<telemetry, watchdog>>
  /\ UNCHANGED <<now, started, last, sequence, connection, hardBlocks, discovery>>

\* The kill switch comes first among the reasons, so that a cycle it blocks is
\* not counted as a disconnect.
CheckHealth ==
  /\ pc = "health"
  /\ connection' \in Connection
  /\ \E kill \in BOOLEAN :
       IF kill \/ connection' # "up"
       THEN /\ telemetry' = RecordBlock(IF kill THEN telemetry ELSE RecordDisconnect(telemetry))
            /\ watchdog' = watchdog + 1
            /\ pc' = "portfolio"
       ELSE pc' = "supervise" /\ UNCHANGED <<telemetry, watchdog>>
  /\ UNCHANGED <<now, started, last, sequence, hardBlocks, discovery>>

\* ShadowLiveRuntimeHeartbeat.evaluate
HeartbeatValid ==
  /\ started <= now
  /\ IF last = None THEN sequence = 0 ELSE started <= last /\ last <= now /\ sequence > 0

\* Mutation: off by one.
StaleLate == last # None /\ now - last > MaxGap + 1

Stale == last # None /\ now - last > MaxGap

InputValid == HeartbeatValid /\ Recordable(telemetry, sequence + 1)

Decision ==
  CASE ~InputValid -> "invalid"
    [] InputValid /\ Stale -> "stale"
    [] InputValid /\ ~Stale /\ connection # "up" -> "disconnected"
    [] OTHER -> "healthy"

\* Mutation: a stale heartbeat is counted twice.
RecordedTwice ==
  LET beat == RecordHeartbeat(telemetry, sequence + 1, Stale)
  IN  CASE Decision = "invalid" -> telemetry
        [] Decision = "stale" -> [RecordBlock(beat) EXCEPT !.sequence = sequence + 2]
        [] Decision = "disconnected" -> RecordBlock(RecordDisconnect(beat))
        [] OTHER -> beat

\* Mutation: a stale heartbeat is recorded and not counted as a block.
RecordedUnblocked ==
  LET beat == RecordHeartbeat(telemetry, sequence + 1, Stale)
  IN  CASE Decision = "invalid" -> telemetry
        [] Decision = "disconnected" -> RecordBlock(RecordDisconnect(beat))
        [] OTHER -> beat

Recorded ==
  LET beat == RecordHeartbeat(telemetry, sequence + 1, Stale)
  IN  CASE Decision = "invalid" -> telemetry
        [] Decision = "stale" -> RecordBlock(beat)
        [] Decision = "disconnected" -> RecordBlock(RecordDisconnect(beat))
        [] OTHER -> beat

\* ShadowLiveRuntimeSupervisor.evaluate and what the loop makes of it: an
\* invalid decision leaves a heartbeat that is never valid again.
Supervise ==
  /\ pc = "supervise"
  /\ telemetry' = Recorded
  /\ last' = IF Decision = "invalid" THEN 0 ELSE now
  /\ sequence' = IF Decision = "invalid" THEN 0 ELSE sequence + 1
  /\ IF Decision = "healthy"
     THEN pc' = "discover" /\ UNCHANGED hardBlocks
     ELSE pc' = "portfolio" /\ hardBlocks' = hardBlocks + 1
  /\ UNCHANGED <<now, started, connection, watchdog, discovery>>

\* Candidates are looked for, and the next cycle begins.
Discover ==
  /\ pc = "discover"
  /\ pc' = "portfolio"
  /\ discovery' = [beat |-> last, blocks |-> telemetry.blocks]
  /\ UNCHANGED <<now, started, last, sequence, telemetry, connection, watchdog, hardBlocks>>

Stop ==
  /\ pc # "down"
  /\ pc' = "down"
  /\ UNCHANGED <<now, started, last, sequence, telemetry, connection, counted>>

Tick ==
  /\ now < Horizon
  /\ now' = now + 1
  /\ UNCHANGED <<loop, counted>>

Next ==
  \/ StartSession \/ RefreshPortfolio \/ CheckHealth \/ Supervise \/ Discover
  \/ Stop \/ Tick

Spec == Init /\ [][Next]_vars

-----------------------------------------------------------------------------
\* Properties

\* The two heartbeats of a session agree with each other and with the clock
\* whatever was blocked, skipped or stalled: the supervisor, "fail-safe"
\* on invalid input (test_invalid_supervisor_input_is_fail_safe), never blocks
\* a session for good.
NeverInvalid == pc # "down" => InputValid

\* Every cycle that is refused is in the telemetry, with one reason; what it
\* counts besides are the heartbeats.
BlocksAreCounted ==
  /\ telemetry.blocks = watchdog + hardBlocks
  /\ telemetry.disconnects + telemetry.failures <= watchdog
  /\ telemetry.count = sequence

\* The supervisor looks at the terminal that the watchdog of the same cycle has
\* just passed: what it refuses itself are stale heartbeats.
HardBlocksAreStale == hardBlocks = telemetry.stale

\* A stall cannot go unnoticed: when candidates are looked for again after more
\* than the tolerated gap, a cycle was blocked in between.
NoSilentStall ==
  pc = "discover" /\ discovery.beat # None =>
    last - discovery.beat <= MaxGap \/ telemetry.blocks > discovery.blocks
=============================================================================
