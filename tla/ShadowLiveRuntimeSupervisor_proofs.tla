---------------- MODULE ShadowLiveRuntimeSupervisor_proofs ----------------
(***************************************************************************)
(* Theorems about ShadowLiveRuntimeSupervisor, for every gap and every     *)
(* bound.                                                                  *)
(***************************************************************************)
EXTENDS ShadowLiveRuntimeSupervisor, TLAPS

\* The heartbeat of the loop and the one of the telemetry are the same, and
\* lie between the start of the session and the clock.
HeartbeatInv ==
  /\ telemetry.started = started /\ started <= now
  /\ telemetry.sequence = sequence /\ telemetry.count = sequence
  /\ telemetry.last = last
  /\ last = None => sequence = 0
  /\ last # None => started <= last /\ last <= now /\ sequence > 0

CountInv ==
  /\ BlocksAreCounted
  /\ HardBlocksAreStale
  /\ pc = "supervise" => connection = "up"

\* As long as nothing was blocked, the last heartbeat is that of the last
\* discovery.
DiscoveryInv ==
  /\ discovery.beat # None => last # None /\ discovery.beat <= last
  /\ discovery.blocks <= telemetry.blocks
  /\ pc \notin {"discover", "down"} /\ discovery.beat # None /\ discovery.blocks = telemetry.blocks =>
       last = discovery.beat
  /\ NoSilentStall

IInv == TypeOK /\ HeartbeatInv /\ CountInv /\ DiscoveryInv

-----------------------------------------------------------------------------
\* The supervisor is only ever given valid input.
LEMMA InvariantIsValid ==
  ASSUME IInv
  PROVE  InputValid
BY SupervisorAssumption
   DEF IInv, TypeOK, HeartbeatInv, InputValid, HeartbeatValid, Recordable, Telemetry, Instant, None

LEMMA InitInv ==
  ASSUME Init
  PROVE  IInv
BY SupervisorAssumption
   DEF Init, IInv, TypeOK, HeartbeatInv, CountInv, DiscoveryInv, BlocksAreCounted,
       HardBlocksAreStale, NoSilentStall, FreshTelemetry, NoDiscovery, Telemetry, Instant,
       Connection, None

\* A recorded heartbeat changes the fields of the heartbeat.
LEMMA HeartbeatRecorded ==
  ASSUME NEW t \in Telemetry, NEW n \in Nat, NEW stale \in BOOLEAN, now \in Instant,
         NEW r, r = RecordHeartbeat(t, n, stale)
  PROVE  /\ r \in Telemetry
         /\ r.started = t.started /\ r.sequence = n /\ r.count = t.count + 1 /\ r.last = now
         /\ r.stale = IF stale THEN t.stale + 1 ELSE t.stale
         /\ r.blocks = t.blocks /\ r.disconnects = t.disconnects /\ r.failures = t.failures
<1>1. PICK k \in Nat : k = IF stale THEN t.stale + 1 ELSE t.stale
  BY DEF Telemetry
<1>2. PICK c \in Nat : c = t.count + 1
  BY DEF Telemetry
<1>3. r = [t EXCEPT !.sequence = n, !.count = c, !.stale = k, !.last = now]
  BY <1>1, <1>2 DEF RecordHeartbeat
<1>4. r \in Telemetry
  BY <1>3 DEF Telemetry
<1>5. r.started = t.started /\ r.sequence = n /\ r.count = c /\ r.last = now
  BY <1>3 DEF Telemetry
<1>6. r.stale = k /\ r.blocks = t.blocks /\ r.disconnects = t.disconnects /\ r.failures = t.failures
  BY <1>3 DEF Telemetry
<1> QED
  BY <1>1, <1>2, <1>4, <1>5, <1>6

\* A recorded block, disconnect or failure changes its count.
LEMMA BlockRecorded ==
  ASSUME NEW t \in Telemetry
  PROVE  /\ RecordBlock(t) \in Telemetry
         /\ RecordBlock(t).blocks = t.blocks + 1
         /\ RecordBlock(t).started = t.started /\ RecordBlock(t).sequence = t.sequence
         /\ RecordBlock(t).count = t.count /\ RecordBlock(t).stale = t.stale
         /\ RecordBlock(t).disconnects = t.disconnects
         /\ RecordBlock(t).failures = t.failures /\ RecordBlock(t).last = t.last
BY DEF RecordBlock, Telemetry

LEMMA DisconnectRecorded ==
  ASSUME NEW t \in Telemetry
  PROVE  /\ RecordDisconnect(t) \in Telemetry
         /\ RecordDisconnect(t).disconnects = t.disconnects + 1
         /\ RecordDisconnect(t).started = t.started /\ RecordDisconnect(t).sequence = t.sequence
         /\ RecordDisconnect(t).count = t.count /\ RecordDisconnect(t).stale = t.stale
         /\ RecordDisconnect(t).blocks = t.blocks
         /\ RecordDisconnect(t).failures = t.failures /\ RecordDisconnect(t).last = t.last
BY DEF RecordDisconnect, Telemetry

LEMMA FailureRecorded ==
  ASSUME NEW t \in Telemetry
  PROVE  /\ RecordFailure(t) \in Telemetry
         /\ RecordFailure(t).failures = t.failures + 1
         /\ RecordFailure(t).started = t.started /\ RecordFailure(t).sequence = t.sequence
         /\ RecordFailure(t).count = t.count /\ RecordFailure(t).stale = t.stale
         /\ RecordFailure(t).blocks = t.blocks
         /\ RecordFailure(t).disconnects = t.disconnects /\ RecordFailure(t).last = t.last
BY DEF RecordFailure, Telemetry

\* A supervised cycle: the heartbeat is recorded, and a stale one is a block.
LEMMA SuperviseInv ==
  ASSUME IInv, Supervise
  PROVE  IInv'
<1> DEFINE beat == RecordHeartbeat(telemetry, sequence + 1, Stale)
<1>1. InputValid /\ connection = "up" /\ pc = "supervise"
  BY InvariantIsValid DEF IInv, CountInv, Supervise
<1>2. Decision = IF Stale THEN "stale" ELSE "healthy"
  BY <1>1 DEF Decision
<1>3. Recorded = IF Stale THEN RecordBlock(beat) ELSE beat
  BY <1>2 DEF Recorded
<1>4. telemetry \in Telemetry /\ now \in Instant /\ sequence \in Nat
  BY DEF IInv, TypeOK
<1>5. /\ beat \in Telemetry
      /\ beat.started = telemetry.started /\ beat.sequence = sequence + 1
      /\ beat.count = telemetry.count + 1 /\ beat.last = now
      /\ beat.stale = IF Stale THEN telemetry.stale + 1 ELSE telemetry.stale
      /\ beat.blocks = telemetry.blocks /\ beat.disconnects = telemetry.disconnects
      /\ beat.failures = telemetry.failures
  <2>1. Stale \in BOOLEAN /\ sequence + 1 \in Nat
    BY <1>4 DEF Stale
  <2> QED
    BY <2>1, <1>4, HeartbeatRecorded
<1>6. /\ telemetry' = IF Stale THEN RecordBlock(beat) ELSE beat
      /\ last' = now /\ sequence' = sequence + 1
      /\ pc' = IF Stale THEN "portfolio" ELSE "discover"
      /\ hardBlocks' = IF Stale THEN hardBlocks + 1 ELSE hardBlocks
      /\ UNCHANGED <<now, started, connection, watchdog, discovery>>
  BY <1>2, <1>3 DEF Supervise
<1> HIDE DEF beat
<1>7. /\ telemetry'.started = telemetry.started /\ telemetry'.sequence = sequence + 1
      /\ telemetry'.count = telemetry.count + 1 /\ telemetry'.last = now
      /\ telemetry'.blocks = IF Stale THEN telemetry.blocks + 1 ELSE telemetry.blocks
      /\ telemetry'.stale = IF Stale THEN telemetry.stale + 1 ELSE telemetry.stale
      /\ telemetry'.disconnects = telemetry.disconnects
      /\ telemetry'.failures = telemetry.failures
  <2>1. CASE Stale
    BY <2>1, <1>5, <1>6, BlockRecorded
  <2>2. CASE ~Stale
    BY <2>2, <1>5, <1>6
  <2> QED
    BY <2>1, <2>2
<1>8. TypeOK'
  BY <1>4, <1>5, <1>6, BlockRecorded DEF IInv, TypeOK
<1>9. HeartbeatInv'
  BY <1>6, <1>7, SupervisorAssumption DEF IInv, TypeOK, HeartbeatInv, Instant, None
<1>10. CountInv'
  BY <1>4, <1>6, <1>7
     DEF IInv, TypeOK, CountInv, HeartbeatInv, BlocksAreCounted, HardBlocksAreStale, Telemetry
<1>11. DiscoveryInv'
  <2> USE DEF IInv, TypeOK, HeartbeatInv, DiscoveryInv, Telemetry, Instant, None
  <2>1. CASE Stale
    BY <2>1, <1>1, <1>4, <1>6, <1>7, SupervisorAssumption DEF NoSilentStall
  <2>2. CASE ~Stale
    <3>1. last # None => now - last <= MaxGap
      BY <2>2, <1>4, SupervisorAssumption DEF Stale
    <3> QED
      BY <3>1, <2>2, <1>1, <1>4, <1>6, <1>7, SupervisorAssumption DEF NoSilentStall
  <2> QED
    BY <2>1, <2>2
<1> QED
  BY <1>8, <1>9, <1>10, <1>11 DEF IInv

\* What the portfolio and the watchdog block: one block, and at most one reason.
LEMMA BlockInv ==
  ASSUME IInv, RefreshPortfolio \/ CheckHealth
  PROVE  IInv'
<1>1. telemetry \in Telemetry
  BY DEF IInv, TypeOK
<1>2. /\ pc \in {"portfolio", "health"} /\ pc' \in {"portfolio", "health", "supervise"}
      /\ connection' \in Connection /\ (pc' = "supervise" => connection' = "up")
      /\ UNCHANGED <<now, started, last, sequence, hardBlocks, discovery>>
  BY DEF IInv, TypeOK, RefreshPortfolio, CheckHealth
<1>3. \/ UNCHANGED <<telemetry, watchdog>>
      \/ /\ watchdog' = watchdog + 1
         /\ \E t \in {telemetry, RecordDisconnect(telemetry), RecordFailure(telemetry)} :
              telemetry' = RecordBlock(t)
  BY DEF RefreshPortfolio, CheckHealth
<1>4. /\ telemetry' \in Telemetry /\ watchdog' \in Nat
      /\ telemetry'.started = telemetry.started /\ telemetry'.sequence = telemetry.sequence
      /\ telemetry'.count = telemetry.count /\ telemetry'.stale = telemetry.stale
      /\ telemetry'.last = telemetry.last
      /\ telemetry'.blocks - watchdog' = telemetry.blocks - watchdog
      /\ watchdog' >= watchdog
      /\ telemetry'.disconnects + telemetry'.failures - watchdog'
           <= telemetry.disconnects + telemetry.failures - watchdog
  <2>1. watchdog \in Nat /\ telemetry.blocks \in Nat /\ telemetry.disconnects \in Nat
        /\ telemetry.failures \in Nat
    BY <1>1 DEF IInv, TypeOK, Telemetry
  <2>2. CASE UNCHANGED <<telemetry, watchdog>>
    BY <2>1, <2>2, <1>1
  <2>3. CASE watchdog' = watchdog + 1 /\ telemetry' = RecordBlock(telemetry)
    BY <2>1, <2>3, <1>1, BlockRecorded
  <2>4. CASE watchdog' = watchdog + 1 /\ telemetry' = RecordBlock(RecordDisconnect(telemetry))
    <3> DEFINE t == RecordDisconnect(telemetry)
    <3>1. t \in Telemetry
      BY <1>1, DisconnectRecorded
    <3>2. /\ t.started = telemetry.started /\ t.sequence = telemetry.sequence
          /\ t.count = telemetry.count /\ t.stale = telemetry.stale
          /\ t.last = telemetry.last /\ t.blocks = telemetry.blocks
          /\ t.disconnects + t.failures = telemetry.disconnects + telemetry.failures + 1
      BY <1>1, <2>1, DisconnectRecorded
    <3>3. telemetry' = RecordBlock(t)
      BY <2>4
    <3> HIDE DEF t
    <3>4. /\ telemetry' \in Telemetry
          /\ telemetry'.started = t.started /\ telemetry'.sequence = t.sequence
          /\ telemetry'.count = t.count /\ telemetry'.stale = t.stale
          /\ telemetry'.last = t.last /\ telemetry'.blocks = t.blocks + 1
          /\ telemetry'.disconnects = t.disconnects /\ telemetry'.failures = t.failures
      BY <3>1, <3>3, BlockRecorded
    <3>5. t.disconnects \in Nat /\ t.failures \in Nat
      BY <3>1 DEF Telemetry
    <3> QED
      BY <3>2, <3>4, <3>5, <2>1, <2>4
  <2>5. CASE watchdog' = watchdog + 1 /\ telemetry' = RecordBlock(RecordFailure(telemetry))
    <3> DEFINE t == RecordFailure(telemetry)
    <3>1. t \in Telemetry
      BY <1>1, FailureRecorded
    <3>2. /\ t.started = telemetry.started /\ t.sequence = telemetry.sequence
          /\ t.count = telemetry.count /\ t.stale = telemetry.stale
          /\ t.last = telemetry.last /\ t.blocks = telemetry.blocks
          /\ t.disconnects + t.failures = telemetry.disconnects + telemetry.failures + 1
      BY <1>1, <2>1, FailureRecorded
    <3>3. telemetry' = RecordBlock(t)
      BY <2>5
    <3> HIDE DEF t
    <3>4. /\ telemetry' \in Telemetry
          /\ telemetry'.started = t.started /\ telemetry'.sequence = t.sequence
          /\ telemetry'.count = t.count /\ telemetry'.stale = t.stale
          /\ telemetry'.last = t.last /\ telemetry'.blocks = t.blocks + 1
          /\ telemetry'.disconnects = t.disconnects /\ telemetry'.failures = t.failures
      BY <3>1, <3>3, BlockRecorded
    <3>5. t.disconnects \in Nat /\ t.failures \in Nat
      BY <3>1 DEF Telemetry
    <3> QED
      BY <3>2, <3>4, <3>5, <2>1, <2>5
  <2> QED
    BY <2>2, <2>3, <2>4, <2>5, <1>3
<1>5. TypeOK'
  BY <1>2, <1>4 DEF IInv, TypeOK
<1>6. HeartbeatInv'
  BY <1>2, <1>4 DEF IInv, HeartbeatInv
<1>7. CountInv'
  BY <1>1, <1>2, <1>4
     DEF IInv, TypeOK, CountInv, BlocksAreCounted, HardBlocksAreStale, Telemetry
<1>8. DiscoveryInv'
  BY <1>1, <1>2, <1>4
     DEF IInv, TypeOK, CountInv, BlocksAreCounted, DiscoveryInv, NoSilentStall, Telemetry
<1> QED
  BY <1>5, <1>6, <1>7, <1>8 DEF IInv

\* A session starts over.
LEMMA StartInv ==
  ASSUME IInv, StartSession
  PROVE  IInv'
<1>1. FreshTelemetry(now) \in Telemetry
  BY DEF IInv, TypeOK, FreshTelemetry, Telemetry, None
<1>2. /\ telemetry'.started = now /\ telemetry'.sequence = 0 /\ telemetry'.count = 0
      /\ telemetry'.stale = 0 /\ telemetry'.blocks = 0 /\ telemetry'.disconnects = 0
      /\ telemetry'.failures = 0 /\ telemetry'.last = None
  BY DEF StartSession, FreshTelemetry
<1>3. /\ pc' = "portfolio" /\ started' = now /\ last' = None /\ sequence' = 0
      /\ watchdog' = 0 /\ hardBlocks' = 0
      /\ discovery'.beat = None /\ discovery'.blocks = 0
      /\ UNCHANGED <<now, connection>>
  BY DEF StartSession, NoDiscovery
<1>4. TypeOK'
  BY <1>1 DEF IInv, TypeOK, StartSession, NoDiscovery
<1>5. HeartbeatInv' /\ CountInv' /\ DiscoveryInv'
  BY <1>2, <1>3
     DEF IInv, TypeOK, HeartbeatInv, CountInv, DiscoveryInv, BlocksAreCounted,
         HardBlocksAreStale, NoSilentStall, Instant
<1> QED
  BY <1>4, <1>5 DEF IInv

\* A discovery remembers the heartbeat and the blocks it was made at.
LEMMA DiscoverInv ==
  ASSUME IInv, Discover
  PROVE  IInv'
<1>1. telemetry \in Telemetry /\ last \in Instant \cup {None} /\ telemetry.blocks \in Nat
  BY DEF IInv, TypeOK, Telemetry
<1>2. /\ pc' = "portfolio" /\ discovery'.beat = last /\ discovery'.blocks = telemetry.blocks
      /\ discovery' \in [beat : Instant \cup {None}, blocks : Nat]
      /\ UNCHANGED <<now, started, last, sequence, telemetry, connection, watchdog, hardBlocks>>
  BY <1>1 DEF Discover
<1>3. TypeOK' /\ HeartbeatInv'
  BY <1>2 DEF IInv, TypeOK, HeartbeatInv
<1>4. CountInv'
  BY <1>2 DEF IInv, CountInv, BlocksAreCounted, HardBlocksAreStale
<1>5. DiscoveryInv'
  BY <1>1, <1>2 DEF DiscoveryInv, NoSilentStall, Instant, None
<1> QED
  BY <1>3, <1>4, <1>5 DEF IInv

LEMMA OtherInv ==
  ASSUME IInv, Stop \/ Tick \/ UNCHANGED vars
  PROVE  IInv'
<1>1. /\ pc' \in {pc, "down"} /\ now' \in Instant /\ now <= now'
      /\ UNCHANGED <<started, last, sequence, telemetry, connection, watchdog, hardBlocks, discovery>>
  BY SupervisorAssumption DEF IInv, TypeOK, Stop, Tick, vars, loop, counted, Instant
<1>2. TypeOK'
  BY <1>1 DEF IInv, TypeOK
<1>3. HeartbeatInv'
  BY <1>1 DEF IInv, TypeOK, HeartbeatInv, Instant, None
<1>4. CountInv'
  BY <1>1 DEF IInv, CountInv, BlocksAreCounted, HardBlocksAreStale
<1>5. DiscoveryInv'
  <2>1. \/ pc' = pc
        \/ pc' = "down"
    BY <1>1
  <2> QED
    BY <1>1, <2>1 DEF IInv, TypeOK, DiscoveryInv, NoSilentStall, Instant, None
<1> QED
  BY <1>2, <1>3, <1>4, <1>5 DEF IInv

THEOREM AlwaysInductive == Spec => []IInv
<1>1. Init => IInv
  BY InitInv
<1>2. IInv /\ [Next]_vars => IInv'
  BY StartInv, BlockInv, SuperviseInv, DiscoverInv, OtherInv DEF Next
<1> QED
  BY <1>1, <1>2, PTL DEF Spec

-----------------------------------------------------------------------------
\* The state has its types, whatever stops or stalls the session.
THEOREM TypeCorrect == Spec => []TypeOK
<1>1. IInv => TypeOK
  BY DEF IInv
<1> QED
  BY <1>1, AlwaysInductive, PTL

\* NeverInvalid: ShadowLiveRuntimeSupervisor.evaluate never returns an invalid
\* decision, after which every later one would be invalid too.
THEOREM SupervisorNeverInvalid == Spec => []NeverInvalid
<1>1. IInv => NeverInvalid
  BY InvariantIsValid DEF NeverInvalid
<1> QED
  BY <1>1, AlwaysInductive, PTL

\* BlocksAreCounted and HardBlocksAreStale: the telemetry accounts for every
\* refused cycle, and the supervisor itself refuses only stale heartbeats.
THEOREM BlocksAlwaysCounted == Spec => [](BlocksAreCounted /\ HardBlocksAreStale)
<1>1. IInv => BlocksAreCounted /\ HardBlocksAreStale
  BY DEF IInv, CountInv
<1> QED
  BY <1>1, AlwaysInductive, PTL

\* NoSilentStall: candidates are never looked for again after a stall without
\* a blocked cycle in between.
THEOREM StallsAreNoticed == Spec => []NoSilentStall
<1>1. IInv => NoSilentStall
  BY DEF IInv, DiscoveryInv
<1> QED
  BY <1>1, AlwaysInductive, PTL
=============================================================================
