--------------------------- MODULE EvidenceLog ---------------------------
(***************************************************************************)
(* What an evidence journal promises, whoever writes to it and whenever a  *)
(* writer dies: the log only grows, holds an identity once, and an append  *)
(* that was reported to its caller stays in the log.                       *)
(***************************************************************************)
EXTENDS Naturals, Sequences

CONSTANT Payload     \* identities of evidence events

VARIABLES log,       \* the events a reader of the journal obtains
          acked      \* the events reported as durable to a caller

vars == <<log, acked>>

Logged == {log[i] : i \in DOMAIN log}

Init == log = <<>> /\ acked = {}

Record(p) ==
  /\ p \notin Logged
  /\ log' = Append(log, p)
  /\ UNCHANGED acked

Acknowledge(p) ==
  /\ p \in Logged \ acked
  /\ acked' = acked \cup {p}
  /\ UNCHANGED log

\* An append whose event and report become visible together.
RecordAcknowledged(p) ==
  /\ p \notin Logged
  /\ log' = Append(log, p)
  /\ acked' = acked \cup {p}

Next == \E p \in Payload : Record(p) \/ Acknowledge(p) \/ RecordAcknowledged(p)

Spec == Init /\ [][Next]_vars
=============================================================================
