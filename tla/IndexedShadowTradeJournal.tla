-------------------- MODULE IndexedShadowTradeJournal --------------------
(***************************************************************************)
(* One JSONL evidence journal, the SQLite index derived from it, the       *)
(* IndexedShadowTradeJournal views that use both, and writers that append  *)
(* with the plain ShadowTradeJournal.                                      *)
(*                                                                         *)
(* Two locks: the journal transaction (flock on a file next to the         *)
(* journal; a second taker fails at once) and the SQLite write             *)
(* transaction (BEGIN IMMEDIATE; a second taker waits).  An append holds   *)
(* the first from the lookup of the identity to the report; a lookup and   *)
(* the construction of a view hold neither while they compare the file's   *)
(* fingerprint, and only the second while they rebuild the index.          *)
(***************************************************************************)
EXTENDS JournalFile, FiniteSets

CONSTANTS View, NoView,   \* index views, each in a process of its own
          Payload,        \* identities of evidence events
          NoPayload,
          Tear,           \* how an interrupted write may tear its line
          RacingRebuild,  \* may a write fall inside a rebuild that holds no journal lock?
          MaxWrites       \* bound on the writes to the file

ASSUME NoneAssumption == NoView \notin View /\ NoPayload \notin Payload
ASSUME TearAssumption == Tear \subseteq {"fragment", "unterminated"}
ASSUME RacingAssumption == RacingRebuild \in BOOLEAN
ASSUME MaxWritesAssumption == MaxWrites \in Nat


VARIABLES
  file,    \* the authoritative JSONL file
  index,   \* committed rows of the SQLite index: the payloads, in order
  flock,   \* the view in a journal transaction, or NoView
  txn,     \* the view in a SQLite write transaction, or NoView
  pc,      \* pc[v]: "down", "idle", or what v does next
  goal,    \* goal[v]: what a rebuild of v is for
  print,   \* print[v]: the fingerprint v believes the index belongs to
  rows,    \* rows[v]: the uncommitted rows of a rebuild
  want,    \* want[v]: the payload being appended
  acked    \* payloads whose append has returned to its caller

vars == <<file, index, flock, txn, pc, goal, print, rows, want, acked>>

Unknown == MaxWrites + 1   \* fingerprint None

TypeOK ==
  /\ file \in [lines : Seq(Seq(Payload)), newline : BOOLEAN, stamp : 0 .. MaxWrites]
  /\ index \in Seq(Payload)
  /\ flock \in View \cup {NoView} /\ txn \in View \cup {NoView}
  /\ pc \in [View -> {"down", "idle", "rebuild", "stat", "ready", "insert"}]
  /\ goal \in [View -> {"serve", "append", "confirm"}]
  /\ print \in [View -> 0 .. Unknown]
  /\ rows \in [View -> Seq(Payload)]
  /\ want \in [View -> Payload \cup {NoPayload}]
  /\ acked \in SUBSET Payload

Init ==
  /\ file = EmptyFile /\ index = <<>>
  /\ flock = NoView /\ txn = NoView
  /\ pc = [v \in View |-> "down"]
  /\ goal = [v \in View |-> "serve"]
  /\ print = [v \in View |-> Unknown]
  /\ rows = [v \in View |-> <<>>]
  /\ want = [v \in View |-> NoPayload]
  /\ acked = {}

-----------------------------------------------------------------------------
Release(v, lock) == IF lock = v THEN NoView ELSE lock

\* The view's process ends, or the exception reaches a caller that gives up.
Die(v) ==
  /\ pc' = [pc EXCEPT ![v] = "down"]
  /\ goal' = [goal EXCEPT ![v] = "serve"]
  /\ print' = [print EXCEPT ![v] = Unknown]
  /\ rows' = [rows EXCEPT ![v] = <<>>]
  /\ want' = [want EXCEPT ![v] = NoPayload]
  /\ flock' = Release(v, flock) /\ txn' = Release(v, txn)

\* The append returns to its caller.
Return(v) ==
  /\ pc' = [pc EXCEPT ![v] = "idle"]
  /\ goal' = [goal EXCEPT ![v] = "serve"]
  /\ want' = [want EXCEPT ![v] = NoPayload]
  /\ flock' = Release(v, flock)

GoRebuild(v, why) ==
  /\ pc' = [pc EXCEPT ![v] = "rebuild"]
  /\ goal' = [goal EXCEPT ![v] = why]

\* Starting up never trusts the rows of an earlier process.
Construct(v) ==
  /\ pc[v] = "down"
  /\ GoRebuild(v, "serve")
  /\ UNCHANGED <<file, index, flock, txn, print, rows, want, acked>>

Crash(v) ==
  /\ pc[v] # "down"
  /\ Die(v)
  /\ UNCHANGED <<file, index, acked>>

-----------------------------------------------------------------------------
(* The rebuild: read and verify every line, then take the fingerprint.     *)

\* Mutation: the rebuild does not verify the lines.
RebuildReadUnverified(v) ==
  /\ pc[v] = "rebuild" /\ txn = NoView
  /\ rows' = [rows EXCEPT ![v] = Events(file)]
  /\ txn' = v
  /\ pc' = [pc EXCEPT ![v] = "stat"]
  /\ UNCHANGED <<flock, goal, print, want>>
  /\ UNCHANGED <<file, index, acked>>

RebuildRead(v) ==
  /\ pc[v] = "rebuild" /\ txn = NoView
  /\ IF Valid(file)
     THEN /\ rows' = [rows EXCEPT ![v] = Events(file)]
          /\ txn' = v
          /\ pc' = [pc EXCEPT ![v] = "stat"]
          /\ UNCHANGED <<flock, goal, print, want>>
     ELSE Die(v)
  /\ UNCHANGED <<file, index, acked>>

\* After a failed insert the event must be found among the rebuilt rows.
RebuildCommit(v) ==
  /\ pc[v] = "stat"
  /\ index' = rows[v]
  /\ CASE goal[v] = "serve" ->
            /\ pc' = [pc EXCEPT ![v] = "idle"]
            /\ UNCHANGED <<flock, goal, want, acked>>
       [] goal[v] = "append" ->
            /\ pc' = [pc EXCEPT ![v] = "ready"]
            /\ UNCHANGED <<flock, goal, want, acked>>
       [] goal[v] = "confirm" ->
            /\ Return(v)
            /\ acked' = acked \cup {want[v]}
  /\ print' = [print EXCEPT ![v] = file.stamp]
  /\ rows' = [rows EXCEPT ![v] = <<>>]
  /\ txn' = NoView
  /\ UNCHANGED file

\* verify, find_event and the other queries: current rows are just read.
Lookup(v) ==
  /\ pc[v] = "idle" /\ print[v] # file.stamp
  /\ GoRebuild(v, "serve")
  /\ UNCHANGED <<file, index, flock, txn, print, rows, want, acked>>

-----------------------------------------------------------------------------
(* Appending once, inside a journal transaction.                           *)

\* Mutation: the fingerprint is not compared again under the lock.
BeginAppendStale(v, p) ==
  /\ pc[v] = "idle" /\ flock = NoView
  /\ flock' = v
  /\ want' = [want EXCEPT ![v] = p]
  /\ pc' = [pc EXCEPT ![v] = "ready"]
  /\ UNCHANGED <<goal, file, index, txn, print, rows, acked>>

BeginAppend(v, p) ==
  /\ pc[v] = "idle" /\ flock = NoView
  /\ flock' = v
  /\ want' = [want EXCEPT ![v] = p]
  /\ IF print[v] = file.stamp
     THEN pc' = [pc EXCEPT ![v] = "ready"] /\ UNCHANGED goal
     ELSE GoRebuild(v, "append")
  /\ UNCHANGED <<file, index, txn, print, rows, acked>>

AlreadyRecorded(v) ==
  /\ pc[v] = "ready" /\ Contains(index, want[v])
  /\ acked' = acked \cup {want[v]}
  /\ Return(v)
  /\ UNCHANGED <<file, index, txn, print, rows>>

\* pre_write_check raises with the file open and nothing written.
Refuse(v) ==
  /\ pc[v] = "ready" /\ ~Contains(index, want[v])
  /\ Return(v)
  /\ UNCHANGED <<file, index, txn, print, rows, acked>>

\* Does some other view rebuild without the journal lock right now?
Undisturbed ==
  RacingRebuild \/ \A v \in View : pc[v] = "stat" => flock = v

\* Mutation: the identity is not looked up before the write.
CanWriteAgain(v) ==
  /\ pc[v] = "ready"
  /\ file.stamp < MaxWrites /\ Undisturbed

CanWrite(v) ==
  /\ pc[v] = "ready" /\ ~Contains(index, want[v])
  /\ file.stamp < MaxWrites /\ Undisturbed

\* Mutation: the derived row is committed before the line is written.
WriteRowFirst(v) ==
  /\ CanWrite(v)
  /\ index' = Append(index, want[v])
  /\ acked' = acked \cup {want[v]}
  /\ pc' = [pc EXCEPT ![v] = "insert"]
  /\ UNCHANGED <<file, flock, txn, goal, print, rows, want>>

Write(v) ==
  /\ CanWrite(v)
  /\ file' = Put(file, Append(index, want[v]), TRUE)
  /\ pc' = [pc EXCEPT ![v] = "insert"]
  /\ UNCHANGED <<index, flock, txn, goal, print, rows, want, acked>>

\* What an interrupted write of a line may leave behind.
Torn(line) ==
  {Put(file, IF how = "fragment" THEN Garbage ELSE line, FALSE) : how \in Tear}

\* The process dies inside the write, or the write raises; either way some
\* prefix of the line is in the file.
TornWrite(v) ==
  /\ CanWrite(v)
  /\ file' \in Torn(Append(index, want[v]))
  /\ \/ Die(v)
     \/ Return(v) /\ UNCHANGED <<txn, print, rows>>
  /\ UNCHANGED <<index, acked>>

\* Mutation: the fingerprint moves on, the row is left out.
InsertWithoutRow(v) ==
  /\ pc[v] = "insert" /\ txn = NoView
  /\ ~Contains(index, want[v])
  /\ print' = [print EXCEPT ![v] = file.stamp]
  /\ acked' = acked \cup {want[v]}
  /\ Return(v)
  /\ UNCHANGED <<index, file, txn, rows>>

\* The derived row, unless another view's rebuild has put it there already: a
\* conflict on the unique identity.
Insert(v) ==
  /\ pc[v] = "insert" /\ txn = NoView
  /\ ~Contains(index, want[v])
  /\ index' = Append(index, want[v])
  /\ print' = [print EXCEPT ![v] = file.stamp]
  /\ acked' = acked \cup {want[v]}
  /\ Return(v)
  /\ UNCHANGED <<file, txn, rows>>

\* A conflict or any SQLite error: the JSONL line is there, so the index is
\* rebuilt from it before the append returns.
InsertFails(v) ==
  /\ pc[v] = "insert"
  /\ GoRebuild(v, "confirm")
  /\ UNCHANGED <<file, index, flock, txn, print, rows, want, acked>>

-----------------------------------------------------------------------------
\* ShadowTradeJournal.append_event by another process, with an identity of its
\* own: verify, write, verify again, all under the journal lock.
CanAppendPlainly(p) ==
  /\ flock = NoView /\ Undisturbed
  /\ Valid(file) /\ ~Contains(Events(file), p)
  /\ file.stamp < MaxWrites

PlainAppend(p) ==
  /\ CanAppendPlainly(p)
  /\ file' = Put(file, Append(Events(file), p), TRUE)
  /\ acked' = IF Valid(file') THEN acked \cup {p} ELSE acked
  /\ UNCHANGED <<index, flock, txn, pc, goal, print, rows, want>>

PlainAppendTorn(p) ==
  /\ CanAppendPlainly(p)
  /\ file' \in Torn(Append(Events(file), p))
  /\ UNCHANGED <<index, flock, txn, pc, goal, print, rows, want, acked>>

Next ==
  \/ \E v \in View :
       \/ Construct(v) \/ Crash(v)
       \/ RebuildRead(v) \/ RebuildCommit(v) \/ Lookup(v)
       \/ \E p \in Payload : BeginAppend(v, p)
       \/ AlreadyRecorded(v) \/ Refuse(v) \/ Write(v) \/ TornWrite(v)
       \/ Insert(v) \/ InsertFails(v)
  \/ \E p \in Payload : PlainAppend(p) \/ PlainAppendTorn(p)

Spec == Init /\ [][Next]_vars

-----------------------------------------------------------------------------
(* Correctness. *)

\* Whoever believes the index to be current reads exactly the events of the
\* JSONL file, and that file is intact: "any unexpected JSONL fingerprint
\* change triggers a complete verify and index rebuild".
IndexMatchesAuthority ==
  \A v \in View :
    pc[v] \in {"idle", "ready"} /\ print[v] = file.stamp =>
      Valid(file) /\ index = Events(file)

\* An append that returned can be read from the JSONL file for ever, whatever
\* happened to the index: "JSONL remains the evidence, SQLite is disposable".
AckedDurable == acked \subseteq ToSet(Readable(file))

\* No identity is recorded twice: not when the writer died between the line
\* and the row, not when two views append the same event.
AppendOnce ==
  \A i, j \in DOMAIN Readable(file) :
    Readable(file)[i] = Readable(file)[j] => i = j

\* A damaged file is preserved: nobody writes to it any more.
DamageIsPreserved == [][~Valid(file) => UNCHANGED file]_vars

\* Seen through a reader of the file, the journal is an append-once log.
Log == INSTANCE EvidenceLog WITH log <- Readable(file)
ImplementsLog == Log!Spec
=============================================================================
