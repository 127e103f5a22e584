-------------------------- MODULE TrueOosAccrual --------------------------
(***************************************************************************)
(* The incremental accrual of the True-OOS candle ledger, with its session *)
(* journal.                                                                *)
(*                                                                         *)
(* An accrual run targets the sequence after the latest manifest.  It      *)
(* records a session as STARTED, reads the broker's candles, verifies the  *)
(* ledger, writes the chunk, the manifest and the report of its sequence,  *)
(* and finalises the session.  Nothing is repaired: a run that finds an    *)
(* unfinished session or an artifact of its sequence does not write.  No   *)
(* lock keeps two runs apart.                                              *)
(*                                                                         *)
(* Chunks and manifests are content-hashed, so a manifest is modelled by   *)
(* the chunks it lists and a chunk by the epochs of its candles.  Sequence *)
(* 0, the empty genesis, and the first accrual are the initial state.      *)
(***************************************************************************)
EXTENDS Naturals, Sequences, FiniteSets, SequencesExt

CONSTANTS Runner,       \* processes that may run an accrual
          MaxEpoch,     \* candles of the market
          MaxAttempts,  \* bound on the attempts a run is launched after
          MaxStops      \* bound on killed processes

ASSUME BoundAssumption ==
  MaxEpoch \in Nat \ {0} /\ MaxAttempts \in Nat /\ MaxStops \in Nat

Epoch == 1 .. MaxEpoch
Sequence == 1 .. MaxEpoch + 1   \* a batch holds a candle at least
Kind == {"chunk", "manifest"}
Absent == <<>>
Started == "STARTED"

VARIABLES
  file,         \* file[k][n]: the batches of artifact n of kind k, or Absent
  temporary,    \* temporary[k][n]: its temporary file
  report,       \* sequences with a report
  session,      \* session[n]: the states of the attempts at sequence n
  sessionTemp,  \* <<n, a>>: a temporary file of attempt a at n
  (* the runs *)
  pc, seq, base, attempt,
  rows,         \* candles retrieved, then candles to append
  kind,         \* the artifact being written
  verdict,      \* the terminal state the session is to get
  calls,        \* finalisations the code still makes
  (* environment *)
  feed,         \* completed candles the broker serves
  stops

artifacts == <<file, temporary, report>>
journal == <<session, sessionTemp>>
memory == <<seq, base, attempt, rows, kind, verdict, calls>>
vars == <<artifacts, journal, pc, memory, feed, stops>>

Batches == Seq(SUBSET Epoch)
Terminal == {"COMPLETED_WRITE", "NO_WRITE"}

TypeOK ==
  /\ file \in [Kind -> [Sequence -> Batches]]
  /\ temporary \in [Kind -> [Sequence -> Batches]]
  /\ report \subseteq Sequence
  /\ session \in [Sequence -> Seq(Terminal \cup {Started, "unreadable"})]
  /\ sessionTemp \subseteq Sequence \X Nat
  /\ pc \in [Runner -> {"down", "raised", "preflight", "recover", "start",
                        "attempt", "create", "fetch", "verify", "build",
                        "recheck", "target", "check", "open", "move",
                        "audit", "report", "finalize", "replace"}]
  /\ seq \in [Runner -> Sequence]
  /\ base \in [Runner -> Batches]
  /\ attempt \in [Runner -> Nat]
  /\ rows \in [Runner -> SUBSET Epoch]
  /\ kind \in [Runner -> Kind]
  /\ verdict \in [Runner -> Terminal]
  /\ calls \in [Runner -> 0 .. 2]
  /\ feed \subseteq Epoch
  /\ stops \in 0 .. MaxStops

Manifests == {n \in Sequence : file["manifest"][n] # Absent}
Latest == CHOOSE n \in Manifests : \A m \in Manifests : m <= n

\* Each manifest continues the one before it.
ChainHolds ==
  \A n \in Manifests \ {1} :
    Front(file["manifest"][n]) = file["manifest"][n - 1]

Before(old, new) == \A x \in old, y \in new : x < y
Chronological(batches) ==
  \A i, j \in DOMAIN batches : i < j => Before(batches[i], batches[j])

\* scan_ledger_gaps over the chunk files there are, manifest or not; a gap is
\* reported and blocks nothing.
ChunksInOrder == Chronological(FoldLeft(\o, <<>>, [n \in Sequence |-> file["chunk"][n]]))

Artifacts(n) == file["chunk"][n] # Absent \/ file["manifest"][n] # Absent \/ n \in report
HasSessionTemp(n) == \E x \in sessionTemp : x[1] = n
States(n) == ToSet(session[n])

Init ==
  /\ file = [k \in Kind |-> [n \in Sequence |-> IF n = 1 THEN <<{1}>> ELSE Absent]]
  /\ temporary = [k \in Kind |-> [n \in Sequence |-> Absent]]
  /\ report = {1}
  /\ session = [n \in Sequence |-> <<>>] /\ sessionTemp = {}
  /\ pc = [r \in Runner |-> "down"]
  /\ seq = [r \in Runner |-> 1]
  /\ base = [r \in Runner |-> Absent]
  /\ attempt = [r \in Runner |-> 0]
  /\ rows = [r \in Runner |-> {}]
  /\ kind = [r \in Runner |-> "chunk"]
  /\ verdict = [r \in Runner |-> "NO_WRITE"]
  /\ calls = [r \in Runner |-> 0]
  /\ feed = {1} /\ stops = 0

-----------------------------------------------------------------------------
(* How a run goes on and ends. *)

Goto(r, step) == pc' = [pc EXCEPT ![r] = step]
Forget(r) ==
  /\ seq' = [seq EXCEPT ![r] = 1]
  /\ base' = [base EXCEPT ![r] = Absent]
  /\ attempt' = [attempt EXCEPT ![r] = 0]
  /\ rows' = [rows EXCEPT ![r] = {}]
  /\ kind' = [kind EXCEPT ![r] = "chunk"]
  /\ verdict' = [verdict EXCEPT ![r] = "NO_WRITE"]
  /\ calls' = [calls EXCEPT ![r] = 0]
Return(r) == Goto(r, "down") /\ Forget(r)
Raise(r) == Goto(r, "raised") /\ Forget(r)

\* Ask for n finalisations of the session with a terminal state.
Conclude(r, state, n) ==
  /\ Goto(r, "finalize")
  /\ verdict' = [verdict EXCEPT ![r] = state]
  /\ calls' = [calls EXCEPT ![r] = n]
  /\ UNCHANGED <<seq, base, attempt, rows, kind>>

Stop(r) ==
  /\ pc[r] \notin {"down", "raised"} /\ stops < MaxStops
  /\ stops' = stops + 1
  /\ Return(r)
  /\ UNCHANGED <<artifacts, journal, feed>>

\* A candle is completed, or the broker fills a gap in its history.
Serve(e) ==
  /\ e \notin feed
  /\ feed' = feed \cup {e}
  /\ UNCHANGED <<artifacts, journal, pc, memory, stops>>

-----------------------------------------------------------------------------
(* Preflight: which sequence is next, and may it be attempted? *)

Launch(r) ==
  /\ pc[r] \in {"down", "raised"}
  /\ ChainHolds
  /\ Len(session[Latest + 1]) < MaxAttempts
  /\ seq' = [seq EXCEPT ![r] = Latest + 1]
  /\ base' = [base EXCEPT ![r] = file["manifest"][Latest]]
  /\ Goto(r, "preflight")
  /\ UNCHANGED <<artifacts, journal, attempt, rows, kind, verdict, calls, feed, stops>>

\* The report looked for here is one of an older name, which no run writes.
Preflight(r) ==
  /\ pc[r] = "preflight"
  /\ IF \E k \in Kind : file[k][seq[r]] # Absent
     THEN Return(r)
     ELSE Goto(r, "recover") /\ UNCHANGED memory
  /\ UNCHANGED <<artifacts, journal, feed, stops>>

\* inspect_recovery_state: only the sessions of the target sequence.
ReadyForSession(n) ==
  ~HasSessionTemp(n) /\ States(n) \subseteq {"NO_WRITE"} /\ ~Artifacts(n)

Recover(r) ==
  /\ pc[r] = "recover"
  /\ IF ReadyForSession(seq[r])
     THEN Goto(r, "start") /\ UNCHANGED memory
     ELSE Return(r)
  /\ UNCHANGED <<artifacts, journal, feed, stops>>

StartSession(r) ==
  /\ pc[r] = "start"
  /\ IF States(seq[r]) \subseteq Terminal /\ ~HasSessionTemp(seq[r])
     THEN Goto(r, "attempt") /\ UNCHANGED memory
     ELSE Raise(r)
  /\ UNCHANGED <<artifacts, journal, feed, stops>>

NextAttempt(r) ==
  /\ pc[r] = "attempt"
  /\ attempt' = [attempt EXCEPT ![r] = Len(session[seq[r]]) + 1]
  /\ Goto(r, "create")
  /\ UNCHANGED <<artifacts, journal, seq, base, rows, kind, verdict, calls, feed, stops>>

AttemptIsFree(r) == attempt[r] = Len(session[seq[r]]) + 1

CreateSession(r) ==
  /\ pc[r] = "create"
  /\ IF AttemptIsFree(r)
     THEN /\ session' = [session EXCEPT ![seq[r]] = Append(@, Started)]
          /\ Goto(r, "fetch") /\ UNCHANGED memory
     ELSE Raise(r) /\ UNCHANGED session
  /\ UNCHANGED <<artifacts, sessionTemp, feed, stops>>

\* The process is killed inside the write of the session file.
TearSession(r) ==
  /\ pc[r] = "create" /\ AttemptIsFree(r) /\ stops < MaxStops
  /\ session' = [session EXCEPT ![seq[r]] = Append(@, "unreadable")]
  /\ stops' = stops + 1
  /\ Return(r)
  /\ UNCHANGED <<artifacts, sessionTemp, feed>>

-----------------------------------------------------------------------------
(* What is to be appended. *)

\* Mutation: the session gets a state recovery does not know.
FetchBlockedUnderOtherState(r) ==
  /\ pc[r] = "fetch"
  /\ \/ Conclude(r, "BLOCKED", 1)
     \/ Raise(r)
     \/ /\ rows' = [rows EXCEPT ![r] = feed]
        /\ Goto(r, "verify")
        /\ UNCHANGED <<seq, base, attempt, kind, verdict, calls>>
  /\ UNCHANGED <<artifacts, journal, feed, stops>>

\* The time authority blocks, MetaTrader fails, or the candles are retrieved.
Fetch(r) ==
  /\ pc[r] = "fetch"
  /\ \/ Conclude(r, "NO_WRITE", 1)
     \/ Raise(r)
     \/ /\ rows' = [rows EXCEPT ![r] = feed]
        /\ Goto(r, "verify")
        /\ UNCHANGED <<seq, base, attempt, kind, verdict, calls>>
  /\ UNCHANGED <<artifacts, journal, feed, stops>>

\* Every chunk the latest manifest lists is there with its hash.
VerifyLedger(r) ==
  /\ pc[r] = "verify"
  /\ IF /\ \A i \in DOMAIN base[r] : file["chunk"][i] = <<base[r][i]>>
        /\ Chronological(base[r])
     THEN Goto(r, "build") /\ UNCHANGED memory
     ELSE Raise(r)
  /\ UNCHANGED <<artifacts, journal, feed, stops>>

\* Mutation: the last recorded candle counts as new.
NewRowsFromLast(r) == {e \in rows[r] : \A i \in DOMAIN base[r] : \A x \in base[r][i] : x <= e}
NewRows(r) == {e \in rows[r] : \A i \in DOMAIN base[r] : Before(base[r][i], {e})}

Build(r) ==
  /\ pc[r] = "build"
  /\ IF ~ChunksInOrder \/ NewRows(r) = {}
     THEN Conclude(r, "NO_WRITE", 1)
     ELSE /\ rows' = [rows EXCEPT ![r] = NewRows(r)]
          /\ Goto(r, "recheck")
          /\ UNCHANGED <<seq, base, attempt, kind, verdict, calls>>
  /\ UNCHANGED <<artifacts, journal, feed, stops>>

BaseChanged(r) == file["manifest"][seq[r] - 1] # base[r]

\* The latest manifest and the time authority report, which another program
\* writes, must not have changed.  When they have, the session is finalised
\* twice.
Recheck(r) ==
  /\ pc[r] = "recheck"
  /\ \/ Conclude(r, "NO_WRITE", 2)
     \/ ~BaseChanged(r) /\ Goto(r, "target") /\ UNCHANGED memory
  /\ UNCHANGED <<artifacts, journal, feed, stops>>

CheckTargets(r) ==
  /\ pc[r] = "target"
  /\ \/ Conclude(r, "NO_WRITE", 1)
     \/ ~Artifacts(seq[r]) /\ ~BaseChanged(r) /\ Goto(r, "check") /\ UNCHANGED memory
  /\ UNCHANGED <<artifacts, journal, feed, stops>>

-----------------------------------------------------------------------------
(* The write-once store: the chunk, then the manifest, each through a      *)
(* temporary file that is moved into place.                                *)

WriteCheck(r) ==
  /\ pc[r] = "check"
  /\ IF file[kind[r]][seq[r]] = Absent /\ temporary[kind[r]][seq[r]] = Absent
     THEN Goto(r, "open") /\ UNCHANGED memory
     ELSE Raise(r)
  /\ UNCHANGED <<artifacts, journal, feed, stops>>

Content(r) == IF kind[r] = "chunk" THEN <<rows[r]>> ELSE Append(base[r], rows[r])

\* If the exclusive open fails, the cleanup removes the file it met.
WriteTemporary(r) ==
  /\ pc[r] = "open"
  /\ IF temporary[kind[r]][seq[r]] = Absent
     THEN /\ temporary' = [temporary EXCEPT ![kind[r]][seq[r]] = Content(r)]
          /\ Goto(r, "move") /\ UNCHANGED memory
     ELSE /\ temporary' = [temporary EXCEPT ![kind[r]][seq[r]] = Absent]
          /\ Raise(r)
  /\ UNCHANGED <<file, report, journal, feed, stops>>

\* Mutation: the manifest is in place before its chunk.
WriteMoveManifestFirst(r) ==
  /\ pc[r] = "move"
  /\ LET other == IF kind[r] = "chunk" THEN "manifest" ELSE "chunk"
     IN  /\ file' = [file EXCEPT ![other][seq[r]] =
                       IF other = "chunk" THEN <<rows[r]>> ELSE Append(base[r], rows[r])]
         /\ kind' = [kind EXCEPT ![r] = other]
  /\ temporary' = [temporary EXCEPT ![kind[r]][seq[r]] = Absent]
  /\ Goto(r, IF kind[r] = "chunk" THEN "check" ELSE "audit")
  /\ UNCHANGED <<report, journal, seq, base, attempt, rows, verdict, calls, feed, stops>>

\* The move replaces whatever is at its target.
WriteMove(r) ==
  /\ pc[r] = "move"
  /\ IF temporary[kind[r]][seq[r]] = Absent
     THEN Raise(r) /\ UNCHANGED <<file, temporary>>
     ELSE /\ file' = [file EXCEPT ![kind[r]][seq[r]] = temporary[kind[r]][seq[r]]]
          /\ temporary' = [temporary EXCEPT ![kind[r]][seq[r]] = Absent]
          /\ kind' = [kind EXCEPT ![r] = "manifest"]
          /\ Goto(r, IF kind[r] = "chunk" THEN "check" ELSE "audit")
          /\ UNCHANGED <<seq, base, attempt, rows, verdict, calls>>
  /\ UNCHANGED <<report, journal, feed, stops>>

\* Mutation: the report is left for after the finalisation.
AuditWithoutReport(r) ==
  /\ pc[r] = "audit"
  /\ Conclude(r, "COMPLETED_WRITE", 1)
  /\ UNCHANGED <<artifacts, journal, feed, stops>>

\* The manifest before is unchanged and the chunks are still in order.
Audit(r) ==
  /\ pc[r] = "audit"
  /\ IF BaseChanged(r) \/ ~ChunksInOrder
     THEN Raise(r)
     ELSE Goto(r, "report") /\ UNCHANGED memory
  /\ UNCHANGED <<artifacts, journal, feed, stops>>

WriteReport(r) ==
  /\ pc[r] = "report"
  /\ IF seq[r] \in report
     THEN Raise(r) /\ UNCHANGED report
     ELSE report' = report \cup {seq[r]} /\ Conclude(r, "COMPLETED_WRITE", 1)
  /\ UNCHANGED <<file, temporary, journal, feed, stops>>

-----------------------------------------------------------------------------
(* The end of the session: a temporary file moved over the STARTED one. *)

Finalize(r) ==
  /\ pc[r] = "finalize"
  /\ IF session[seq[r]][attempt[r]] = Started /\ <<seq[r], attempt[r]>> \notin sessionTemp
     THEN /\ sessionTemp' = sessionTemp \cup {<<seq[r], attempt[r]>>}
          /\ Goto(r, "replace") /\ UNCHANGED memory
     ELSE Raise(r) /\ UNCHANGED sessionTemp
  /\ UNCHANGED <<artifacts, session, feed, stops>>

\* Mutation: a run whose protected files changed goes on after finalising.
FinalizeReplaceGoOn(r) ==
  /\ pc[r] = "replace"
  /\ session' = [session EXCEPT ![seq[r]][attempt[r]] = verdict[r]]
  /\ sessionTemp' = sessionTemp \ {<<seq[r], attempt[r]>>}
  /\ IF calls[r] = 1
     THEN Return(r)
     ELSE Goto(r, "target") /\ UNCHANGED memory
  /\ UNCHANGED <<artifacts, feed, stops>>

FinalizeReplace(r) ==
  /\ pc[r] = "replace"
  /\ session' = [session EXCEPT ![seq[r]][attempt[r]] = verdict[r]]
  /\ sessionTemp' = sessionTemp \ {<<seq[r], attempt[r]>>}
  /\ IF calls[r] = 1
     THEN Return(r)
     ELSE Conclude(r, verdict[r], 1)
  /\ UNCHANGED <<artifacts, feed, stops>>

Next ==
  \/ \E r \in Runner :
       \/ Launch(r) \/ Preflight(r) \/ Recover(r)
       \/ StartSession(r) \/ NextAttempt(r) \/ CreateSession(r) \/ TearSession(r)
       \/ Fetch(r) \/ VerifyLedger(r) \/ Build(r) \/ Recheck(r) \/ CheckTargets(r)
       \/ WriteCheck(r) \/ WriteTemporary(r) \/ WriteMove(r)
       \/ Audit(r) \/ WriteReport(r) \/ Finalize(r) \/ FinalizeReplace(r)
       \/ Stop(r)
  \/ \E e \in Epoch : Serve(e)

Spec == Init /\ [][Next]_vars

-----------------------------------------------------------------------------
(* Correctness. *)

\* What a manifest lists is what the chunk files hold, in chronological order:
\* a later run never fails on "frozen chunk hash failure".
LedgerVerifies ==
  \A n \in Manifests :
    /\ Len(file["manifest"][n]) = n /\ Chronological(file["manifest"][n])
    /\ \A i \in 1 .. n : file["chunk"][i] = <<file["manifest"][n][i]>>

\* "FINALIZE_ONLY_AFTER_CHUNK_MANIFEST_REPORT_DURABLE".
CompletedIsDurable ==
  \A n \in Sequence : "COMPLETED_WRITE" \in States(n) =>
    /\ \A k \in Kind : file[k][n] # Absent
    /\ n \in report

\* "Any STARTED/ambiguous attempt blocks automatic continuation": no session
\* is created while there is an unfinished one.
StartedBlocks ==
  [][\A n \in Sequence : Len(session'[n]) > Len(session[n]) =>
       \A m \in Sequence : Started \notin States(m)]_vars

\* If every attempt at a sequence says that it wrote nothing, nothing of that
\* sequence was written, not even a temporary file.
NoWriteIsTruthful ==
  \A n \in Sequence \ {1} : States(n) \subseteq {"NO_WRITE"} =>
    ~Artifacts(n) /\ \A k \in Kind : temporary[k][n] = Absent

\* The committed ledger grows by later candles only.
Ledger == INSTANCE AccrualLedger WITH batches <- file["manifest"][Latest]
ImplementsLedger == Ledger!Spec
=============================================================================
