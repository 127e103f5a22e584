---------------------- MODULE TrueOosAccrual_proofs ----------------------
(***************************************************************************)
(* Proofs about TrueOosAccrual, for a market of any length and any number  *)
(* of attempts and kills.                                                  *)
(*                                                                         *)
(* What sessions and manifests say of themselves holds however many runs   *)
(* overlap: a run owns the attempt it created, and what it wrote can only  *)
(* be denied by that attempt.  That chunks and manifests agree and that    *)
(* the ledger only grows needs one run at a time: two of them can each     *)
(* move a chunk over the same sequence.                                    *)
(***************************************************************************)
EXTENDS TrueOosAccrual, SequenceTheorems, TLAPS

-----------------------------------------------------------------------------
\* The invariant of overlapping runs

\* The i-th batch of a ledger holds candles, none of them before epoch i.
Growing(batches) ==
  /\ \A i \in 1 .. Len(batches) : batches[i] # {} /\ \A e \in batches[i] : e >= i
  /\ Chronological(batches)

\* What a manifest of sequence n may list.
OfSequence(n, batches) == Len(batches) = n /\ Growing(batches)

\* The manifests are numbered without a gap, and so are those still to be moved.
ManifestInv ==
  /\ \E n \in Epoch : Manifests = 1 .. n
  /\ \A n \in Sequence : \A b \in {file["manifest"][n], temporary["manifest"][n]} :
       b # Absent => OfSequence(n, b)

Running(r) == pc[r] \notin {"down", "raised"}
Concluding(r) == pc[r] \in {"finalize", "replace"}

\* The manifest of the run is in place.
Committed(r) ==
  \/ pc[r] \in {"audit", "report"}
  \/ Concluding(r) /\ verdict[r] = "COMPLETED_WRITE"

\* The steps between the first and the last look at the session.
Opened == {"fetch", "verify", "build", "recheck", "target", "check", "open", "move",
           "audit", "report", "replace"}

\* The run owns an attempt.
Owns(r) == pc[r] \in Opened \cup {"finalize"}

\* The run has written nothing, and its attempt may say so.
Silent(r) ==
  \/ pc[r] \in {"fetch", "verify", "build", "recheck", "target"}
  \/ Concluding(r) /\ verdict[r] = "NO_WRITE"

NothingAt(n) == ~Artifacts(n) /\ \A k \in Kind : temporary[k][n] = Absent

\* What a run holds to whatever the others do.
OwnInv(r) ==
  /\ Running(r) => /\ seq[r] # 1 /\ seq[r] - 1 \in Manifests
                   /\ OfSequence(seq[r] - 1, base[r])
  /\ pc[r] \notin {"check", "open", "move", "audit", "report", "finalize", "replace"} =>
       kind[r] = "chunk"
  /\ pc[r] \in {"recheck", "target", "check", "open", "move"} =>
       rows[r] # {} /\ \A i \in DOMAIN base[r] : Before(base[r][i], rows[r])
  /\ pc[r] \in {"check", "open", "move"} /\ kind[r] = "manifest" =>
       file["chunk"][seq[r]] # Absent
  /\ Committed(r) => \A k \in Kind : file[k][seq[r]] # Absent
  /\ Concluding(r) /\ verdict[r] = "COMPLETED_WRITE" => seq[r] \in report
  /\ Owns(r) => attempt[r] \in DOMAIN session[seq[r]]
  /\ pc[r] \in Opened => session[seq[r]][attempt[r]] = Started

\* No attempt belongs to two runs.
OwnerInv ==
  \A r, s \in Runner : r # s /\ Owns(r) /\ Owns(s) /\ seq[r] = seq[s] => attempt[r] # attempt[s]

\* Where something was written, an attempt does not and will not deny it.
WitnessInv ==
  \A n \in Sequence \ {1} : ~NothingAt(n) =>
    \E a \in DOMAIN session[n] :
      /\ session[n][a] # "NO_WRITE"
      /\ \A r \in Runner : Silent(r) => <<seq[r], attempt[r]>> # <<n, a>>

SharedInv ==
  /\ TypeOK
  /\ ManifestInv /\ CompletedIsDurable
  /\ OwnerInv /\ WitnessInv
  /\ \A r \in Runner : OwnInv(r)

-----------------------------------------------------------------------------
\* Manifests and sequences

\* With manifests numbered without a gap there is a last one, and a next number.
LEMMA LatestIs ==
  ASSUME NEW n \in Epoch, Manifests = 1 .. n
  PROVE  Latest = n /\ Latest \in Manifests /\ Latest + 1 \in Sequence
<1>1. n \in Manifests /\ \A m \in Manifests : m <= n
  BY DEF Epoch
<1>2. Latest \in Manifests /\ \A m \in Manifests : m <= Latest
  BY <1>1 DEF Latest
<1> QED
  BY <1>1, <1>2, BoundAssumption DEF Epoch, Sequence

\* A candle after the last one recorded belongs to a later epoch.
LEMMA LaterRows ==
  ASSUME NEW b \in Batches, NEW new \in SUBSET Epoch, b # <<>>, Growing(b),
         \A i \in DOMAIN b : Before(b[i], new)
  PROVE  /\ \A e \in new : e >= Len(b) + 1
         /\ new # {} => Growing(Append(b, new)) /\ Len(b) + 1 \in Epoch
<1>1. Len(b) \in Nat \ {0} /\ DOMAIN b = 1 .. Len(b) /\ \A i \in DOMAIN b : b[i] \subseteq Epoch
  BY DEF Batches
<1>2. PICK old \in b[Len(b)] : old >= Len(b) /\ old \in Nat
  BY <1>1 DEF Growing, Epoch
<1>3. ASSUME NEW e \in new PROVE e >= Len(b) + 1 /\ e \in Nat /\ e <= MaxEpoch
  <2>1. old < e
    BY <1>1, <1>2 DEF Before
  <2> QED
    BY <1>1, <1>2, <2>1, BoundAssumption DEF Epoch
<1>4. /\ Len(Append(b, new)) = Len(b) + 1 /\ DOMAIN Append(b, new) = 1 .. Len(b) + 1
      /\ Append(b, new)[Len(b) + 1] = new /\ \A i \in 1 .. Len(b) : Append(b, new)[i] = b[i]
  BY <1>1 DEF Batches
<1>5. ASSUME new # {} PROVE Growing(Append(b, new))
  <2>1. \A i \in 1 .. Len(b) + 1 :
          Append(b, new)[i] # {} /\ \A e \in Append(b, new)[i] : e >= i
    BY <1>1, <1>3, <1>4, <1>5 DEF Growing
  <2>2. Chronological(Append(b, new))
    BY <1>1, <1>4 DEF Growing, Chronological
  <2> QED
    BY <1>4, <2>1, <2>2 DEF Growing
<1>6. ASSUME new # {} PROVE Len(b) + 1 \in Epoch
  <2>1. PICK e \in new : TRUE
    BY <1>6
  <2>2. e >= Len(b) + 1 /\ e \in Nat /\ e <= MaxEpoch
    BY <1>3
  <2> QED
    BY <1>1, <2>2, BoundAssumption DEF Epoch
<1> QED
  BY <1>3, <1>5, <1>6

LEMMA AppendedState ==
  ASSUME NEW S, NEW s \in Seq(S), NEW v \in S
  PROVE  /\ Append(s, v) \in Seq(S) /\ Len(Append(s, v)) = Len(s) + 1
         /\ DOMAIN Append(s, v) = 1 .. Len(s) + 1
         /\ Append(s, v)[Len(s) + 1] = v /\ \A i \in 1 .. Len(s) : Append(s, v)[i] = s[i]
         /\ DOMAIN s = 1 .. Len(s) /\ Len(s) \in Nat
OBVIOUS

LEMMA ReplacedState ==
  ASSUME NEW S, NEW s \in Seq(S), NEW i \in DOMAIN s, NEW v \in S
  PROVE  /\ [s EXCEPT ![i] = v] \in Seq(S)
         /\ DOMAIN [s EXCEPT ![i] = v] = DOMAIN s
         /\ \A j \in DOMAIN s : [s EXCEPT ![i] = v][j] = IF j = i THEN v ELSE s[j]
BY ExceptSeq

LEMMA Appended ==
  ASSUME NEW S, NEW b \in Seq(S), NEW x \in S
  PROVE  /\ <<>> \in Seq(S) /\ <<x>> \in Seq(S)
         /\ Append(b, x) \in Seq(S) /\ Append(b, x) # <<>>
         /\ Len(b) \in Nat /\ Len(Append(b, x)) = Len(b) + 1
         /\ Append(b, x)[Len(b) + 1] = x
         /\ \A i \in 1 .. Len(b) : Append(b, x)[i] = b[i]
OBVIOUS

LEMMA BatchAppended ==
  ASSUME NEW b \in Batches, NEW x \in SUBSET Epoch
  PROVE  /\ Absent \in Batches /\ <<x>> \in Batches
         /\ Append(b, x) \in Batches /\ Append(b, x) # Absent
         /\ Len(b) \in Nat /\ Len(Append(b, x)) = Len(b) + 1
         /\ Append(b, x)[Len(b) + 1] = x
         /\ \A i \in 1 .. Len(b) : Append(b, x)[i] = b[i]
BY Appended DEF Batches, Absent

-----------------------------------------------------------------------------
\* What a step of a run may change

RunStep(r) ==
  \/ Launch(r) \/ Preflight(r) \/ Recover(r)
  \/ StartSession(r) \/ NextAttempt(r) \/ CreateSession(r) \/ TearSession(r)
  \/ Fetch(r) \/ VerifyLedger(r) \/ Build(r) \/ Recheck(r) \/ CheckTargets(r)
  \/ WriteCheck(r) \/ WriteTemporary(r) \/ WriteMove(r)
  \/ Audit(r) \/ WriteReport(r) \/ Finalize(r) \/ FinalizeReplace(r)
  \/ Stop(r)

\* The steps that write no file.
QuietStep(r) ==
  \/ Launch(r) \/ Preflight(r) \/ Recover(r) \/ StartSession(r) \/ NextAttempt(r)
  \/ Fetch(r) \/ VerifyLedger(r) \/ Build(r) \/ Recheck(r) \/ CheckTargets(r)
  \/ WriteCheck(r) \/ Audit(r) \/ Stop(r)

LEMMA QuietWritesNothing ==
  ASSUME NEW r \in Runner, QuietStep(r)
  PROVE  UNCHANGED <<artifacts, journal>>
BY DEF QuietStep, Launch, Preflight, Recover, StartSession, NextAttempt, Fetch, VerifyLedger,
       Build, Recheck, CheckTargets, WriteCheck, Audit, Stop

LEMMA WhichStep ==
  ASSUME NEW r \in Runner, RunStep(r)
  PROVE  \/ QuietStep(r) \/ CreateSession(r) \/ TearSession(r) \/ WriteTemporary(r)
         \/ WriteMove(r) \/ WriteReport(r) \/ Finalize(r) \/ FinalizeReplace(r)
BY DEF RunStep, QuietStep

\* A run ends, and forgets what it knew.
Ends(r) == Return(r) \/ Raise(r)

LEMMA EndFacts ==
  ASSUME TypeOK, NEW r \in Runner, Ends(r)
  PROVE  /\ pc'[r] \in {"down", "raised"} /\ kind'[r] = "chunk"
         /\ pc' \in [Runner -> {"down", "raised", "preflight", "recover", "start",
                                "attempt", "create", "fetch", "verify", "build",
                                "recheck", "target", "check", "open", "move",
                                "audit", "report", "finalize", "replace"}]
         /\ seq' \in [Runner -> Sequence] /\ base' \in [Runner -> Batches]
         /\ attempt' \in [Runner -> Nat] /\ rows' \in [Runner -> SUBSET Epoch]
         /\ kind' \in [Runner -> Kind] /\ verdict' \in [Runner -> Terminal]
         /\ calls' \in [Runner -> 0 .. 2]
<1>1. 1 \in Sequence /\ Absent \in Batches
  BY BoundAssumption DEF Sequence, Absent, Batches
<1>2. PICK step \in {"down", "raised"} : Goto(r, step) /\ Forget(r)
  BY DEF Ends, Return, Raise
<1> QED
  BY <1>1, <1>2 DEF TypeOK, Goto, Forget, Kind, Terminal

\* How a run goes on: to another step with what it knew, or with a verdict.
GoesOn(r, step) == Goto(r, step) /\ UNCHANGED memory

\* What a step does to the run: it ends, it goes on, or it learns one thing.
LEMMA RunFacts ==
  ASSUME TypeOK, NEW r \in Runner, RunStep(r)
  PROVE  \/ Ends(r)
         \/ \E step \in {"recover", "start", "attempt", "fetch", "build", "target", "check",
                         "open", "move", "report", "replace"} : GoesOn(r, step)
         \/ Launch(r) \/ NextAttempt(r)
         \/ \E n \in 1 .. 2 : Conclude(r, "NO_WRITE", n)
         \/ \E v \in Terminal : v = verdict[r] /\ Conclude(r, v, 1)
         \/ Conclude(r, "COMPLETED_WRITE", 1)
         \/ /\ rows' = [rows EXCEPT ![r] = feed] /\ Goto(r, "verify")
            /\ UNCHANGED <<seq, base, attempt, kind, verdict, calls>>
         \/ /\ rows' = [rows EXCEPT ![r] = NewRows(r)] /\ Goto(r, "recheck")
            /\ UNCHANGED <<seq, base, attempt, kind, verdict, calls>>
         \/ /\ kind' = [kind EXCEPT ![r] = "manifest"]
            /\ Goto(r, "check") \/ Goto(r, "audit")
            /\ UNCHANGED <<seq, base, attempt, rows, verdict, calls>>
<1>1. verdict[r] \in Terminal
  BY DEF TypeOK
<1>2. CASE Launch(r) \/ NextAttempt(r)
  BY <1>2
<1>3. CASE Preflight(r) \/ Recover(r) \/ StartSession(r)
  BY <1>3, Zenon DEF Preflight, Recover, StartSession, Ends, GoesOn
<1>4. CASE CreateSession(r) \/ TearSession(r) \/ VerifyLedger(r)
  BY <1>4, Zenon DEF CreateSession, TearSession, VerifyLedger, Ends, GoesOn
<1>5. CASE Fetch(r) \/ Build(r) \/ Recheck(r) \/ CheckTargets(r)
  <2>1. 1 \in 1 .. 2 /\ 2 \in 1 .. 2
    OBVIOUS
  <2> QED
    BY <1>5, <2>1, Zenon DEF Fetch, Build, Recheck, CheckTargets, Ends, GoesOn
<1>6. CASE WriteCheck(r) \/ WriteTemporary(r) \/ Audit(r) \/ Finalize(r) \/ Stop(r)
  BY <1>6, Zenon DEF WriteCheck, WriteTemporary, Audit, Finalize, Stop, Ends, GoesOn
<1>7. CASE WriteMove(r)
  BY <1>7, Zenon DEF WriteMove, Ends
<1>8. CASE WriteReport(r) \/ FinalizeReplace(r)
  BY <1>1, <1>8, Zenon DEF WriteReport, FinalizeReplace, Ends
<1> QED
  BY <1>2, <1>3, <1>4, <1>5, <1>6, <1>7, <1>8 DEF RunStep

\* The other runs go on as if nothing had happened.
LEMMA OtherRuns ==
  ASSUME TypeOK, NEW r \in Runner, RunStep(r), NEW s \in Runner \ {r}
  PROVE  /\ pc'[s] = pc[s] /\ seq'[s] = seq[s] /\ base'[s] = base[s] /\ attempt'[s] = attempt[s]
         /\ rows'[s] = rows[s] /\ kind'[s] = kind[s] /\ verdict'[s] = verdict[s]
<1>1. /\ pc \in [Runner -> {"down", "raised", "preflight", "recover", "start",
                            "attempt", "create", "fetch", "verify", "build",
                            "recheck", "target", "check", "open", "move",
                            "audit", "report", "finalize", "replace"}]
      /\ seq \in [Runner -> Sequence] /\ base \in [Runner -> Batches]
      /\ attempt \in [Runner -> Nat] /\ rows \in [Runner -> SUBSET Epoch]
      /\ kind \in [Runner -> Kind] /\ verdict \in [Runner -> Terminal]
  BY DEF TypeOK
<1>2. CASE Ends(r)
  BY <1>1, <1>2 DEF Ends, Return, Raise, Goto, Forget
<1>3. ASSUME NEW step, GoesOn(r, step)
      PROVE  /\ pc'[s] = pc[s] /\ seq'[s] = seq[s] /\ base'[s] = base[s]
             /\ attempt'[s] = attempt[s] /\ rows'[s] = rows[s] /\ kind'[s] = kind[s]
             /\ verdict'[s] = verdict[s]
  BY <1>1, <1>3 DEF GoesOn, Goto, memory
<1>4. CASE Launch(r) \/ NextAttempt(r)
  BY <1>1, <1>4 DEF Launch, NextAttempt, Goto
<1>5. ASSUME NEW v, NEW n, Conclude(r, v, n)
      PROVE  /\ pc'[s] = pc[s] /\ seq'[s] = seq[s] /\ base'[s] = base[s]
             /\ attempt'[s] = attempt[s] /\ rows'[s] = rows[s] /\ kind'[s] = kind[s]
             /\ verdict'[s] = verdict[s]
  BY <1>1, <1>5 DEF Conclude, Goto
<1>6. ASSUME NEW step, NEW R, Goto(r, step), rows' = [rows EXCEPT ![r] = R],
             UNCHANGED <<seq, base, attempt, kind, verdict>>
      PROVE  /\ pc'[s] = pc[s] /\ seq'[s] = seq[s] /\ base'[s] = base[s]
             /\ attempt'[s] = attempt[s] /\ rows'[s] = rows[s] /\ kind'[s] = kind[s]
             /\ verdict'[s] = verdict[s]
  BY <1>1, <1>6 DEF Goto
<1>7. CASE /\ kind' = [kind EXCEPT ![r] = "manifest"]
           /\ Goto(r, "check") \/ Goto(r, "audit")
           /\ UNCHANGED <<seq, base, attempt, rows, verdict, calls>>
  BY <1>1, <1>7 DEF Goto
<1> QED
  BY <1>2, <1>3, <1>4, <1>5, <1>6, <1>7, RunFacts

\* Files are replaced and never removed, and a run writes at its own sequence.
LEMMA FileFacts ==
  ASSUME TypeOK, NEW r \in Runner, RunStep(r)
  PROVE  /\ report \subseteq report' /\ report' \subseteq Sequence
         /\ \A k \in Kind : \A n \in Sequence :
              /\ file[k][n] # Absent => file'[k][n] # Absent
              /\ n # seq[r] => file'[k][n] = file[k][n] /\ temporary'[k][n] = temporary[k][n]
         /\ pc[r] \notin {"open", "move", "report"} => UNCHANGED artifacts
         /\ report' \subseteq report \cup {seq[r]}
<1>1. /\ file \in [Kind -> [Sequence -> Batches]]
      /\ temporary \in [Kind -> [Sequence -> Batches]]
      /\ report \subseteq Sequence /\ seq[r] \in Sequence /\ kind[r] \in Kind
  BY DEF TypeOK
<1>2. CASE UNCHANGED artifacts
  BY <1>1, <1>2 DEF artifacts
<1>3. CASE WriteTemporary(r)
  BY <1>1, <1>3 DEF WriteTemporary
<1>4. CASE WriteMove(r)
  BY <1>1, <1>4 DEF WriteMove
<1>5. CASE WriteReport(r)
  BY <1>1, <1>5 DEF WriteReport
<1>6. CASE CreateSession(r) \/ TearSession(r) \/ Finalize(r) \/ FinalizeReplace(r)
  BY <1>2, <1>6 DEF CreateSession, TearSession, Finalize, FinalizeReplace
<1> QED
  BY <1>2, <1>3, <1>4, <1>5, <1>6, WhichStep, QuietWritesNothing

\* An attempt is added, or that of the run gets its verdict; nothing else
\* happens to the sessions.
LEMMA SessionFacts ==
  ASSUME TypeOK, NEW r \in Runner, RunStep(r), Owns(r) => attempt[r] \in DOMAIN session[seq[r]]
  PROVE  /\ session' \in [Sequence -> Seq(Terminal \cup {Started, "unreadable"})]
         /\ \A n \in Sequence : \A a \in DOMAIN session[n] :
              /\ a \in DOMAIN session'[n]
              /\ \/ session'[n][a] = session[n][a]
                 \/ /\ pc[r] = "replace" /\ n = seq[r] /\ a = attempt[r]
                    /\ session'[n][a] = verdict[r]
         /\ \A n \in Sequence : \A a \in DOMAIN session'[n] :
              \/ a \in DOMAIN session[n]
              \/ session'[n][a] \in {Started, "unreadable"}
         /\ CreateSession(r) /\ pc'[r] = "fetch" =>
              /\ attempt[r] \notin DOMAIN session[seq[r]]
              /\ attempt[r] \in DOMAIN session'[seq[r]]
              /\ session'[seq[r]][attempt[r]] = Started
<1> DEFINE n == seq[r]
           S == Terminal \cup {Started, "unreadable"}
<1>1. /\ session \in [Sequence -> Seq(S)] /\ n \in Sequence /\ session[n] \in Seq(S)
      /\ verdict[r] \in Terminal
  BY DEF TypeOK
<1>2. CASE UNCHANGED session /\ ~CreateSession(r)
  BY <1>1, <1>2
<1>3. ASSUME NEW v \in {Started, "unreadable"},
             session' = [session EXCEPT ![n] = Append(@, v)]
      PROVE  /\ session' \in [Sequence -> Seq(S)]
             /\ \A m \in Sequence : \A a \in DOMAIN session[m] :
                  a \in DOMAIN session'[m] /\ session'[m][a] = session[m][a]
             /\ \A m \in Sequence : \A a \in DOMAIN session'[m] :
                  a \in DOMAIN session[m] \/ session'[m][a] = v
             /\ Len(session[n]) + 1 \notin DOMAIN session[n]
             /\ Len(session[n]) + 1 \in DOMAIN session'[n]
             /\ session'[n][Len(session[n]) + 1] = v
  <2>1. /\ session'[n] = Append(session[n], v)
        /\ \A m \in Sequence \ {n} : session'[m] = session[m]
    BY <1>1, <1>3
  <2>2. /\ session'[n] \in Seq(S) /\ Len(session[n]) \in Nat
        /\ DOMAIN session[n] = 1 .. Len(session[n])
        /\ DOMAIN session'[n] = 1 .. Len(session[n]) + 1
        /\ session'[n][Len(session[n]) + 1] = v
        /\ \A a \in 1 .. Len(session[n]) : session'[n][a] = session[n][a]
    BY <1>1, <1>3, <2>1, AppendedState
  <2>3. session' \in [Sequence -> Seq(S)]
    BY <1>1, <1>3, <2>1, <2>2
  <2>4. \A a \in DOMAIN session[n] : a \in DOMAIN session'[n] /\ session'[n][a] = session[n][a]
    BY <2>2
  <2>5. \A a \in DOMAIN session'[n] : a \in DOMAIN session[n] \/ session'[n][a] = v
    BY <2>2
  <2>6. Len(session[n]) + 1 \notin DOMAIN session[n] /\ Len(session[n]) + 1 \in DOMAIN session'[n]
    BY <2>2
  <2> QED
    BY <2>1, <2>2, <2>3, <2>4, <2>5, <2>6
<1>4. CASE CreateSession(r)
  <2>1. CASE UNCHANGED session
    <3>1. pc'[r] # "fetch"
      <4>1. CASE Raise(r)
        BY <4>1 DEF Raise, Goto, TypeOK
      <4>2. CASE session' = [session EXCEPT ![n] = Append(@, Started)]
        <5>1. Len(session[n]) + 1 \in DOMAIN session[n] /\ Len(session[n]) + 1 \notin DOMAIN session[n]
          BY <1>3, <2>1, <4>2
        <5> QED
          BY <5>1
      <4> QED
        BY <1>4, <4>1, <4>2 DEF CreateSession
    <3> QED
      BY <1>1, <2>1, <3>1
  <2>2. CASE AttemptIsFree(r) /\ session' = [session EXCEPT ![n] = Append(@, Started)]
    <3>1. attempt[r] = Len(session[n]) + 1
      BY <2>2 DEF AttemptIsFree
    <3> QED
      BY <1>3, <2>2, <3>1
  <2> QED
    BY <1>4, <2>1, <2>2 DEF CreateSession
<1>5. CASE TearSession(r)
  <2>1. session' = [session EXCEPT ![n] = Append(@, "unreadable")] /\ pc'[r] # "fetch"
    BY <1>5 DEF TearSession, Return, Goto, TypeOK
  <2> QED
    BY <1>3, <2>1
<1>6. CASE FinalizeReplace(r)
  <2>1. /\ pc[r] = "replace" /\ pc[r] # "create" /\ attempt[r] \in DOMAIN session[n]
        /\ session' = [session EXCEPT ![n][attempt[r]] = verdict[r]]
    BY <1>6 DEF FinalizeReplace, Owns, Opened
  <2>2. /\ session'[n] = [session[n] EXCEPT ![attempt[r]] = verdict[r]]
        /\ \A m \in Sequence \ {n} : session'[m] = session[m]
    BY <1>1, <2>1
  <2>3. /\ session'[n] \in Seq(S) /\ DOMAIN session'[n] = DOMAIN session[n]
        /\ \A a \in DOMAIN session[n] :
             session'[n][a] = IF a = attempt[r] THEN verdict[r] ELSE session[n][a]
    BY <1>1, <2>1, <2>2, ReplacedState
  <2>4. session' \in [Sequence -> Seq(S)]
    BY <1>1, <2>1, <2>2, <2>3
  <2>5. ~CreateSession(r)
    BY <2>1 DEF CreateSession
  <2> QED
    BY <2>1, <2>2, <2>3, <2>4, <2>5
<1>7. CASE WriteTemporary(r) \/ WriteMove(r) \/ WriteReport(r) \/ Finalize(r)
  BY <1>2, <1>7 DEF WriteTemporary, WriteMove, WriteReport, Finalize, CreateSession, journal
<1>8. CASE QuietStep(r)
  BY <1>2, <1>4, <1>8, QuietWritesNothing DEF journal
<1> QED
  BY <1>4, <1>5, <1>6, <1>7, <1>8, WhichStep

\* Every step keeps the types.
LEMMA TypeStep ==
  ASSUME SharedInv, NEW r \in Runner, RunStep(r)
  PROVE  TypeOK'
<1>0. /\ pc \in [Runner -> {"down", "raised", "preflight", "recover", "start",
                            "attempt", "create", "fetch", "verify", "build",
                            "recheck", "target", "check", "open", "move",
                            "audit", "report", "finalize", "replace"}]
      /\ seq \in [Runner -> Sequence] /\ base \in [Runner -> Batches]
      /\ attempt \in [Runner -> Nat] /\ rows \in [Runner -> SUBSET Epoch]
      /\ kind \in [Runner -> Kind] /\ verdict \in [Runner -> Terminal]
      /\ calls \in [Runner -> 0 .. 2] /\ feed \subseteq Epoch
      /\ TypeOK
  BY DEF SharedInv, TypeOK
<1>1. file' \in [Kind -> [Sequence -> Batches]] /\ temporary' \in [Kind -> [Sequence -> Batches]]
  <2>1. /\ file \in [Kind -> [Sequence -> Batches]]
        /\ temporary \in [Kind -> [Sequence -> Batches]]
        /\ seq[r] \in Sequence /\ kind[r] \in Kind
        /\ rows[r] \in SUBSET Epoch /\ base[r] \in Batches
    BY <1>0 DEF TypeOK
  <2>2. Content(r) \in Batches /\ Absent \in Batches
    BY <2>1, BatchAppended DEF Content
  <2>3. CASE WriteTemporary(r)
    <3>1. PICK content \in Batches : temporary' = [temporary EXCEPT ![kind[r]][seq[r]] = content]
      BY <2>2, <2>3 DEF WriteTemporary
    <3>2. file' = file
      BY <2>3 DEF WriteTemporary
    <3> QED
      BY <2>1, <3>1, <3>2
  <2>4. CASE WriteMove(r)
    <3>1. CASE UNCHANGED <<file, temporary>>
      BY <2>1, <3>1
    <3>2. CASE /\ file' = [file EXCEPT ![kind[r]][seq[r]] = temporary[kind[r]][seq[r]]]
               /\ temporary' = [temporary EXCEPT ![kind[r]][seq[r]] = Absent]
      <4>1. temporary[kind[r]][seq[r]] \in Batches
        BY <2>1
      <4> QED
        BY <2>1, <2>2, <3>2, <4>1
    <3> QED
      BY <2>4, <3>1, <3>2 DEF WriteMove
  <2>5. CASE UNCHANGED <<file, temporary>>
    BY <2>1, <2>5
  <2>6. CASE WriteReport(r) \/ CreateSession(r) \/ TearSession(r) \/ Finalize(r) \/ FinalizeReplace(r)
    BY <2>5, <2>6 DEF WriteReport, CreateSession, TearSession, Finalize, FinalizeReplace, artifacts
  <2> QED
    BY <2>3, <2>4, <2>5, <2>6, WhichStep, QuietWritesNothing DEF artifacts
<1>2. report' \subseteq Sequence
  BY <1>0, FileFacts
<1>3. session' \in [Sequence -> Seq(Terminal \cup {Started, "unreadable"})]
  BY SessionFacts DEF SharedInv, OwnInv, TypeOK
<1>4. sessionTemp' \subseteq Sequence \X Nat
  <2>1. sessionTemp \subseteq Sequence \X Nat /\ <<seq[r], attempt[r]>> \in Sequence \X Nat
    BY <1>0 DEF TypeOK
  <2>2. sessionTemp' \subseteq sessionTemp \cup {<<seq[r], attempt[r]>>}
    <3>1. CASE QuietStep(r)
      BY <3>1, QuietWritesNothing DEF journal
    <3>2. CASE \/ CreateSession(r) \/ TearSession(r) \/ WriteTemporary(r)
               \/ WriteMove(r) \/ WriteReport(r) \/ Finalize(r) \/ FinalizeReplace(r)
      BY <3>2 DEF CreateSession, TearSession, WriteTemporary, WriteMove, WriteReport, Finalize,
                  FinalizeReplace, journal
    <3> QED
      BY <3>1, <3>2, WhichStep
  <2> QED
    BY <2>1, <2>2
<1>5. feed' \subseteq Epoch /\ stops' \in 0 .. MaxStops
  <2>1. feed' = feed /\ (stops' = stops \/ (stops' = stops + 1 /\ stops < MaxStops))
    BY DEF RunStep, Launch, Preflight, Recover, StartSession, NextAttempt, CreateSession,
           TearSession, Fetch, VerifyLedger, Build, Recheck, CheckTargets, WriteCheck,
           WriteTemporary, WriteMove, Audit, WriteReport, Finalize, FinalizeReplace, Stop
  <2>2. feed \subseteq Epoch /\ stops \in 0 .. MaxStops
    BY <1>0 DEF TypeOK
  <2> QED
    BY <2>1, <2>2, BoundAssumption
<1> DEFINE M == /\ pc' \in [Runner -> {"down", "raised", "preflight", "recover", "start",
                                       "attempt", "create", "fetch", "verify", "build",
                                       "recheck", "target", "check", "open", "move",
                                       "audit", "report", "finalize", "replace"}]
                /\ seq' \in [Runner -> Sequence] /\ base' \in [Runner -> Batches]
                /\ attempt' \in [Runner -> Nat] /\ rows' \in [Runner -> SUBSET Epoch]
                /\ kind' \in [Runner -> Kind] /\ verdict' \in [Runner -> Terminal]
                /\ calls' \in [Runner -> 0 .. 2]
<1>6. ASSUME Ends(r) PROVE M
  BY <1>0, <1>6, EndFacts
<1>7. ASSUME NEW step \in {"recover", "start", "attempt", "fetch", "build", "target", "check",
                           "open", "move", "report", "replace"}, GoesOn(r, step)
      PROVE  M
  BY <1>0, <1>7 DEF GoesOn, Goto, memory
<1>8. ASSUME Launch(r) PROVE M
  <2>1. PICK n \in Epoch : Manifests = 1 .. n
    BY DEF SharedInv, ManifestInv
  <2>2. Latest \in Manifests /\ Latest + 1 \in Sequence
    BY <2>1, LatestIs
  <2>3. file["manifest"][Latest] \in Batches
    BY <1>0, <2>2 DEF TypeOK, Kind, Manifests
  <2> QED
    BY <1>0, <1>8, <2>2, <2>3 DEF Launch, Goto
<1>9. ASSUME NextAttempt(r) PROVE M
  <2>1. Len(session[seq[r]]) + 1 \in Nat
    BY <1>0 DEF TypeOK
  <2> QED
    BY <1>0, <1>9, <2>1 DEF NextAttempt, Goto
<1>10. ASSUME NEW n \in 1 .. 2, NEW v \in Terminal, Conclude(r, v, n)
       PROVE  M
  BY <1>0, <1>10 DEF Conclude, Goto
<1>11. ASSUME NEW R \in SUBSET Epoch, NEW step \in {"verify", "recheck"},
              rows' = [rows EXCEPT ![r] = R], Goto(r, step),
              UNCHANGED <<seq, base, attempt, kind, verdict, calls>>
       PROVE  M
  BY <1>0, <1>11 DEF Goto
<1>12. ASSUME kind' = [kind EXCEPT ![r] = "manifest"], Goto(r, "check") \/ Goto(r, "audit"),
              UNCHANGED <<seq, base, attempt, rows, verdict, calls>>
       PROVE  M
  BY <1>0, <1>12 DEF Goto, Kind
<1>13. NewRows(r) \in SUBSET Epoch
  BY <1>0 DEF NewRows
<1>14. "NO_WRITE" \in Terminal /\ "COMPLETED_WRITE" \in Terminal /\ 1 \in 1 .. 2
  BY DEF Terminal
<1>15. M
  <2> HIDE DEF M
  <2> QED
    BY <1>0, <1>6, <1>7, <1>8, <1>9, <1>10, <1>11, <1>12, <1>13, <1>14, RunFacts
<1> QED
  BY <1>1, <1>2, <1>3, <1>4, <1>5, <1>15 DEF TypeOK

\* Every step keeps the manifests numbered, and what they list growing.
LEMMA ManifestStep ==
  ASSUME SharedInv, NEW r \in Runner, RunStep(r)
  PROVE  ManifestInv' /\ Manifests \subseteq Manifests'
<1>0. /\ file \in [Kind -> [Sequence -> Batches]]
      /\ temporary \in [Kind -> [Sequence -> Batches]]
      /\ seq[r] \in Sequence /\ kind[r] \in Kind
      /\ rows[r] \in SUBSET Epoch /\ base[r] \in Batches
      /\ ManifestInv /\ OwnInv(r) /\ TypeOK
  BY DEF SharedInv, TypeOK
<1>1. CASE UNCHANGED <<file, temporary>>
  BY <1>0, <1>1 DEF ManifestInv, Manifests
<1>2. CASE WriteTemporary(r)
  <2>1. pc[r] = "open" /\ file' = file
    BY <1>2 DEF WriteTemporary
  <2>2. PICK content \in {Content(r), Absent} :
          temporary' = [temporary EXCEPT ![kind[r]][seq[r]] = content]
    BY <1>2 DEF WriteTemporary
  <2>3. kind[r] = "manifest" => OfSequence(seq[r], Content(r))
    <3> SUFFICES ASSUME kind[r] = "manifest" PROVE OfSequence(seq[r], Append(base[r], rows[r]))
      BY DEF Content
    <3>1. /\ OfSequence(seq[r] - 1, base[r]) /\ seq[r] - 1 \in Manifests /\ rows[r] # {}
          /\ \A i \in DOMAIN base[r] : Before(base[r][i], rows[r])
      BY <1>0, <2>1 DEF OwnInv, Running
    <3>2. Len(base[r]) = seq[r] - 1 /\ Growing(base[r]) /\ seq[r] - 1 \in Sequence
      BY <3>1 DEF OfSequence, Manifests
    <3>3. base[r] # <<>>
      BY <3>2 DEF Sequence
    <3>4. Growing(Append(base[r], rows[r])) /\ Len(Append(base[r], rows[r])) = Len(base[r]) + 1
      BY <1>0, <3>1, <3>2, <3>3, LaterRows, BatchAppended
    <3>5. Len(base[r]) + 1 = seq[r]
      BY <1>0, <3>2 DEF Sequence
    <3> QED
      BY <3>4, <3>5 DEF OfSequence
  <2>4. \A n \in Sequence : temporary'["manifest"][n] # Absent => OfSequence(n, temporary'["manifest"][n])
    <3> TAKE n \in Sequence
    <3>1. temporary'["manifest"][n] = IF kind[r] = "manifest" /\ n = seq[r] THEN content
                                      ELSE temporary["manifest"][n]
      BY <1>0, <2>2 DEF Kind
    <3> QED
      BY <1>0, <2>2, <2>3, <3>1 DEF ManifestInv
  <2> QED
    BY <1>0, <2>1, <2>4 DEF ManifestInv, Manifests
<1>3. CASE WriteMove(r)
  <2>1. CASE UNCHANGED <<file, temporary>>
    BY <1>1, <2>1
  <2>2. CASE /\ temporary[kind[r]][seq[r]] # Absent
             /\ file' = [file EXCEPT ![kind[r]][seq[r]] = temporary[kind[r]][seq[r]]]
             /\ temporary' = [temporary EXCEPT ![kind[r]][seq[r]] = Absent]
    <3>1. CASE kind[r] = "chunk"
      <4>1. /\ file'["manifest"] = file["manifest"]
            /\ temporary'["manifest"] = temporary["manifest"]
        BY <1>0, <2>2, <3>1 DEF Kind
      <4>2. Manifests' = Manifests
        BY <4>1 DEF Manifests
      <4> QED
        BY <1>0, <4>1, <4>2 DEF ManifestInv
    <3>2. CASE kind[r] = "manifest"
      <4> DEFINE n == seq[r]
                 b == temporary["manifest"][seq[r]]
      <4>1. /\ \A m \in Sequence : file'["manifest"][m] = IF m = n THEN b ELSE file["manifest"][m]
            /\ \A m \in Sequence : temporary'["manifest"][m] = IF m = n THEN Absent
                                                               ELSE temporary["manifest"][m]
            /\ b # Absent /\ b \in Batches
        BY <1>0, <2>2, <3>2 DEF Kind
      <4>2. OfSequence(n, b)
        BY <1>0, <4>1 DEF ManifestInv
      <4> HIDE DEF n, b
      <4>3. n \in Sequence /\ n - 1 \in Manifests
        BY <1>0, <1>3 DEF OwnInv, Running, WriteMove, n
      <4>4. n \in Epoch
        <5>1. n \in Nat \ {0} /\ Len(b) = n /\ b \in Seq(SUBSET Epoch)
          BY <4>1, <4>2, <4>3 DEF OfSequence, Sequence, Batches
        <5>2. n \in 1 .. Len(b) /\ b[n] \subseteq Epoch
          BY <5>1
        <5>3. PICK e \in b[n] : e >= n
          BY <4>2, <5>2 DEF OfSequence, Growing
        <5>4. e \in 1 .. MaxEpoch
          BY <5>2, <5>3 DEF Epoch
        <5> QED
          BY <5>1, <5>3, <5>4, BoundAssumption DEF Epoch
      <4>5. Manifests' = Manifests \cup {n}
        BY <4>1, <4>3 DEF Manifests
      <4>6. PICK m \in Epoch : Manifests = 1 .. m
        BY <1>0 DEF ManifestInv
      <4>7. Manifests' = 1 .. m \/ (n = m + 1 /\ Manifests' = 1 .. n)
        BY <4>3, <4>4, <4>5, <4>6 DEF Epoch
      <4>8. \A k \in Sequence : \A x \in {file'["manifest"][k], temporary'["manifest"][k]} :
              x # Absent => OfSequence(k, x)
        BY <1>0, <4>1, <4>2 DEF ManifestInv
      <4> QED
        BY <4>4, <4>5, <4>6, <4>7, <4>8 DEF ManifestInv
    <3> QED
      BY <1>0, <3>1, <3>2 DEF Kind
  <2> QED
    BY <1>3, <2>1, <2>2 DEF WriteMove
<1>4. CASE WriteReport(r) \/ CreateSession(r) \/ TearSession(r) \/ Finalize(r) \/ FinalizeReplace(r)
  BY <1>1, <1>4 DEF WriteReport, CreateSession, TearSession, Finalize, FinalizeReplace, artifacts
<1> QED
  BY <1>1, <1>2, <1>3, <1>4, WhichStep, QuietWritesNothing DEF artifacts

-----------------------------------------------------------------------------
\* Every step keeps what the runs hold to

\* What is written stays, and so does an attempt but for the verdict of its run.
LEMMA Kept ==
  ASSUME SharedInv, NEW r \in Runner, RunStep(r)
  PROVE  /\ \A n \in Manifests : n \in Manifests'
         /\ \A k \in Kind : \A n \in Sequence : file[k][n] # Absent => file'[k][n] # Absent
         /\ \A n \in report : n \in report'
         /\ \A n \in Sequence : \A a \in DOMAIN session[n] :
              /\ a \in DOMAIN session'[n]
              /\ session[n][a] = Started =>
                   \/ session'[n][a] = Started
                   \/ pc[r] = "replace" /\ n = seq[r] /\ a = attempt[r]
BY ManifestStep, FileFacts, SessionFacts DEF SharedInv, OwnInv

LEMMA OtherOwn ==
  ASSUME SharedInv, NEW r \in Runner, RunStep(r), NEW s \in Runner \ {r}
  PROVE  OwnInv(s)'
<1>1. /\ pc'[s] = pc[s] /\ seq'[s] = seq[s] /\ base'[s] = base[s] /\ attempt'[s] = attempt[s]
      /\ rows'[s] = rows[s] /\ kind'[s] = kind[s] /\ verdict'[s] = verdict[s]
  BY OtherRuns DEF SharedInv
<1>2. OwnInv(s) /\ seq[s] \in Sequence /\ "chunk" \in Kind
  BY DEF SharedInv, TypeOK, Kind
<1>3. /\ Running(s)' <=> Running(s)
      /\ Committed(s)' <=> Committed(s)
      /\ Concluding(s)' <=> Concluding(s)
      /\ Owns(s)' <=> Owns(s)
  BY <1>1 DEF Running, Committed, Concluding, Owns
<1>4. Running(s) => seq[s] # 1 /\ seq[s] - 1 \in Manifests' /\ OfSequence(seq[s] - 1, base[s])
  BY <1>2, Kept DEF OwnInv
<1>5. /\ pc[s] \in {"check", "open", "move"} /\ kind[s] = "manifest" =>
           file'["chunk"][seq[s]] # Absent
      /\ Committed(s) => \A k \in Kind : file'[k][seq[s]] # Absent
      /\ Concluding(s) /\ verdict[s] = "COMPLETED_WRITE" => seq[s] \in report'
  BY <1>2, Kept DEF OwnInv
<1>6. Owns(s) => attempt[s] \in DOMAIN session'[seq[s]]
  BY <1>2, Kept DEF OwnInv
<1>7. pc[s] \in Opened => session'[seq[s]][attempt[s]] = Started
  <2> SUFFICES ASSUME pc[s] \in Opened PROVE session'[seq[s]][attempt[s]] = Started
    OBVIOUS
  <2>1. /\ attempt[s] \in DOMAIN session[seq[s]] /\ session[seq[s]][attempt[s]] = Started
        /\ Owns(s)
    BY <1>2 DEF OwnInv, Owns
  <2>2. ~(pc[r] = "replace" /\ seq[s] = seq[r] /\ attempt[s] = attempt[r])
    BY <2>1 DEF SharedInv, OwnerInv, Owns, Opened
  <2> QED
    BY <1>2, <2>1, <2>2, Kept
<1> QED
  BY <1>1, <1>2, <1>3, <1>4, <1>5, <1>6, <1>7 DEF OwnInv

\* A run that goes on with what it knew.
LEMMA GoneOn ==
  ASSUME SharedInv, NEW r \in Runner, RunStep(r), pc[r] # "replace",
         UNCHANGED <<seq, base, attempt, rows, kind, verdict>>, Running(r), Running(r)',
         pc'[r] \in {"check", "open", "move", "audit", "report", "finalize", "replace"} \/ kind[r] = "chunk",
         pc'[r] \in {"recheck", "target", "check", "open", "move"} =>
           pc[r] \in {"recheck", "target", "check", "open", "move"},
         pc'[r] \in {"check", "open", "move"} /\ kind[r] = "manifest" =>
           pc[r] \in {"check", "open", "move"},
         Committed(r)' => Committed(r),
         Concluding(r)' /\ verdict[r] = "COMPLETED_WRITE" => Concluding(r),
         Owns(r)' => Owns(r),
         pc'[r] \in Opened => pc[r] \in Opened
  PROVE  OwnInv(r)'
<1>1. OwnInv(r) /\ seq[r] \in Sequence /\ "chunk" \in Kind
  BY DEF SharedInv, TypeOK, Kind
<1>2. seq[r] # 1 /\ seq[r] - 1 \in Manifests' /\ OfSequence(seq[r] - 1, base[r])
  BY <1>1, Kept DEF OwnInv
<1>3. /\ pc'[r] \in {"check", "open", "move"} /\ kind[r] = "manifest" =>
           file'["chunk"][seq[r]] # Absent
      /\ Committed(r)' => \A k \in Kind : file'[k][seq[r]] # Absent
      /\ Concluding(r)' /\ verdict[r] = "COMPLETED_WRITE" => seq[r] \in report'
  BY <1>1, Kept DEF OwnInv
<1>4. Owns(r)' => attempt[r] \in DOMAIN session'[seq[r]]
  BY <1>1, Kept DEF OwnInv
<1>5. pc'[r] \in Opened => session'[seq[r]][attempt[r]] = Started
  BY <1>1, Kept DEF OwnInv, Owns
<1> QED
  BY <1>1, <1>2, <1>3, <1>4, <1>5 DEF OwnInv


\* A run that asks for a finalisation.
LEMMA Concluded ==
  ASSUME SharedInv, NEW r \in Runner, RunStep(r), NEW v \in Terminal, NEW n \in Nat,
         Conclude(r, v, n), Owns(r), v = "COMPLETED_WRITE" => Committed(r) /\ seq[r] \in report'
  PROVE  OwnInv(r)'
<1>1. /\ pc'[r] = "finalize" /\ verdict'[r] = v
      /\ UNCHANGED <<seq, base, attempt, rows, kind>>
  BY DEF Conclude, Goto, SharedInv, TypeOK
<1>2. OwnInv(r) /\ seq[r] \in Sequence /\ Running(r)
  BY DEF SharedInv, TypeOK, Owns, Opened, Running
<1>3. seq[r] # 1 /\ seq[r] - 1 \in Manifests' /\ OfSequence(seq[r] - 1, base[r])
  BY <1>2, Kept DEF OwnInv
<1>4. /\ v = "COMPLETED_WRITE" => \A k \in Kind : file'[k][seq[r]] # Absent
      /\ attempt[r] \in DOMAIN session'[seq[r]]
  BY <1>2, Kept DEF OwnInv
<1> QED
  BY <1>1, <1>3, <1>4 DEF OwnInv, Committed, Concluding, Owns, Opened

\* A run that goes on keeps the types of what it knows.
LEMMA StepOf ==
  ASSUME SharedInv, NEW r \in Runner
  PROVE  /\ \A step : Goto(r, step) => pc'[r] = step
         /\ seq[r] \in Sequence /\ "chunk" \in Kind /\ "manifest" \in Kind
         /\ rows[r] \in SUBSET Epoch /\ kind[r] \in Kind /\ OwnInv(r)
BY DEF SharedInv, TypeOK, Goto, Kind

LEMMA PreparedOwn ==
  ASSUME SharedInv, NEW r \in Runner,
         Launch(r) \/ Preflight(r) \/ Recover(r) \/ StartSession(r) \/ NextAttempt(r)
  PROVE  OwnInv(r)'
<1>0. RunStep(r)
  BY DEF RunStep
<1>1. CASE Ends(r)
  BY <1>1, EndFacts DEF SharedInv, OwnInv, Running, Committed, Concluding, Owns, Opened
<1>2. CASE Launch(r)
  <2>1. PICK n \in Epoch : Manifests = 1 .. n
    BY DEF SharedInv, ManifestInv
  <2>2. Latest = n /\ n \in Manifests /\ n + 1 \in Sequence /\ n \in Sequence
    BY <2>1, LatestIs DEF Manifests
  <2>3. /\ pc'[r] = "preflight" /\ seq'[r] = n + 1 /\ base'[r] = file["manifest"][n]
        /\ kind'[r] = kind[r] /\ kind[r] = "chunk"
    BY <1>2, <2>2 DEF Launch, Goto, SharedInv, TypeOK, OwnInv
  <2>4. file["manifest"][n] # Absent
    BY <2>2 DEF Manifests
  <2>5. OfSequence(n, file["manifest"][n])
    BY <2>2, <2>4 DEF SharedInv, ManifestInv
  <2>6. seq'[r] # 1 /\ seq'[r] - 1 \in Manifests' /\ OfSequence(seq'[r] - 1, base'[r])
    <3>1. n + 1 # 1 /\ (n + 1) - 1 = n
      BY <2>2 DEF Sequence
    <3> QED
      BY <1>0, <2>2, <2>3, <2>5, <3>1, Kept
  <2> QED
    BY <2>3, <2>6 DEF OwnInv, Committed, Concluding, Owns, Opened
<1>3. CASE NextAttempt(r)
  <2>1. /\ pc[r] = "attempt" /\ pc'[r] = "create"
        /\ UNCHANGED <<seq, base, rows, kind, verdict>>
    BY <1>3 DEF NextAttempt, Goto, SharedInv, TypeOK
  <2>2. seq[r] # 1 /\ seq[r] - 1 \in Manifests' /\ OfSequence(seq[r] - 1, base[r]) /\ kind[r] = "chunk"
    BY <1>0, <2>1, StepOf, Kept DEF OwnInv, Running
  <2> QED
    BY <2>1, <2>2 DEF OwnInv, Committed, Concluding, Owns, Opened
<1>4. ASSUME NEW step \in {"recover", "start", "attempt"},
             pc[r] \in {"preflight", "recover", "start"}, GoesOn(r, step)
      PROVE  OwnInv(r)'
  <2>1. pc'[r] = step /\ UNCHANGED <<seq, base, attempt, rows, kind, verdict>> /\ kind[r] = "chunk"
    BY <1>4, StepOf DEF GoesOn, memory, OwnInv
  <2> QED
    BY <1>0, <1>4, <2>1, GoneOn DEF Running, Committed, Concluding, Owns, Opened
<1> QED
  BY <1>1, <1>2, <1>3, <1>4, Zenon DEF Preflight, Recover, StartSession, Ends, GoesOn

LEMMA OpenedOwn ==
  ASSUME SharedInv, NEW r \in Runner,
         CreateSession(r) \/ TearSession(r) \/ Finalize(r) \/ FinalizeReplace(r) \/ Stop(r)
  PROVE  OwnInv(r)'
<1>0. RunStep(r) /\ TypeOK
  BY DEF RunStep, SharedInv
<1>1. CASE Ends(r)
  BY <1>1, EndFacts DEF SharedInv, OwnInv, Running, Committed, Concluding, Owns, Opened
<1>2. CASE CreateSession(r) /\ GoesOn(r, "fetch")
  <2>1. /\ pc[r] = "create" /\ pc'[r] = "fetch" /\ kind[r] = "chunk"
        /\ UNCHANGED <<seq, base, attempt, rows, kind, verdict>>
    BY <1>2, StepOf DEF CreateSession, GoesOn, memory, OwnInv
  <2>2. seq[r] # 1 /\ seq[r] - 1 \in Manifests' /\ OfSequence(seq[r] - 1, base[r])
    BY <1>0, <2>1, StepOf, Kept DEF OwnInv, Running
  <2>3. attempt[r] \in DOMAIN session'[seq[r]] /\ session'[seq[r]][attempt[r]] = Started
    BY <1>0, <1>2, <2>1, StepOf, SessionFacts DEF OwnInv
  <2> QED
    BY <2>1, <2>2, <2>3 DEF OwnInv, Committed, Concluding
<1>3. CASE Finalize(r) /\ GoesOn(r, "replace")
  <2>1. /\ pc[r] = "finalize" /\ pc'[r] = "replace"
        /\ UNCHANGED <<seq, base, attempt, rows, kind, verdict>>
    BY <1>3, StepOf DEF Finalize, GoesOn, memory
  <2>2. UNCHANGED <<artifacts, session>> /\ session[seq[r]][attempt[r]] = Started
    <3>1. CASE Raise(r)
      BY <2>1, <3>1, EndFacts, <1>0 DEF Ends
    <3> QED
      BY <1>3, <3>1 DEF Finalize
  <2>3. OwnInv(r) /\ Manifests' = Manifests
    BY <2>2, StepOf DEF artifacts, Manifests
  <2> QED
    BY <2>1, <2>2, <2>3
    DEF OwnInv, Running, Committed, Concluding, Owns, Opened, artifacts
<1>4. CASE FinalizeReplace(r) /\ Conclude(r, verdict[r], 1)
  <2>1. pc[r] = "replace" /\ verdict[r] \in Terminal /\ report' = report
    BY <1>4 DEF FinalizeReplace, SharedInv, TypeOK, artifacts
  <2> QED
    BY <1>0, <1>4, <2>1, StepOf, Concluded DEF OwnInv, Owns, Opened, Committed, Concluding
<1> QED
  BY <1>1, <1>2, <1>3, <1>4, Zenon
  DEF CreateSession, TearSession, Finalize, FinalizeReplace, Stop, Ends, GoesOn

LEMMA ReadingOwn ==
  ASSUME SharedInv, NEW r \in Runner,
         Fetch(r) \/ VerifyLedger(r) \/ Build(r) \/ Recheck(r) \/ CheckTargets(r)
  PROVE  OwnInv(r)'
<1>0. RunStep(r) /\ TypeOK
  BY DEF RunStep, SharedInv
<1>1. CASE Ends(r)
  BY <1>1, EndFacts DEF SharedInv, OwnInv, Running, Committed, Concluding, Owns, Opened
<1>2. /\ pc[r] \in {"fetch", "verify", "build", "recheck", "target"}
      /\ kind[r] = "chunk" /\ Owns(r) /\ Running(r)
  BY StepOf DEF OwnInv, Fetch, VerifyLedger, Build, Recheck, CheckTargets, Owns, Opened, Running
<1>3. ASSUME NEW n \in 1 .. 2, Conclude(r, "NO_WRITE", n) PROVE OwnInv(r)'
  BY <1>0, <1>2, <1>3, Concluded DEF Terminal
<1>4. ASSUME NEW R, NEW step \in {"verify", "recheck"}, rows' = [rows EXCEPT ![r] = R], Goto(r, step),
             UNCHANGED <<seq, base, attempt, kind, verdict, calls>>,
             step = "recheck" => R # {} /\ \A i \in DOMAIN base[r] : Before(base[r][i], R)
      PROVE  OwnInv(r)'
  <2>1. pc'[r] = step /\ rows'[r] = R
    BY <1>4, StepOf DEF SharedInv, TypeOK
  <2>2. seq[r] # 1 /\ seq[r] - 1 \in Manifests' /\ OfSequence(seq[r] - 1, base[r])
    BY <1>0, <1>2, StepOf, Kept DEF OwnInv
  <2>3. attempt[r] \in DOMAIN session'[seq[r]] /\ session'[seq[r]][attempt[r]] = Started
    BY <1>0, <1>2, StepOf, Kept DEF OwnInv, Owns, Opened
  <2> QED
    BY <1>2, <1>4, <2>1, <2>2, <2>3 DEF OwnInv, Committed, Concluding
<1>5. NewRows(r) # {} => \A i \in DOMAIN base[r] : Before(base[r][i], NewRows(r))
  BY DEF NewRows, Before
<1>6. ASSUME NEW step \in {"build", "target", "check"}, GoesOn(r, step),
             step # "build" => pc[r] \in {"recheck", "target"}
      PROVE  OwnInv(r)'
  <2>1. pc'[r] = step /\ UNCHANGED <<seq, base, attempt, rows, kind, verdict>>
    BY <1>6, StepOf DEF GoesOn, memory
  <2> QED
    BY <1>0, <1>2, <1>6, <2>1, GoneOn DEF Running, Committed, Concluding, Owns, Opened
<1>7. CASE Fetch(r)
  <2>1. 1 \in 1 .. 2
    OBVIOUS
  <2> QED
    BY <1>1, <1>3, <1>4, <1>7, <2>1, Zenon DEF Fetch, Ends
<1>8. CASE Build(r)
  <2>1. 1 \in 1 .. 2
    OBVIOUS
  <2> QED
    BY <1>3, <1>4, <1>5, <1>8, <2>1, Zenon DEF Build
<1>9. CASE VerifyLedger(r) \/ Recheck(r) \/ CheckTargets(r)
  <2>1. 1 \in 1 .. 2 /\ 2 \in 1 .. 2
    OBVIOUS
  <2> QED
    BY <1>1, <1>3, <1>6, <1>9, <2>1, Zenon DEF VerifyLedger, Recheck, CheckTargets, Ends, GoesOn
<1> QED
  BY <1>7, <1>8, <1>9

LEMMA WritingOwn ==
  ASSUME SharedInv, NEW r \in Runner,
         \/ WriteCheck(r) \/ WriteTemporary(r) \/ WriteMove(r) \/ Audit(r) \/ WriteReport(r)
  PROVE  OwnInv(r)'
<1>0. RunStep(r) /\ TypeOK
  BY DEF RunStep, SharedInv
<1>1. CASE Ends(r)
  BY <1>1, EndFacts DEF SharedInv, OwnInv, Running, Committed, Concluding, Owns, Opened
<1>2. /\ pc[r] \in {"check", "open", "move", "audit", "report"} /\ Owns(r) /\ Running(r)
  BY DEF WriteCheck, WriteTemporary, WriteMove, Audit, WriteReport, Owns, Opened, Running
<1>3. ASSUME NEW step \in {"open", "move", "report"}, GoesOn(r, step),
             IF step = "report" THEN pc[r] = "audit" ELSE pc[r] \in {"check", "open"}
      PROVE  OwnInv(r)'
  <2>1. pc'[r] = step /\ UNCHANGED <<seq, base, attempt, rows, kind, verdict>>
    BY <1>3, StepOf DEF GoesOn, memory
  <2> QED
    BY <1>0, <1>2, <1>3, <2>1, GoneOn DEF Running, Committed, Concluding, Owns, Opened
<1>4. CASE WriteReport(r) /\ Conclude(r, "COMPLETED_WRITE", 1)
  <2>1. pc[r] = "report" /\ "COMPLETED_WRITE" \in Terminal /\ 1 \in Nat
    BY <1>4 DEF WriteReport, Terminal
  <2>2. seq[r] \in report'
    BY <1>4, <2>1, EndFacts, <1>0 DEF WriteReport, Ends, Conclude, Goto, TypeOK
  <2> QED
    BY <1>0, <1>2, <1>4, <2>1, <2>2, Concluded DEF Committed
<1>5. CASE /\ WriteMove(r) /\ temporary[kind[r]][seq[r]] # Absent
  <2>1. /\ pc[r] = "move" /\ kind'[r] = "manifest"
        /\ pc'[r] = IF kind[r] = "chunk" THEN "check" ELSE "audit"
        /\ UNCHANGED <<seq, base, attempt, rows, verdict>>
        /\ file'[kind[r]][seq[r]] # Absent
    BY <1>5, StepOf DEF WriteMove, Goto, SharedInv, TypeOK
  <2>2. seq[r] # 1 /\ seq[r] - 1 \in Manifests' /\ OfSequence(seq[r] - 1, base[r])
    BY <1>0, <1>2, StepOf, Kept DEF OwnInv
  <2>3. attempt[r] \in DOMAIN session'[seq[r]] /\ session'[seq[r]][attempt[r]] = Started
    BY <1>0, <1>2, StepOf, Kept DEF OwnInv, Owns, Opened
  <2>4. rows[r] # {} /\ \A i \in DOMAIN base[r] : Before(base[r][i], rows[r])
    BY <2>1, StepOf DEF OwnInv
  <2>5. kind[r] = "manifest" => file'["chunk"][seq[r]] # Absent
    BY <1>0, <2>1, StepOf, Kept DEF OwnInv
  <2>6. kind[r] = "chunk" \/ kind[r] = "manifest"
    BY StepOf DEF Kind
  <2>7. /\ pc'[r] = "check" => file'["chunk"][seq[r]] # Absent
        /\ pc'[r] = "audit" => \A k \in Kind : file'[k][seq[r]] # Absent
    BY <2>1, <2>5, <2>6 DEF Kind
  <2> QED
    BY <2>1, <2>2, <2>3, <2>4, <2>6, <2>7 DEF OwnInv, Committed, Concluding
<1> QED
  BY <1>1, <1>3, <1>4, <1>5, Zenon
  DEF WriteCheck, WriteTemporary, WriteMove, Audit, WriteReport, Ends, GoesOn

LEMMA OwnStep ==
  ASSUME SharedInv, NEW r \in Runner, RunStep(r), NEW s \in Runner
  PROVE  OwnInv(s)'
BY OtherOwn, PreparedOwn, OpenedOwn, ReadingOwn, WritingOwn DEF RunStep

\* Only the run that creates an attempt comes to own it.
LEMMA NewOwner ==
  ASSUME SharedInv, NEW r \in Runner, RunStep(r), Owns(r)'
  PROVE  /\ seq'[r] = seq[r] /\ attempt'[r] = attempt[r]
         /\ \/ Owns(r)
            \/ CreateSession(r) /\ pc'[r] = "fetch"
<1>0. TypeOK
  BY DEF SharedInv
<1>1. ~Ends(r)
  BY <1>0, EndFacts DEF Owns, Opened
<1>2. ~Launch(r) /\ ~NextAttempt(r)
  BY StepOf DEF Launch, NextAttempt, Owns, Opened
<1>3. /\ UNCHANGED <<seq, attempt>>
      /\ pc'[r] \in {"recover", "start", "attempt", "fetch", "build", "target", "check",
                     "open", "move", "report", "replace", "finalize", "verify", "recheck", "audit"}
  BY <1>0, <1>1, <1>2, StepOf, RunFacts DEF GoesOn, memory, Conclude
<1>4. CASE Launch(r) \/ Preflight(r) \/ Recover(r) \/ StartSession(r) \/ NextAttempt(r)
  BY <1>1, <1>4, StepOf DEF Launch, Preflight, Recover, StartSession, NextAttempt, Ends, Owns, Opened
<1>5. CASE TearSession(r) \/ Stop(r)
  BY <1>1, <1>5 DEF TearSession, Stop, Ends
<1>6. CASE CreateSession(r)
  BY <1>1, <1>3, <1>6, StepOf DEF CreateSession, Ends
<1>7. CASE \/ Fetch(r) \/ VerifyLedger(r) \/ Build(r) \/ Recheck(r) \/ CheckTargets(r)
           \/ WriteCheck(r) \/ WriteTemporary(r) \/ WriteMove(r) \/ Audit(r) \/ WriteReport(r)
           \/ Finalize(r) \/ FinalizeReplace(r)
  BY <1>3, <1>7
  DEF Fetch, VerifyLedger, Build, Recheck, CheckTargets, WriteCheck, WriteTemporary,
      WriteMove, Audit, WriteReport, Finalize, FinalizeReplace, Owns, Opened
<1> QED
  BY <1>3, <1>4, <1>5, <1>6, <1>7 DEF RunStep

\* A new owner's attempt is one nobody has.
LEMMA OwnerStep ==
  ASSUME SharedInv, NEW r \in Runner, RunStep(r)
  PROVE  OwnerInv'
<1> SUFFICES ASSUME NEW s \in Runner, NEW t \in Runner, s # t, Owns(s)', Owns(t)',
                    seq'[s] = seq'[t]
             PROVE  attempt'[s] # attempt'[t]
  BY DEF OwnerInv
<1>1. ASSUME NEW u \in Runner, NEW w \in Runner, u # w, Owns(u)', Owns(w)', seq'[u] = seq'[w], w # r
      PROVE  attempt'[u] # attempt'[w]
  <2>1. Owns(w) /\ seq'[w] = seq[w] /\ attempt'[w] = attempt[w]
    BY <1>1, OtherRuns DEF SharedInv, Owns
  <2>2. attempt[w] \in DOMAIN session[seq[w]]
    BY <2>1 DEF SharedInv, OwnInv
  <2>3. CASE u # r
    <3>1. Owns(u) /\ seq'[u] = seq[u] /\ attempt'[u] = attempt[u]
      BY <1>1, <2>3, OtherRuns DEF SharedInv, Owns
    <3> QED
      BY <1>1, <2>1, <3>1 DEF SharedInv, OwnerInv
  <2>4. CASE u = r /\ Owns(r)
    BY <1>1, <2>1, <2>4, NewOwner DEF SharedInv, OwnerInv
  <2>5. CASE u = r /\ CreateSession(r) /\ pc'[r] = "fetch"
    <3>1. attempt[r] \notin DOMAIN session[seq[r]]
      BY <2>5, SessionFacts DEF SharedInv, OwnInv
    <3>2. seq'[r] = seq[r] /\ attempt'[r] = attempt[r]
      BY <1>1, <2>5, NewOwner
    <3> QED
      BY <1>1, <2>1, <2>2, <2>5, <3>1, <3>2
  <2> QED
    BY <1>1, <2>3, <2>4, <2>5, NewOwner
<1> QED
  BY <1>1

\* Nobody but its owner can deny what an attempt has written.
LEMMA WitnessStep ==
  ASSUME SharedInv, NEW r \in Runner, RunStep(r)
  PROVE  WitnessInv'
<1>0. TypeOK /\ OwnInv(r) /\ seq[r] \in Sequence /\ RunStep(r)
  BY DEF SharedInv, TypeOK
<1> SUFFICES ASSUME NEW n \in Sequence \ {1}, ~NothingAt(n)'
             PROVE  \E a \in DOMAIN session'[n] :
                      /\ session'[n][a] # "NO_WRITE"
                      /\ \A s \in Runner : Silent(s)' => <<seq'[s], attempt'[s]>> # <<n, a>>
  BY DEF WitnessInv
<1>1. ASSUME NEW s \in Runner, Silent(s)
      PROVE  Owns(s)
  BY <1>1 DEF Silent, Owns, Opened, Concluding
<1>2. ASSUME NEW s \in Runner, Silent(s)', Owns(s)
      PROVE  Silent(s) /\ seq'[s] = seq[s] /\ attempt'[s] = attempt[s]
  <2>1. CASE s # r
    BY <1>2, <2>1, OtherRuns DEF SharedInv, Silent, Concluding
  <2>2. CASE s = r
    <3>1. Owns(r)'
      BY <1>2, <2>2 DEF Silent, Owns, Opened, Concluding
    <3>2. seq'[r] = seq[r] /\ attempt'[r] = attempt[r]
      BY <3>1, NewOwner
    <3>3. ~Ends(r)
      BY <1>0, <3>1, EndFacts DEF Owns, Opened
    <3>4. pc[r] \notin {"check", "open", "move", "audit", "report"}
      <4>1. CASE \/ WriteCheck(r) \/ WriteTemporary(r) \/ WriteMove(r) \/ Audit(r) \/ WriteReport(r)
        BY <1>2, <2>2, <3>3, <4>1, StepOf
        DEF WriteCheck, WriteTemporary, WriteMove, Audit, WriteReport, Ends, Silent, Concluding,
            Conclude, SharedInv, TypeOK
      <4> QED
        BY <1>0, <3>3, <4>1 DEF RunStep, Launch, Preflight, Recover, StartSession, NextAttempt,
            CreateSession, TearSession, Fetch, VerifyLedger, Build, Recheck, CheckTargets,
            Finalize, FinalizeReplace, Stop, Ends
    <3>5. pc[r] \in {"finalize", "replace"} => Finalize(r) \/ FinalizeReplace(r)
      BY <1>0, <3>3 DEF RunStep, Launch, Preflight, Recover, StartSession, NextAttempt,
          CreateSession, TearSession, Fetch, VerifyLedger, Build, Recheck, CheckTargets,
          WriteCheck, WriteTemporary, WriteMove, Audit, WriteReport, Stop, Ends
    <3>6. pc[r] \in {"finalize", "replace"} => verdict'[r] = verdict[r] /\ pc'[r] \in {"finalize", "replace"}
      BY <3>3, <3>5, StepOf DEF Finalize, FinalizeReplace, Ends, Conclude, memory, SharedInv, TypeOK
    <3>7. pc[r] \in {"finalize", "replace"} => verdict[r] = "NO_WRITE"
      BY <1>2, <2>2, <3>6 DEF Silent, Concluding
    <3>8. pc[r] \in Opened \cup {"finalize"}
      BY <1>2, <2>2 DEF Owns
    <3> QED
      BY <2>2, <3>2, <3>4, <3>7, <3>8 DEF Silent, Concluding, Opened
  <2> QED
    BY <2>1, <2>2
<1>3. ASSUME NEW s \in Runner, Silent(s)', ~Owns(s)
      PROVE  s = r /\ attempt'[s] \notin DOMAIN session[seq'[s]]
  <2>1. Owns(s)'
    BY <1>3 DEF Silent, Owns, Opened, Concluding
  <2>2. s = r
    BY <1>3, <2>1, OtherRuns DEF SharedInv, Owns
  <2>3. CreateSession(r) /\ pc'[r] = "fetch" /\ seq'[r] = seq[r] /\ attempt'[r] = attempt[r]
    BY <1>3, <2>1, <2>2, NewOwner
  <2>4. attempt[r] \notin DOMAIN session[seq[r]]
    BY <1>0, <2>3, SessionFacts DEF OwnInv
  <2> QED
    BY <2>2, <2>3, <2>4
<1>4. CASE ~NothingAt(n)
  <2>1. PICK a \in DOMAIN session[n] :
          /\ session[n][a] # "NO_WRITE"
          /\ \A s \in Runner : Silent(s) => <<seq[s], attempt[s]>> # <<n, a>>
    BY <1>4 DEF SharedInv, WitnessInv
  <2>2. a \in DOMAIN session'[n]
    BY <2>1, Kept
  <2>3. session'[n][a] # "NO_WRITE"
    <3>1. CASE pc[r] = "replace" /\ n = seq[r] /\ a = attempt[r] /\ session'[n][a] = verdict[r]
      BY <2>1, <3>1 DEF Silent, Concluding
    <3> QED
      BY <1>0, <2>1, <3>1, SessionFacts DEF OwnInv
  <2>4. ASSUME NEW s \in Runner, Silent(s)'
        PROVE  <<seq'[s], attempt'[s]>> # <<n, a>>
    BY <1>2, <1>3, <2>1, <2>4
  <2> QED
    BY <2>2, <2>3, <2>4
<1>5. CASE NothingAt(n)
  <2> DEFINE a == attempt[r]
  <2>1. n = seq[r] /\ pc[r] \in {"open", "move", "report"}
    <3>1. CASE UNCHANGED artifacts
      <4>1. NothingAt(n)'
        BY <1>5, <3>1 DEF NothingAt, Artifacts, artifacts
      <4> QED
        BY <4>1
    <3>2. CASE n # seq[r]
      <4>1. \A k \in Kind : file'[k][n] = file[k][n] /\ temporary'[k][n] = temporary[k][n]
        BY <1>0, <3>2, FileFacts
      <4>2. n \in report' => n \in report
        BY <1>0, <3>2, FileFacts
      <4>3. NothingAt(n)'
        BY <1>5, <4>1, <4>2, StepOf DEF NothingAt, Artifacts
      <4> QED
        BY <4>3
    <3> QED
      BY <1>0, <3>1, <3>2, FileFacts
  <2>2. a \in DOMAIN session'[n] /\ session'[n][a] = Started
    BY <1>0, <2>1, Kept DEF OwnInv, Owns, Opened
  <2>3. ASSUME NEW s \in Runner, Silent(s)'
        PROVE  <<seq'[s], attempt'[s]>> # <<n, a>>
    <3>1. CASE ~Owns(s)
      BY <1>0, <1>3, <2>1, <2>3, <3>1 DEF OwnInv, Owns, Opened
    <3>2. CASE Owns(s)
      <4>1. Silent(s) /\ seq'[s] = seq[s] /\ attempt'[s] = attempt[s]
        BY <1>2, <2>3, <3>2
      <4>2. s # r
        BY <2>1, <4>1 DEF Silent, Concluding
      <4> QED
        BY <2>1, <3>2, <4>1, <4>2 DEF SharedInv, OwnerInv, Owns, Opened
    <3> QED
      BY <3>1, <3>2
  <2> QED
    BY <2>2, <2>3 DEF Started
<1> QED
  BY <1>4, <1>5

\* Only a run whose artifacts are in place says COMPLETED_WRITE.
LEMMA CompletedStep ==
  ASSUME SharedInv, NEW r \in Runner, RunStep(r)
  PROVE  CompletedIsDurable'
<1>0. TypeOK /\ OwnInv(r) /\ seq[r] \in Sequence
  BY DEF SharedInv, TypeOK
<1> SUFFICES ASSUME NEW n \in Sequence, NEW a \in DOMAIN session'[n],
                    session'[n][a] = "COMPLETED_WRITE"
             PROVE  /\ \A k \in Kind : file'[k][n] # Absent
                    /\ n \in report'
  <2>1. \A n \in Sequence : "COMPLETED_WRITE" \in States(n)' =>
          \E a \in DOMAIN session'[n] : session'[n][a] = "COMPLETED_WRITE"
    BY <1>0, SessionFacts DEF States, ToSet, OwnInv
  <2> QED
    BY <2>1 DEF CompletedIsDurable
<1>1. a \in DOMAIN session[n]
  BY <1>0, SessionFacts DEF OwnInv, Started
<1>2. /\ \A k \in Kind : file[k][n] # Absent
      /\ n \in report
  <2>1. CASE session[n][a] = "COMPLETED_WRITE"
    <3>1. "COMPLETED_WRITE" \in States(n)
      BY <1>1, <2>1 DEF States, ToSet
    <3> QED
      BY <3>1 DEF SharedInv, CompletedIsDurable
  <2>2. CASE pc[r] = "replace" /\ n = seq[r] /\ verdict[r] = "COMPLETED_WRITE"
    BY <1>0, <2>2 DEF OwnInv, Committed, Concluding
  <2> QED
    BY <1>0, <1>1, <2>1, <2>2, SessionFacts DEF OwnInv
<1> QED
  BY <1>2, Kept

-----------------------------------------------------------------------------
\* The invariant of overlapping runs holds

LEMMA SharedInit == Init => SharedInv
<1> SUFFICES ASSUME Init PROVE SharedInv
  OBVIOUS
<1>1. {1} \in SUBSET Epoch /\ 1 \in Epoch /\ 1 \in Sequence
  BY BoundAssumption DEF Epoch, Sequence
<1>2. /\ <<>> \in Batches /\ <<{1}>> \in Batches /\ <<{1}>> # Absent
      /\ Len(<<{1}>>) = 1 /\ <<{1}>>[1] = {1}
  BY <1>1 DEF Batches, Absent
<1>3. Manifests = 1 .. 1
  BY <1>1, <1>2 DEF Init, Manifests, Kind
<1>4. OfSequence(1, <<{1}>>)
  BY <1>2 DEF OfSequence, Growing, Chronological
<1>5. \A n \in Sequence : /\ file["manifest"][n] = IF n = 1 THEN <<{1}>> ELSE Absent
                          /\ temporary["manifest"][n] = Absent
  BY DEF Init, Kind
<1>6. ManifestInv
  BY <1>1, <1>3, <1>4, <1>5 DEF ManifestInv
<1>7. TypeOK
  BY <1>1, <1>2, BoundAssumption DEF Init, TypeOK, Kind, Terminal, Absent
<1>8. \A n \in Sequence : States(n) = {}
  BY DEF Init, States, ToSet
<1>9. \A n \in Sequence \ {1} : NothingAt(n)
  BY DEF Init, NothingAt, Artifacts, Kind
<1>10. ASSUME NEW r \in Runner PROVE OwnInv(r) /\ ~Owns(r)
  BY DEF Init, OwnInv, Running, Committed, Concluding, Owns, Opened
<1> QED
  BY <1>6, <1>7, <1>8, <1>9, <1>10
  DEF SharedInv, CompletedIsDurable, WitnessInv, OwnerInv

\* A candle completed in the market changes nothing the runs keep.
LEMMA SharedStill ==
  ASSUME SharedInv, UNCHANGED <<artifacts, journal, pc, memory, stops>>, feed' \subseteq Epoch
  PROVE  SharedInv'
<1>1. /\ file' = file /\ temporary' = temporary /\ report' = report /\ session' = session
      /\ UNCHANGED <<sessionTemp, pc, seq, base, attempt, rows, kind, verdict, calls, stops>>
  BY DEF artifacts, journal, memory
<1>2. TypeOK'
  BY <1>1 DEF SharedInv, TypeOK
<1>3. Manifests' = Manifests
  BY <1>1 DEF Manifests
<1>4. ManifestInv'
  BY <1>1, <1>3 DEF SharedInv, ManifestInv
<1>5. CompletedIsDurable'
  BY <1>1 DEF SharedInv, CompletedIsDurable, States
<1>6. OwnerInv'
  BY <1>1 DEF SharedInv, OwnerInv, Owns
<1>7. WitnessInv'
  <2>1. \A n \in Sequence : NothingAt(n)' <=> NothingAt(n)
    BY <1>1 DEF NothingAt, Artifacts
  <2>2. \A r \in Runner : Silent(r)' <=> Silent(r)
    BY <1>1 DEF Silent, Concluding
  <2> QED
    BY <1>1, <2>1, <2>2 DEF SharedInv, WitnessInv
<1>8. ASSUME NEW r \in Runner PROVE OwnInv(r)'
  <2>1. OwnInv(r)
    BY DEF SharedInv
  <2> QED
    BY <1>1, <1>3, <2>1 DEF OwnInv, Running, Committed, Concluding, Owns
<1> QED
  BY <1>2, <1>4, <1>5, <1>6, <1>7, <1>8 DEF SharedInv

LEMMA SharedStep == SharedInv /\ [Next]_vars => SharedInv'
<1> SUFFICES ASSUME SharedInv, [Next]_vars PROVE SharedInv'
  OBVIOUS
<1>1. CASE UNCHANGED vars
  <2>1. feed' \subseteq Epoch /\ UNCHANGED <<artifacts, journal, pc, memory, stops>>
    BY <1>1 DEF vars, SharedInv, TypeOK
  <2> QED
    BY <2>1, SharedStill
<1>2. ASSUME NEW e \in Epoch, Serve(e) PROVE SharedInv'
  <2>1. feed' \subseteq Epoch /\ UNCHANGED <<artifacts, journal, pc, memory, stops>>
    BY <1>2 DEF Serve, SharedInv, TypeOK
  <2> QED
    BY <2>1, SharedStill
<1>3. ASSUME NEW r \in Runner, RunStep(r) PROVE SharedInv'
  BY <1>3, TypeStep, ManifestStep, OwnStep, OwnerStep, WitnessStep, CompletedStep DEF SharedInv
<1> QED
  BY <1>1, <1>2, <1>3 DEF Next, RunStep

\* However many runs overlap, and wherever they are killed, no attempt belongs
\* to two of them, and what was written is denied by no attempt of its own.
THEOREM SharedInvariant == Spec => []SharedInv
BY SharedInit, SharedStep, PTL DEF Spec

\* However often runs are killed, started again and refused, every file,
\* session and local variable keeps its type; the sequence after the last
\* manifest exists.
THEOREM TypeCorrect == Spec => []TypeOK
<1>1. SharedInv => TypeOK
  BY DEF SharedInv
<1> QED
  BY SharedInvariant, <1>1, PTL

\* A session says COMPLETED_WRITE only of artifacts that are there.
THEOREM CompletedMeansDurable == Spec => []CompletedIsDurable
<1>1. SharedInv => CompletedIsDurable
  BY DEF SharedInv
<1> QED
  BY SharedInvariant, <1>1, PTL

\* Where all sessions say NO_WRITE there is no artifact and no temporary file.
THEOREM NoWriteMeansNothing == Spec => []NoWriteIsTruthful
<1>1. SharedInv => NoWriteIsTruthful
  <2> SUFFICES ASSUME SharedInv, NEW n \in Sequence \ {1}, States(n) \subseteq {"NO_WRITE"}
               PROVE  NothingAt(n)
    BY DEF NoWriteIsTruthful, NothingAt
  <2>1. \A a \in DOMAIN session[n] : session[n][a] = "NO_WRITE"
    BY DEF States, ToSet
  <2> QED
    BY <2>1 DEF SharedInv, WitnessInv
<1> QED
  BY SharedInvariant, <1>1, PTL

-----------------------------------------------------------------------------
\* One run at a time

OneRun == \E r : Runner = {r}

\* The chunk files hold what the manifests list.
ChunksAgree ==
  \A n \in Manifests : \A i \in 1 .. n : file["chunk"][i] = <<file["manifest"][n][i]>>

\* A run that has not committed is to append to the last manifest.
TargetInv(r) ==
  Running(r) =>
    IF Committed(r)
    THEN Manifests = 1 .. seq[r]
    ELSE Manifests = 1 .. seq[r] - 1 /\ base[r] = file["manifest"][seq[r] - 1]

\* What the run has written is still there.
PrivateInv(r) ==
  /\ pc[r] \in {"check", "open", "move"} /\ kind[r] = "manifest" =>
       file["chunk"][seq[r]] = <<rows[r]>>
  /\ pc[r] = "move" => temporary[kind[r]][seq[r]] = Content(r)

IInv ==
  /\ OneRun /\ SharedInv /\ ChunksAgree
  /\ \A r \in Runner : TargetInv(r) /\ PrivateInv(r)

\* The manifest of a run that has not committed is the last one.
LEMMA BaseIsLast ==
  ASSUME IInv, NEW r \in Runner, Running(r), ~Committed(r)
  PROVE  /\ seq[r] \in Sequence /\ seq[r] - 1 \in Epoch /\ seq[r] - 1 \in Manifests
         /\ Manifests = 1 .. seq[r] - 1 /\ base[r] = file["manifest"][seq[r] - 1]
         /\ seq[r] \notin Manifests
         /\ Len(base[r]) = seq[r] - 1 /\ Growing(base[r])
<1>1. PICK n \in Epoch : Manifests = 1 .. n
  BY DEF IInv, SharedInv, ManifestInv
<1>2. /\ seq[r] \in Sequence /\ seq[r] - 1 \in Manifests /\ OfSequence(seq[r] - 1, base[r])
      /\ Manifests = 1 .. seq[r] - 1 /\ base[r] = file["manifest"][seq[r] - 1]
  BY DEF IInv, SharedInv, TypeOK, OwnInv, TargetInv
<1>3. seq[r] - 1 \in Epoch /\ seq[r] \notin 1 .. seq[r] - 1
  BY <1>1, <1>2 DEF Epoch, Sequence
<1> QED
  BY <1>2, <1>3 DEF OfSequence

\* A run that goes on without moving a file.
LEMMA SameRun ==
  ASSUME SharedInv, NEW r \in Runner, RunStep(r), ~Ends(r), ~Launch(r), ~WriteMove(r)
  PROVE  /\ Running(r) /\ seq'[r] = seq[r] /\ base'[r] = base[r] /\ file' = file
         /\ Committed(r)' <=> Committed(r)
         /\ pc'[r] \in {"check", "open", "move"} =>
              /\ rows'[r] = rows[r] /\ kind'[r] = kind[r]
              /\ kind[r] = "manifest" => pc[r] \in {"check", "open", "move"}
         /\ pc'[r] = "move" => temporary'[kind[r]][seq[r]] = Content(r)
<1>0. /\ OwnInv(r) /\ TypeOK /\ \A step : Goto(r, step) => pc'[r] = step
      /\ seq[r] \in Sequence /\ kind[r] \in Kind
  BY StepOf DEF SharedInv
<1>1. CASE Preflight(r) \/ Recover(r) \/ StartSession(r) \/ NextAttempt(r) \/ CreateSession(r)
  BY <1>0, <1>1 DEF Preflight, Recover, StartSession, NextAttempt, CreateSession, Ends,
                    Running, Committed, Concluding, artifacts, memory
<1>2. CASE TearSession(r) \/ Stop(r)
  BY <1>2 DEF TearSession, Stop, Ends
<1>3. CASE Fetch(r) \/ VerifyLedger(r) \/ Build(r) \/ Recheck(r)
  BY <1>0, <1>3 DEF Fetch, VerifyLedger, Build, Recheck, Conclude, Ends,
                    Running, Committed, Concluding, artifacts, memory, TypeOK
<1>4. CASE CheckTargets(r) \/ WriteCheck(r)
  BY <1>0, <1>4 DEF CheckTargets, WriteCheck, Conclude, Ends, OwnInv,
                    Running, Committed, Concluding, artifacts, memory, TypeOK
<1>5. CASE WriteTemporary(r)
  <2>1. /\ pc[r] = "open" /\ pc'[r] = "move" /\ file' = file /\ UNCHANGED memory
        /\ temporary' = [temporary EXCEPT ![kind[r]][seq[r]] = Content(r)]
    BY <1>0, <1>5 DEF WriteTemporary, Ends
  <2>2. temporary'[kind[r]][seq[r]] = Content(r)
    BY <1>0, <2>1 DEF TypeOK
  <2> QED
    BY <2>1, <2>2 DEF Running, Committed, Concluding, memory
<1>6. CASE Audit(r) \/ WriteReport(r) \/ Finalize(r) \/ FinalizeReplace(r)
  BY <1>0, <1>6 DEF Audit, WriteReport, Finalize, FinalizeReplace, Conclude, Ends,
                    Running, Committed, Concluding, artifacts, memory, TypeOK
<1> QED
  BY <1>1, <1>2, <1>3, <1>4, <1>5, <1>6 DEF RunStep

\* A step that moves no file.
LEMMA UnmovedStep ==
  ASSUME IInv, NEW r \in Runner, RunStep(r), file' = file
  PROVE  ChunksAgree' /\ (~WriteMove(r) \/ Ends(r) => TargetInv(r)' /\ PrivateInv(r)')
<1>1. Manifests' = Manifests
  BY DEF Manifests
<1>2. ChunksAgree'
  BY <1>1 DEF IInv, ChunksAgree
<1>3. CASE Ends(r)
  BY <1>2, <1>3, EndFacts DEF IInv, SharedInv, TargetInv, PrivateInv, Running
<1>4. CASE Launch(r)
  <2>1. PICK n \in Epoch : Manifests = 1 .. n
    BY DEF IInv, SharedInv, ManifestInv
  <2>2. Latest = n
    BY <2>1, LatestIs
  <2>3. /\ pc'[r] = "preflight" /\ seq'[r] = n + 1 /\ base'[r] = file["manifest"][n]
    BY <1>4, <2>2 DEF Launch, Goto, IInv, SharedInv, TypeOK
  <2>4. (n + 1) - 1 = n
    BY DEF Epoch
  <2> QED
    BY <1>1, <1>2, <2>1, <2>3, <2>4 DEF TargetInv, PrivateInv, Committed, Concluding
<1>5. ASSUME ~Ends(r), ~Launch(r), ~WriteMove(r) PROVE TargetInv(r)' /\ PrivateInv(r)'
  <2>1. TargetInv(r) /\ PrivateInv(r) /\ SharedInv
    BY DEF IInv
  <2>2. TargetInv(r)'
    BY <1>1, <1>5, <2>1, SameRun DEF TargetInv
  <2>3. PrivateInv(r)'
    <3>1. pc'[r] \in {"check", "open", "move"} /\ kind'[r] = "manifest" =>
            file'["chunk"][seq'[r]] = <<rows'[r]>>
      BY <1>5, <2>1, SameRun DEF PrivateInv
    <3>2. pc'[r] = "move" => temporary'[kind'[r]][seq'[r]] = Content(r)'
      BY <1>5, <2>1, SameRun DEF Content
    <3> QED
      BY <3>1, <3>2 DEF PrivateInv
  <2> QED
    BY <2>2, <2>3
<1> QED
  BY <1>2, <1>3, <1>4, <1>5

\* A chunk after the last manifest is listed by none.
LEMMA ChunkMoved ==
  ASSUME IInv, NEW r \in Runner, pc[r] = "move", kind[r] = "chunk",
         file' = [file EXCEPT !["chunk"][seq[r]] = <<rows[r]>>]
  PROVE  /\ Manifests' = Manifests /\ ChunksAgree'
         /\ file'["manifest"] = file["manifest"] /\ file'["chunk"][seq[r]] = <<rows[r]>>
<1>1. /\ seq[r] \in Sequence /\ seq[r] \notin Manifests
      /\ file \in [Kind -> [Sequence -> Batches]]
  BY BaseIsLast DEF Running, Committed, Concluding, IInv, SharedInv, TypeOK
<1>2. /\ file'["manifest"] = file["manifest"]
      /\ file'["chunk"] = [file["chunk"] EXCEPT ![seq[r]] = <<rows[r]>>]
  BY <1>1 DEF Kind
<1>3. /\ file'["chunk"][seq[r]] = <<rows[r]>>
      /\ \A n \in Sequence \ {seq[r]} : file'["chunk"][n] = file["chunk"][n]
  BY <1>1, <1>2 DEF Kind
<1>4. Manifests' = Manifests
  BY <1>2 DEF Manifests
<1>5. ASSUME NEW n \in Manifests, NEW i \in 1 .. n
      PROVE  file'["chunk"][i] = file["chunk"][i]
  <2>1. i \in Manifests
    <3>1. PICK m \in Epoch : Manifests = 1 .. m
      BY DEF IInv, SharedInv, ManifestInv
    <3> QED
      BY <1>5, <3>1 DEF Epoch
  <2> QED
    BY <1>1, <1>3, <2>1 DEF Manifests
<1> QED
  BY <1>2, <1>3, <1>4, <1>5 DEF IInv, ChunksAgree

\* The manifest continues the last one, and its chunk is in place.
LEMMA ManifestMoved ==
  ASSUME IInv, NEW r \in Runner, pc[r] = "move", kind[r] = "manifest",
         file' = [file EXCEPT !["manifest"][seq[r]] = Append(base[r], rows[r])]
  PROVE  /\ Manifests' = 1 .. seq[r] /\ ChunksAgree' /\ seq[r] \in Epoch
         /\ file'["manifest"][seq[r]] = Append(base[r], rows[r])
<1> DEFINE n == seq[r]
           b == base[r]
<1>1. /\ n - 1 \in Epoch /\ n - 1 \in Manifests /\ n \in Sequence
      /\ Manifests = 1 .. n - 1 /\ b = file["manifest"][n - 1]
      /\ Len(b) = n - 1 /\ Growing(b)
  BY BaseIsLast DEF Running, Committed, Concluding
<1>2. /\ b \in Batches /\ rows[r] \in SUBSET Epoch /\ rows[r] # {}
      /\ \A i \in DOMAIN b : Before(b[i], rows[r])
      /\ file["chunk"][n] = <<rows[r]>>
      /\ file \in [Kind -> [Sequence -> Batches]]
  BY DEF IInv, SharedInv, TypeOK, OwnInv, PrivateInv
<1>3. b # <<>>
  BY <1>1 DEF Manifests, Absent
<1>4. n \in Epoch
  <2>1. Len(b) + 1 \in Epoch
    BY <1>1, <1>2, <1>3, LaterRows
  <2> QED
    BY <1>1, <2>1, BoundAssumption DEF Sequence
<1>5. /\ Append(b, rows[r]) \in Batches /\ Append(b, rows[r]) # Absent
      /\ Append(b, rows[r])[n] = rows[r]
      /\ \A i \in 1 .. n - 1 : Append(b, rows[r])[i] = b[i]
  <2>1. Len(b) + 1 = n
    BY <1>1, BoundAssumption DEF Sequence
  <2>2. /\ Append(b, rows[r]) \in Batches /\ Append(b, rows[r]) # Absent
        /\ Append(b, rows[r])[Len(b) + 1] = rows[r]
        /\ \A i \in 1 .. Len(b) : Append(b, rows[r])[i] = b[i]
    BY <1>2, BatchAppended
  <2> QED
    BY <1>1, <2>1, <2>2
<1>6. /\ file'["chunk"] = file["chunk"]
      /\ file'["manifest"][n] = Append(b, rows[r])
      /\ \A m \in Sequence \ {n} : file'["manifest"][m] = file["manifest"][m]
  BY <1>1, <1>2 DEF Kind
<1>7. Manifests' = 1 .. n
  <2>1. Manifests' = Manifests \cup {n}
    BY <1>1, <1>5, <1>6 DEF Manifests
  <2> QED
    BY <1>1, <2>1 DEF Epoch, Sequence
<1>8. ASSUME NEW i \in 1 .. n
      PROVE  file'["chunk"][i] = <<file'["manifest"][n][i]>>
  <2>1. CASE i = n
    BY <1>2, <1>5, <1>6, <2>1
  <2>2. CASE i \in 1 .. n - 1
    <3>1. file["chunk"][i] = <<b[i]>>
      BY <1>1, <2>2 DEF IInv, ChunksAgree
    <3>2. file'["manifest"][n][i] = b[i]
      BY <1>5, <1>6, <2>2
    <3> QED
      BY <1>6, <3>1, <3>2
  <2>3. i = n \/ i \in 1 .. n - 1
    BY <1>4 DEF Epoch
  <2> QED
    BY <2>1, <2>2, <2>3
<1>9. ASSUME NEW m \in Manifests, NEW i \in 1 .. m
      PROVE  file'["chunk"][i] = <<file'["manifest"][m][i]>>
  <2>1. m # n /\ m \in Sequence
    BY <1>1 DEF Manifests, Epoch
  <2> QED
    BY <1>6, <2>1 DEF IInv, ChunksAgree
<1>10. \A m \in 1 .. n : m = n \/ m \in Manifests
  BY <1>1, <1>4 DEF Epoch
<1>11. ChunksAgree'
  BY <1>7, <1>8, <1>9, <1>10 DEF ChunksAgree
<1> QED
  BY <1>4, <1>6, <1>7, <1>11

\* A file that is moved is the one the run wrote.
LEMMA Moved ==
  ASSUME IInv, NEW r \in Runner, WriteMove(r), ~Ends(r)
  PROVE  /\ pc[r] = "move" /\ kind[r] \in Kind /\ kind'[r] = "manifest"
         /\ file' = [file EXCEPT ![kind[r]][seq[r]] = Content(r)]
         /\ pc'[r] = (IF kind[r] = "chunk" THEN "check" ELSE "audit")
         /\ UNCHANGED <<seq, base, attempt, rows, verdict>>
<1>1. temporary[kind[r]][seq[r]] = Content(r)
  BY DEF WriteMove, IInv, PrivateInv
<1>2. pc'[r] = (IF kind[r] = "chunk" THEN "check" ELSE "audit") /\ kind'[r] = "manifest"
  BY DEF WriteMove, Ends, Goto, IInv, SharedInv, TypeOK
<1> QED
  BY <1>1, <1>2 DEF WriteMove, Ends, IInv, SharedInv, TypeOK

LEMMA WriteMoveStep ==
  ASSUME IInv, NEW r \in Runner, WriteMove(r)
  PROVE  ChunksAgree' /\ TargetInv(r)' /\ PrivateInv(r)'
<1>0. RunStep(r)
  BY DEF RunStep
<1>1. CASE Ends(r) /\ file' = file
  BY <1>0, <1>1, UnmovedStep
<1>2. CASE ~Ends(r)
  <2>1. CASE kind[r] = "chunk"
    <3>1. file' = [file EXCEPT !["chunk"][seq[r]] = <<rows[r]>>]
      BY <1>2, <2>1, Moved DEF Content
    <3>2. /\ Manifests' = Manifests /\ ChunksAgree'
          /\ file'["manifest"] = file["manifest"] /\ file'["chunk"][seq[r]] = <<rows[r]>>
      BY <1>2, <2>1, <3>1, Moved, ChunkMoved
    <3>3. TargetInv(r)
      BY DEF IInv
    <3> QED
      BY <1>2, <2>1, <3>2, <3>3, Moved
      DEF TargetInv, PrivateInv, Running, Committed, Concluding
  <2>2. CASE kind[r] = "manifest"
    <3>1. file' = [file EXCEPT !["manifest"][seq[r]] = Append(base[r], rows[r])]
      BY <1>2, <2>2, Moved DEF Content
    <3>2. Manifests' = 1 .. seq[r] /\ ChunksAgree'
      BY <1>2, <2>2, <3>1, Moved, ManifestMoved
    <3> QED
      BY <1>2, <2>2, <3>2, Moved DEF TargetInv, PrivateInv, Committed
  <2> QED
    BY <1>2, <2>1, <2>2, Moved DEF Kind
<1> QED
  BY <1>1, <1>2 DEF WriteMove, Ends, Raise, Return, Goto, IInv, SharedInv, TypeOK

LEMMA InvariantInit == OneRun /\ Init => IInv
<1> SUFFICES ASSUME OneRun, Init PROVE IInv
  OBVIOUS
<1>1. 1 \in Epoch /\ 1 \in Sequence /\ <<{1}>> # Absent
  BY BoundAssumption DEF Epoch, Sequence, Absent
<1>2. Manifests = {1}
  BY <1>1 DEF Init, Manifests, Kind
<1>3. file["manifest"][1] = <<{1}>> /\ file["chunk"][1] = <<{1}>>
  BY <1>1 DEF Init, Kind
<1>4. ChunksAgree
  BY <1>2, <1>3 DEF ChunksAgree
<1>5. \A r \in Runner : TargetInv(r) /\ PrivateInv(r)
  BY DEF Init, TargetInv, PrivateInv, Running
<1> QED
  BY <1>4, <1>5, SharedInit DEF IInv

LEMMA InvariantStep == IInv /\ [Next]_vars => IInv'
<1> SUFFICES ASSUME IInv, [Next]_vars PROVE IInv'
  OBVIOUS
<1>0. SharedInv' /\ OneRun'
  BY SharedStep DEF IInv, OneRun
<1>1. CASE UNCHANGED <<artifacts, pc, memory>>
  <2>1. /\ file' = file /\ temporary' = temporary
        /\ UNCHANGED <<pc, seq, base, attempt, rows, kind, verdict>>
    BY <1>1 DEF artifacts, memory
  <2>2. Manifests' = Manifests
    BY <2>1 DEF Manifests
  <2>3. ChunksAgree'
    BY <2>1, <2>2 DEF IInv, ChunksAgree
  <2>4. ASSUME NEW r \in Runner PROVE TargetInv(r)' /\ PrivateInv(r)'
    BY <2>1, <2>2 DEF IInv, TargetInv, PrivateInv, Running, Committed, Concluding, Content
  <2> QED
    BY <1>0, <2>3, <2>4 DEF IInv
<1>2. ASSUME NEW r \in Runner, RunStep(r) PROVE IInv'
  <2>1. Runner = {r}
    BY DEF IInv, OneRun
  <2>2. CASE WriteMove(r)
    BY <1>0, <2>1, <2>2, WriteMoveStep DEF IInv
  <2>3. CASE ~WriteMove(r)
    <3>1. file' = file
      BY <1>2, <2>3, WhichStep, QuietWritesNothing
      DEF CreateSession, TearSession, WriteTemporary, WriteReport, Finalize, FinalizeReplace,
          artifacts
    <3> QED
      BY <1>0, <1>2, <2>1, <2>3, <3>1, UnmovedStep DEF IInv
  <2> QED
    BY <2>2, <2>3
<1> QED
  BY <1>1, <1>2 DEF Next, RunStep, Serve, vars

LEMMA Invariant == OneRun /\ Spec => []IInv
BY InvariantInit, InvariantStep, PTL DEF Spec

-----------------------------------------------------------------------------
\* The refinement

LEMMA LedgerInit == IInv /\ Init => Ledger!Init
<1> SUFFICES ASSUME IInv, Init PROVE Ledger!Init
  OBVIOUS
<1>1. 1 \in Epoch /\ 1 \in Sequence
  BY BoundAssumption DEF Epoch, Sequence
<1>2. <<{1}>> # Absent
  BY DEF Absent
<1>3. Manifests = 1 .. 1
  BY <1>1, <1>2 DEF Init, Manifests, Kind
<1>4. file["manifest"][Latest] = <<{1}>>
  BY <1>1, <1>3, LatestIs DEF Init, Kind
<1>5. {1} \in (SUBSET Epoch) \ {{}}
  BY <1>1
<1> QED
  BY <1>4, <1>5 DEF Ledger!Init

LEMMA LedgerStep == IInv /\ [Next]_vars => [Ledger!Next]_(file["manifest"][Latest])
<1> SUFFICES ASSUME IInv, [Next]_vars,
                    file'["manifest"] # file["manifest"]
             PROVE  Ledger!Next
  <2>1. CASE file'["manifest"] = file["manifest"]
    <3>1. Manifests' = Manifests
      BY <2>1 DEF Manifests
    <3>2. Latest' = Latest
      BY <3>1 DEF Latest
    <3> QED
      BY <2>1, <3>2
  <2> QED
    BY <2>1
<1>1. PICK r \in Runner : WriteMove(r)
  BY DEF Next, vars, artifacts, Launch, Preflight, Recover, StartSession, NextAttempt,
         CreateSession, TearSession, Fetch, VerifyLedger, Build, Recheck, CheckTargets,
         WriteCheck, WriteTemporary, Audit, WriteReport, Finalize, FinalizeReplace, Stop, Serve
<1> DEFINE n == seq[r]
           b == base[r]
<1>2. /\ pc[r] = "move" /\ file' = [file EXCEPT ![kind[r]][n] = Content(r)]
      /\ kind[r] = "manifest"
  <2>1. CASE Ends(r)
    BY <1>1, <2>1, EndFacts DEF WriteMove, Goto, IInv, SharedInv, TypeOK
  <2>2. CASE ~Ends(r)
    BY <1>1, <2>2, Moved DEF Kind, IInv, SharedInv, TypeOK
  <2> QED
    BY <2>1, <2>2
<1>3. file' = [file EXCEPT !["manifest"][n] = Append(b, rows[r])]
  BY <1>2 DEF Content
<1>4. /\ n - 1 \in Epoch /\ Manifests = 1 .. n - 1 /\ b = file["manifest"][n - 1]
      /\ n \in Sequence
  BY <1>2, BaseIsLast DEF Running, Committed, Concluding
<1>5. Manifests' = 1 .. n /\ n \in Epoch
  BY <1>2, <1>3, ManifestMoved
<1>6. Latest = n - 1 /\ Latest' = n
  <2>1. Latest = n - 1
    BY <1>4, LatestIs
  <2>2. n \in Manifests' /\ \A m \in Manifests' : m <= n
    BY <1>5 DEF Epoch
  <2>3. Latest' \in Manifests' /\ \A m \in Manifests' : m <= Latest'
    BY <2>2 DEF Latest
  <2> QED
    BY <1>5, <2>1, <2>2, <2>3 DEF Epoch
<1>7. /\ rows[r] \in SUBSET Epoch /\ rows[r] # {}
      /\ \A i \in DOMAIN b : Before(b[i], rows[r])
  BY <1>2 DEF IInv, SharedInv, TypeOK, OwnInv
<1>8. file'["manifest"][Latest'] = Append(b, rows[r]) /\ file["manifest"][Latest] = b
  BY <1>3, <1>4, <1>6 DEF IInv, SharedInv, TypeOK, Kind
<1>9. Ledger!Accrue(rows[r])
  BY <1>7, <1>8 DEF Ledger!Accrue, Before
<1> QED
  BY <1>7, <1>9 DEF Ledger!Next

\* What a manifest lists is what the chunk files hold, in chronological order.
THEOREM LedgerAlwaysVerifies == OneRun /\ Spec => []LedgerVerifies
<1>1. IInv => LedgerVerifies
  BY DEF IInv, SharedInv, ManifestInv, OfSequence, ChunksAgree, LedgerVerifies, Growing, Manifests
<1> QED
  BY Invariant, <1>1, PTL

\* The runs implement AccrualLedger: the ledger of the last manifest grows by
\* one later batch at a time and never changes otherwise.
THEOREM RunsImplementLedger == OneRun /\ Spec => ImplementsLedger
<1>1. OneRun /\ Init => Ledger!Init
  BY InvariantInit, LedgerInit
<1>2. IInv /\ [Next]_vars => [Ledger!Next]_(file["manifest"][Latest])
  BY LedgerStep
<1> QED
  BY Invariant, <1>1, <1>2, PTL DEF Spec, ImplementsLedger, Ledger!Spec
=============================================================================
