-------------------- MODULE FiboForwardSupervisor_proofs --------------------
(***************************************************************************)
(* Theorems about the FIBO forward supervisor, for every length of a bar,  *)
(* every window, every tolerance and every behaviour of the two feeds.     *)
(*                                                                         *)
(* Boundaries are multiples of BarLength, which is a parameter: the first  *)
(* part derives what is needed about them from facts about products, so    *)
(* that no later step has to divide.                                       *)
(***************************************************************************)
EXTENDS FiboForwardSupervisor, SequenceTheorems, TLAPS

Multiple(t) == t \in Nat /\ t % BarLength = 0

\* What division by BarLength means.
LEMMA Quotient ==
  ASSUME NEW a \in Nat
  PROVE  /\ a \div BarLength \in Nat /\ a % BarLength \in 0 .. BarLength - 1
         /\ a = (a \div BarLength) * BarLength + (a % BarLength)
BY SupervisorAssumption, SMT DEF SupervisorAssumption

\* Quotient and remainder are the only ones.
LEMMA QuotientUnique ==
  ASSUME NEW q \in Nat, NEW r \in 0 .. BarLength - 1
  PROVE  (q * BarLength + r) % BarLength = r /\ (q * BarLength + r) \div BarLength = q
BY SupervisorAssumption, SMT DEF SupervisorAssumption

\* Multiplication by BarLength, one more time.
LEMMA OneMore ==
  ASSUME NEW q \in Nat
  PROVE  q * BarLength \in Nat /\ (q + 1) * BarLength = q * BarLength + BarLength
BY SupervisorAssumption, SMT DEF SupervisorAssumption

\* Multiplication by BarLength leaves at least BarLength between two products.
LEMMA ProductsApart ==
  ASSUME NEW q \in Nat, NEW r \in Nat
  PROVE  q < r => q * BarLength + BarLength <= r * BarLength
<1>1. q < r => r = q + (r - q) /\ r - q \in Nat \ {0}
  OBVIOUS
<1>2. q < r => r * BarLength = q * BarLength + (r - q) * BarLength
  BY <1>1, SupervisorAssumption, SMT DEF SupervisorAssumption
<1>3. q < r => (r - q) * BarLength >= BarLength
  BY <1>1, SupervisorAssumption, SMT DEF SupervisorAssumption
<1> QED
  BY <1>1, <1>2, <1>3, SupervisorAssumption DEF SupervisorAssumption

\* A boundary is a product.
LEMMA Factor ==
  ASSUME NEW a, Multiple(a)
  PROVE  \E q \in Nat : a = q * BarLength
<1>1. a \in Nat /\ a % BarLength = 0
  BY DEF Multiple
<1>2. a \div BarLength \in Nat /\ a = (a \div BarLength) * BarLength + 0
  BY <1>1, Quotient
<1>3. (a \div BarLength) * BarLength \in Nat
  BY <1>2, OneMore
<1> QED
  BY <1>2, <1>3

\* A product is a boundary, and its quotient is its factor.
LEMMA Product ==
  ASSUME NEW q \in Nat
  PROVE  Multiple(q * BarLength) /\ (q * BarLength) \div BarLength = q
<1>1. 0 \in 0 .. BarLength - 1
  BY SupervisorAssumption DEF SupervisorAssumption
<1>2. (q * BarLength + 0) % BarLength = 0 /\ (q * BarLength + 0) \div BarLength = q
  BY <1>1, QuotientUnique
<1> QED
  BY <1>2, OneMore DEF Multiple

\* The boundary after a boundary.
LEMMA NextUp ==
  ASSUME NEW a, Multiple(a)
  PROVE  /\ Multiple(a + BarLength) /\ a < a + BarLength
         /\ ((a + BarLength) - a) \div BarLength = 1
<1>1. PICK q \in Nat : a = q * BarLength
  BY Factor
<1>2. (q + 1) * BarLength = a + BarLength
  BY <1>1, OneMore
<1>3. Multiple(a + BarLength)
  BY <1>2, Product
<1>4. 1 * BarLength = (a + BarLength) - a
  BY SupervisorAssumption DEF SupervisorAssumption, Multiple
<1> QED
  BY <1>3, <1>4, Product, SupervisorAssumption DEF SupervisorAssumption, Multiple

\* Two boundaries are BarLength apart at least.
LEMMA BoundariesApart ==
  ASSUME NEW a, NEW b, Multiple(a), Multiple(b), a < b
  PROVE  a + BarLength <= b
<1>1. PICK q \in Nat : a = q * BarLength
  BY Factor
<1>2. PICK r \in Nat : b = r * BarLength
  BY Factor
<1>3. q < r
  BY <1>1, <1>2, ProductsApart, OneMore, SupervisorAssumption DEF SupervisorAssumption
<1> QED
  BY <1>1, <1>2, <1>3, ProductsApart

\* Boundaries passed in two stretches add up.
LEMMA StretchesAdd ==
  ASSUME NEW a, NEW b, NEW c, Multiple(a), Multiple(b), Multiple(c), a <= b, b <= c
  PROVE  /\ (c - a) \div BarLength = (b - a) \div BarLength + (c - b) \div BarLength
         /\ (b - a) \div BarLength \in Nat /\ (c - b) \div BarLength \in Nat
<1>1. PICK p \in Nat : a = p * BarLength
  BY Factor
<1>2. PICK q \in Nat : b = q * BarLength
  BY Factor
<1>3. PICK r \in Nat : c = r * BarLength
  BY Factor
<1>4. p <= q /\ q <= r
  BY <1>1, <1>2, <1>3, ProductsApart, OneMore, SupervisorAssumption DEF SupervisorAssumption
<1>5. c - a = (r - p) * BarLength /\ b - a = (q - p) * BarLength /\ c - b = (r - q) * BarLength
  BY <1>1, <1>2, <1>3, <1>4, SupervisorAssumption, SMT DEF SupervisorAssumption
<1>6. /\ r - p \in Nat /\ q - p \in Nat /\ r - q \in Nat
      /\ r - p = (q - p) + (r - q)
  BY <1>4
<1> QED
  BY <1>5, <1>6, Product

\* No boundary passed.
LEMMA NoStretch ==
  ASSUME NEW a \in Nat
  PROVE  (a - a) \div BarLength = 0
<1>1. a - a = 0 * BarLength
  BY SupervisorAssumption DEF SupervisorAssumption
<1> QED
  BY <1>1, Product

\* The boundary strictly after an instant.
LEMMA BoundaryAfter ==
  ASSUME NEW c \in Nat
  PROVE  LET u == (c \div BarLength + 1) * BarLength
         IN  Multiple(u) /\ c < u /\ u <= c + BarLength
<1> DEFINE q == c \div BarLength
<1>1. q \in Nat /\ c % BarLength \in 0 .. BarLength - 1 /\ c = q * BarLength + (c % BarLength)
  BY Quotient
<1>2. (q + 1) * BarLength = q * BarLength + BarLength /\ q * BarLength \in Nat
  BY <1>1, OneMore
<1>3. Multiple((q + 1) * BarLength)
  BY <1>1, Product
<1> QED
  BY <1>1, <1>2, <1>3, SupervisorAssumption DEF SupervisorAssumption

\* The boundary at or after an instant.
LEMMA BoundaryFrom ==
  ASSUME NEW c \in Nat
  PROVE  LET u == ((c + BarLength - 1) \div BarLength) * BarLength
         IN  Multiple(u) /\ c <= u /\ u < c + BarLength
<1> DEFINE d == c + BarLength - 1
           q == d \div BarLength
<1>0. d \in Nat
  BY SupervisorAssumption DEF SupervisorAssumption
<1>1. q \in Nat /\ d % BarLength \in 0 .. BarLength - 1 /\ d = q * BarLength + (d % BarLength)
  BY <1>0, Quotient
<1>2. q * BarLength \in Nat /\ Multiple(q * BarLength)
  BY <1>1, OneMore, Product
<1> HIDE DEF q
<1>3. c <= q * BarLength /\ q * BarLength < c + BarLength
  BY <1>1, <1>2, SupervisorAssumption DEF SupervisorAssumption
<1> QED
  BY <1>2, <1>3 DEF q

-----------------------------------------------------------------------------
\* Max and Min of the few numbers they are used for.

LEMMA MaxOfThree ==
  ASSUME NEW a \in Int, NEW b \in Int, NEW c \in Int
  PROVE  /\ Max({a, b, c}) \in {a, b, c}
         /\ a <= Max({a, b, c}) /\ b <= Max({a, b, c}) /\ c <= Max({a, b, c})
<1>1. \E x \in {a, b, c} : \A y \in {a, b, c} : x >= y
  <2>1. CASE a >= b /\ a >= c
    BY <2>1
  <2>2. CASE b >= a /\ b >= c
    BY <2>2
  <2>3. CASE c >= a /\ c >= b
    BY <2>3
  <2> QED
    BY <2>1, <2>2, <2>3
<1>2. /\ Max({a, b, c}) \in {a, b, c}
      /\ \A y \in {a, b, c} : Max({a, b, c}) >= y
  BY <1>1, Zenon DEF Max
<1> QED
  BY <1>2

-----------------------------------------------------------------------------
\* The inductive invariant

Reading == {"capture", "capture second"}

\* A capture for g is under way or has just been made.
For(g) == pc = g \/ (pc \in Reading /\ goal = g)

\* No bar and no reading of the clock is later than it could be.
BarsInv ==
  /\ observed <= now
  /\ \A s \in Symbol : bar[s] <= now + Skew /\ seen[s] <= now + Skew
  /\ pc = "capture second" => seen["BTCUSD"] # None
  /\ pc \in Goals \cup {"commit"} => \A s \in Symbol : seen[s] # None

\* The kinds of records that are still to be written.
Deferred == {"rearmed", "skipped", "resumed", "completed"}

\* Where the armed boundary lies: due while it is dealt with, at most a bar
\* ahead of the clock, or the start, while the feeds stand still.
PlaceInv ==
  /\ pc \in Reading => goal \in Goals
  /\ pc = "audit" => goal \in Deferred
  /\ pc \notin {"down", "wait", "audit"} => next < End
  /\ For("initial") => next <= Start \/ next <= now + BarLength
  /\ For("take") \/ For("missed") \/ For("late") => next <= observed
  /\ For("pause") \/ pc = "sleep" \/ For("resume") =>
       next <= Start \/ next <= observed + BarLength
  /\ pc = "commit" => Common = next
  /\ pc \in {"commit", "record"} => next <= observed /\ observed - next <= Lag
  /\ pc = "audit" /\ goal = "completed" => next <= observed /\ next < End

LastRecord == audit[Len(audit)]

\* The decision at hand is in the evidence and not counted, or counted and
\* not in the operations journal.
Uncounted == IF pc = "record" THEN 1 ELSE 0
Unrecorded == IF pc = "audit" /\ goal = "completed" THEN 1 ELSE 0

\* The boundaries from the first one armed to the one armed now.
Passed == (next - audit[1].next) \div BarLength

\* The operations journal is in order and agrees with the evidence.
AuditInv ==
  /\ \A i \in DOMAIN audit :
       /\ i > 1 => audit[i].kind # "started" /\ audit[i].next >= audit[i - 1].next
       /\ audit[i].next <= LastRecord.next
  /\ audit # <<>> => Len(evidence) - LastRecord.completed \in
                       IF LastRecord.kind = "finished" THEN {0} ELSE {0, 1}

\* A run's counters agree with its journals.
CountInv ==
  IF pc = "down"
  THEN completed = 0 /\ skipped = 0
  ELSE
    /\ audit # <<>> /\ LastRecord.kind # "finished"
    /\ audit[1].next <= next /\ LastRecord.next <= next
    /\ LastRecord.completed + Unrecorded = completed
    /\ Len(evidence) = completed + Uncounted
    /\ pc = "sleep" \/ For("resume") => LastRecord.kind = "paused"
    /\ \/ Passed + Unrecorded = completed + skipped
       \/ pc = "wait" /\ next = End /\ LastRecord.kind = "paused"

\* Decisions lie before the armed boundary, but for the one at hand.
DecidedInv ==
  pc # "down" =>
    \A b \in Decided : b < next \/ (b = next /\ Uncounted + Unrecorded = 1)

IInv == TypeOK /\ BarsInv /\ PlaceInv /\ AuditInv /\ CountInv /\ DecidedInv

-----------------------------------------------------------------------------
\* Facts every step needs

LEMMA ConstantFacts ==
  /\ BarLength \in Nat \ {0} /\ Poll \in Nat /\ Start \in Nat /\ End \in Nat
  /\ Delay \in Nat /\ Lag \in Nat /\ CycleLimit \in Nat /\ Skew \in Nat /\ Last \in Nat
  /\ Start < End /\ Start <= Last
  /\ Multiple(Start) /\ Multiple(End)
BY SupervisorAssumption DEF SupervisorAssumption, Multiple

LEMMA BoundaryIsMultiple ==
  ASSUME NEW t
  PROVE  t \in Boundary <=> Multiple(t) /\ t <= Last + Skew + 2 * BarLength
BY ConstantFacts DEF Boundary, Multiple

\* Where counters and clock readings begin.
LEMMA NoughtIsBoundary == 0 \in Boundary /\ 0 \in Instant
<1>1. 0 = 0 * BarLength
  BY ConstantFacts
<1>2. Multiple(0)
  BY <1>1, Product
<1> QED
  BY <1>2, ConstantFacts, BoundaryIsMultiple DEF Instant

\* The bar both symbols have reached.
LEMMA CommonFacts ==
  ASSUME TypeOK, \A s \in Symbol : seen[s] # None
  PROVE  /\ Common \in Boundary
         /\ \A s \in Symbol : Common <= seen[s]
         /\ \E s \in Symbol : Common = seen[s]
<1> DEFINE B == seen["BTCUSD"]
           E == seen["ETHUSD"]
<1>1. B \in Boundary /\ E \in Boundary
  BY DEF TypeOK, Symbol
<1>2. B \in Int /\ E \in Int
  BY <1>1 DEF Boundary
<1>3. {seen[s] : s \in Symbol} = {B, E}
  BY DEF Symbol
<1> HIDE DEF B, E
<1>4. \E x \in {B, E} : \A y \in {B, E} : x <= y
  <2>1. CASE B <= E
    BY <1>2, <2>1
  <2>2. CASE E <= B
    BY <1>2, <2>2
  <2> QED
    BY <1>2, <2>1, <2>2
<1>5. Common \in {B, E} /\ \A y \in {B, E} : Common <= y
  BY <1>3, <1>4, Zenon DEF Common, Min
<1> QED
  BY <1>1, <1>5 DEF B, E, Symbol

\* The boundary armed next lies after the clock and after the broker's bar.
LEMMA NextFutureFacts ==
  ASSUME NEW clock \in Instant, NEW live \in Boundary, live <= Last + Skew
  PROVE  LET n == NextFutureBoundary(clock, live)
         IN  /\ n \in Boundary /\ Multiple(n)
             /\ Start <= n /\ clock < n /\ live < n
             /\ \A m \in Boundary : m <= clock + BarLength => m <= n
<1> DEFINE u == (clock \div BarLength + 1) * BarLength
           v == live + BarLength
           n == NextFutureBoundary(clock, live)
<1>1. clock \in Nat /\ clock <= Last
  BY ConstantFacts DEF Instant
<1>2. Multiple(u) /\ clock < u /\ u <= clock + BarLength
  BY <1>1, BoundaryAfter
<1>3. Multiple(live)
  BY BoundaryIsMultiple
<1>4. Multiple(v) /\ live < v
  BY <1>3, NextUp
<1>5. /\ u \in Nat /\ v \in Nat /\ live \in Nat /\ Start \in Nat
      /\ v <= Last + Skew + BarLength
  BY <1>2, <1>3, <1>4, ConstantFacts DEF Multiple
<1>6. n = Max({Start, u, v})
  BY DEF NextFutureBoundary
<1>0. u \in Int /\ v \in Int /\ Start \in Int
  BY <1>5
<1> HIDE DEF u, v, n
<1>7. n \in {Start, u, v} /\ Start <= n /\ u <= n /\ v <= n
  BY <1>0, <1>6, MaxOfThree
<1>8. Multiple(n)
  BY <1>2, <1>4, <1>7, ConstantFacts
<1>9. n <= Last + Skew + 2 * BarLength
  BY <1>1, <1>2, <1>5, <1>7, ConstantFacts
<1>10. ASSUME NEW m \in Boundary, m <= clock + BarLength PROVE m <= n
  <2>1. Multiple(m) /\ m \in Nat
    BY BoundaryIsMultiple DEF Multiple
  <2>2. u < m => u + BarLength <= m
    BY <1>2, <2>1, BoundariesApart
  <2> QED
    BY <1>1, <1>2, <1>5, <1>7, <1>10, <2>1, <2>2, ConstantFacts
<1>11. n \in Boundary
  BY <1>8, <1>9, BoundaryIsMultiple
<1>12. n \in Nat
  BY <1>8 DEF Multiple
<1> QED
  BY <1>1, <1>2, <1>4, <1>5, <1>7, <1>8, <1>10, <1>11, <1>12 DEF n, v

\* What a running session is built from.
LEMMA StateFacts ==
  ASSUME IInv
  PROVE  /\ now \in Nat /\ observed \in Nat /\ now <= Last /\ observed <= now
         /\ next \in Nat /\ Multiple(next) /\ completed \in Nat /\ skipped \in Nat
         /\ pc \in Goals \cup {"commit"} =>
              /\ Common \in Boundary /\ Common \in Nat /\ Common <= now + Skew
              /\ Common <= Last + Skew
<1>1. now \in Nat /\ observed \in Nat /\ now <= Last /\ observed <= now
  <2>1. now \in Instant /\ observed \in Instant
    BY DEF IInv, TypeOK
  <2>2. observed <= now
    BY DEF IInv, BarsInv
  <2> QED
    BY <2>1, <2>2, ConstantFacts DEF Instant
<1>2. next \in Nat /\ Multiple(next) /\ completed \in Nat /\ skipped \in Nat
  BY BoundaryIsMultiple DEF IInv, TypeOK, Multiple
<1>3. ASSUME pc \in Goals \cup {"commit"}
      PROVE  /\ Common \in Boundary /\ Common \in Nat /\ Common <= now + Skew
             /\ Common <= Last + Skew
  <2>1. \A s \in Symbol : seen[s] # None /\ seen[s] <= now + Skew
    BY <1>3 DEF IInv, BarsInv
  <2>2. Common \in Boundary /\ \E s \in Symbol : Common = seen[s]
    BY <2>1, CommonFacts DEF IInv
  <2>3. Common <= now + Skew
    BY <2>1, <2>2
  <2> QED
    BY <1>1, <2>2, <2>3, ConstantFacts DEF Boundary
<1> QED
  BY <1>1, <1>2, <1>3

\* What arming a later boundary does to the counters.
LEMMA RearmFacts ==
  ASSUME IInv, pc \in Goals, NEW kind, NEW clock \in Instant, Rearm(kind, clock),
         next <= Start \/ next <= clock + BarLength \/ next < Common
  PROVE  /\ next' \in Boundary /\ next <= next' /\ skipped' \in Nat
         /\ \A a : Multiple(a) /\ a <= next =>
              /\ (next' - a) \div BarLength \in Nat
              /\ (next' - a) \div BarLength + skipped = (next - a) \div BarLength + skipped'
<1>1. /\ next \in Nat /\ Multiple(next) /\ skipped \in Nat
      /\ Common \in Boundary /\ Common \in Nat /\ Common <= Last + Skew
  BY StateFacts
<1>2. /\ next' = NextFutureBoundary(clock, Common)
      /\ skipped' = skipped + IF next' > next THEN (next' - next) \div BarLength ELSE 0
  BY DEF Rearm
<1>3. /\ next' \in Boundary /\ Multiple(next') /\ Start <= next' /\ Common < next'
      /\ \A m \in Boundary : m <= clock + BarLength => m <= next'
  BY <1>1, <1>2, NextFutureFacts
<1>4. next' \in Nat
  BY <1>3 DEF Multiple
<1>5. next <= next'
  <2>1. next \in Boundary
    BY DEF IInv, TypeOK
  <2>2. next <= clock + BarLength => next <= next'
    BY <1>3, <2>1
  <2>3. next < Common => next <= next'
    BY <1>1, <1>3, <1>4
  <2>4. next <= Start => next <= next'
    BY <1>1, <1>3, <1>4, ConstantFacts
  <2> QED
    BY <2>2, <2>3, <2>4
<1>6. skipped' = skipped + (next' - next) \div BarLength
  <2>1. CASE next' > next
    BY <1>2, <2>1
  <2>2. CASE next' = next
    <3>1. (next' - next) \div BarLength = 0
      BY <1>1, <2>2, NoStretch
    <3> QED
      BY <1>1, <1>2, <2>2, <3>1
  <2> QED
    BY <1>1, <1>4, <1>5, <2>1, <2>2
<1>7. (next' - next) \div BarLength \in Nat
  <2>1. next <= next
    BY <1>1
  <2> QED
    BY <1>1, <1>3, <1>5, <2>1, StretchesAdd
<1>8. ASSUME NEW a, Multiple(a), a <= next
      PROVE  /\ (next' - a) \div BarLength \in Nat
             /\ (next' - a) \div BarLength + skipped = (next - a) \div BarLength + skipped'
  <2>1. /\ (next' - a) \div BarLength
             = (next - a) \div BarLength + (next' - next) \div BarLength
        /\ (next - a) \div BarLength \in Nat
    BY <1>1, <1>3, <1>5, <1>8, StretchesAdd
  <2> QED
    BY <1>1, <1>6, <1>7, <2>1
<1> QED
  BY <1>1, <1>3, <1>5, <1>6, <1>7, <1>8

\* The five ways to arm a later boundary, each with what RearmFacts needs.
LEMMA Rearmings ==
  ASSUME IInv, InitialRearm \/ ObservedLate \/ RearmMissed \/ CapturedLate \/ Resumed
  PROVE  /\ pc \in Goals
         /\ \E kind \in Deferred \ {"completed"}, clock \in Instant :
              /\ Rearm(kind, clock)
              /\ next <= Start \/ next <= clock + BarLength \/ next < Common
<1> USE ConstantFacts, StateFacts DEF Goals, Deferred
<1>1. now \in Instant /\ observed \in Instant
  BY DEF IInv, TypeOK
<1>2. CASE InitialRearm
  BY <1>1, <1>2 DEF InitialRearm
<1>3. CASE ObservedLate
  BY <1>1, <1>3 DEF ObservedLate, IInv, PlaceInv, For
<1>4. CASE RearmMissed
  BY <1>1, <1>4 DEF RearmMissed
<1>5. CASE CapturedLate
  BY <1>1, <1>5 DEF CapturedLate
<1>6. CASE Resumed
  BY <1>1, <1>6 DEF Resumed, IInv, PlaceInv, For
<1> QED
  BY <1>2, <1>3, <1>4, <1>5, <1>6

AuditRecord == [kind : Kinds, next : Boundary, completed : Nat, skipped : Nat]

\* A record of the operations journal.
LEMMA AuditFacts ==
  ASSUME TypeOK, NEW kind \in Kinds, NEW b \in Boundary, NEW c \in Nat, NEW k \in Nat
  PROVE  /\ Audit(kind, b, c, k) \in Seq(AuditRecord)
         /\ Audit(kind, b, c, k) # <<>>
         /\ Len(Audit(kind, b, c, k)) = Len(audit) + 1
         /\ \A i \in 1 .. Len(audit) : Audit(kind, b, c, k)[i] = audit[i]
         /\ Audit(kind, b, c, k)[Len(audit) + 1] =
              [kind |-> kind, next |-> b, completed |-> c, skipped |-> k]
<1> DEFINE r == [kind |-> kind, next |-> b, completed |-> c, skipped |-> k]
<1>1. audit \in Seq(AuditRecord) /\ r \in AuditRecord
      /\ Audit(kind, b, c, k) = Append(audit, r)
  BY DEF TypeOK, Audit, AuditRecord
<1> HIDE DEF r
<1>2. /\ Append(audit, r) \in Seq(AuditRecord)
      /\ Append(audit, r) # <<>>
      /\ Len(Append(audit, r)) = Len(audit) + 1
      /\ \A i \in 1 .. Len(audit) : Append(audit, r)[i] = audit[i]
      /\ Append(audit, r)[Len(audit) + 1] = r
  BY <1>1, AppendProperties
<1> QED
  BY <1>1, <1>2 DEF r

\* The decision at hand.
Decision == [boundary |-> next, newest |-> [s \in Symbol |-> Visible(s)]]

\* A commit decides the armed boundary from candles up to it.
LEMMA CommitFacts ==
  ASSUME IInv, Commit
  PROVE  /\ evidence' = Append(evidence, Decision)
         /\ evidence' \in Seq([boundary : Boundary, newest : [Symbol -> Boundary]])
         /\ Len(evidence') = Len(evidence) + 1 /\ Len(evidence) \in Nat
         /\ evidence' # evidence /\ evidence'[Len(evidence')] = Decision
         /\ Decided' = Decided \cup {next}
         /\ \A s \in Symbol : Visible(s) = next
<1> DEFINE R == [boundary : Boundary, newest : [Symbol -> Boundary]]
           d == Decision
<1>1. evidence' = Append(evidence, d) /\ pc = "commit"
  BY DEF Commit, Decision
<1>2. ASSUME NEW s \in Symbol PROVE Visible(s) = next
  <2>1. \A t \in Symbol : seen[t] # None
    BY <1>1 DEF IInv, BarsInv
  <2>2. Common <= seen[s] /\ Common = next /\ seen[s] \in Boundary
    BY <1>1, <1>2, <2>1, CommonFacts DEF IInv, PlaceInv, TypeOK
  <2> QED
    BY <2>2, StateFacts DEF Visible, Boundary
<1>3. d \in R /\ evidence \in Seq(R) /\ next \in Boundary
  BY <1>2 DEF IInv, TypeOK, Decision
<1>4. d.boundary = next
  BY DEF Decision
<1> HIDE DEF R, d
<1>5. /\ Append(evidence, d) \in Seq(R)
      /\ Len(Append(evidence, d)) = Len(evidence) + 1
      /\ \A i \in 1 .. Len(evidence) : Append(evidence, d)[i] = evidence[i]
      /\ Append(evidence, d)[Len(evidence) + 1] = d
      /\ Len(evidence) \in Nat
  BY <1>3, AppendProperties, LenProperties
<1>6. DOMAIN evidence = 1 .. Len(evidence) /\ DOMAIN evidence' = 1 .. (Len(evidence) + 1)
  BY <1>1, <1>3, <1>5, LenProperties
<1>7. Decided' = Decided \cup {next}
  <2>1. Decided' = {evidence'[i].boundary : i \in 1 .. (Len(evidence) + 1)}
    BY <1>6 DEF Decided
  <2>2. Decided = {evidence[i].boundary : i \in 1 .. Len(evidence)}
    BY <1>6 DEF Decided
  <2> QED
    BY <1>1, <1>4, <1>5, <2>1, <2>2
<1> QED
  BY <1>1, <1>2, <1>3, <1>5, <1>7 DEF R, d

-----------------------------------------------------------------------------
\* Every step

\* Actions of a run that write neither journals nor counters.
Quiet ==
  \/ CaptureFirst \/ CaptureSecond \/ InitialPause \/ InitialWait
  \/ Observe \/ NotPublished \/ Missed \/ Captured \/ PollFeed \/ StillPaused

Rearming == InitialRearm \/ ObservedLate \/ RearmMissed \/ CapturedLate \/ Resumed

Environment == Tick \/ (\E s \in Symbol : Publish(s)) \/ UNCHANGED vars

\* The actions, sorted by what they write.
LEMMA Steps ==
  [Next]_vars =>
    \/ \E lateAllowed \in BOOLEAN : Launch(lateAllowed)
    \/ Quiet \/ Rearming
    \/ Commit \/ Complete \/ RecordSkip \/ RecordCompletion
    \/ StartPause \/ PauseOver \/ Finish \/ Fail \/ Kill
    \/ Environment
BY DEF Next, Running, Quiet, Rearming, Environment, FailSlow

LEMMA QuietType ==
  ASSUME IInv, Quiet
  PROVE  TypeOK'
<1> USE ConstantFacts DEF IInv, TypeOK, Goals, Kinds, feed, journals, counters, Capture, PauseFeed
<1>1. CASE CaptureFirst
  BY <1>1 DEF CaptureFirst, PlaceInv, Reading, Unseen, Symbol
<1>2. CASE CaptureSecond
  BY <1>2 DEF CaptureSecond, PlaceInv, Reading, Unseen, Symbol
<1>3. CASE InitialPause
  BY <1>3 DEF InitialPause, Unseen
<1>4. CASE InitialWait
  BY <1>4 DEF InitialWait
<1>5. CASE Observe
  BY <1>5 DEF Observe, Unseen
<1>6. CASE NotPublished
  BY <1>6 DEF NotPublished, Unseen
<1>7. CASE Missed
  BY <1>7 DEF Missed, Unseen
<1>8. CASE Captured
  BY <1>8 DEF Captured, PlaceInv, Reading, Unseen, Symbol
<1>9. CASE PollFeed
  BY <1>9 DEF PollFeed, Unseen
<1>10. CASE StillPaused
  BY <1>10 DEF StillPaused
<1> QED
  BY <1>1, <1>2, <1>3, <1>4, <1>5, <1>6, <1>7, <1>8, <1>9, <1>10 DEF Quiet

\* The first boundary armed by a launch.
LEMMA LaunchFacts ==
  ASSUME IInv, NEW lateAllowed \in BOOLEAN, Launch(lateAllowed)
  PROVE  /\ next' \in Boundary /\ next' < End
         /\ next' <= Start \/ next' <= now + BarLength
<1>1. next' = FirstBoundary /\ FirstBoundary < End
  BY DEF Launch
<1>2. now \in Nat /\ now <= Last
  BY StateFacts
<1>3. CASE now >= Start
  <2> DEFINE u == ((now + BarLength - 1) \div BarLength) * BarLength
  <2>1. Multiple(u) /\ u < now + BarLength
    BY <1>2, BoundaryFrom
  <2>2. next' = u
    BY <1>1, <1>3 DEF FirstBoundary
  <2> HIDE DEF u
  <2>3. u <= Last + Skew + 2 * BarLength /\ u <= now + BarLength
    BY <1>2, <2>1, ConstantFacts DEF Multiple
  <2> QED
    BY <1>1, <2>1, <2>2, <2>3, BoundaryIsMultiple
<1>4. CASE ~(now >= Start)
  <2>1. next' = Start
    BY <1>1, <1>4 DEF FirstBoundary
  <2> QED
    BY <1>1, <2>1, ConstantFacts, BoundaryIsMultiple
<1> QED
  BY <1>3, <1>4

\* The record of a Rearming.
LEMMA RearmingFacts ==
  ASSUME IInv, Rearming
  PROVE  /\ pc \in Goals /\ pc' = "audit" /\ goal' \in Deferred \ {"completed"}
         /\ UNCHANGED <<feed, journals, completed, observed, seen, previous>>
         /\ next' \in Boundary /\ next <= next' /\ skipped' \in Nat
         /\ \A a : Multiple(a) /\ a <= next =>
              /\ (next' - a) \div BarLength \in Nat
              /\ (next' - a) \div BarLength + skipped = (next - a) \div BarLength + skipped'
<1>1. PICK kind \in Deferred \ {"completed"}, clock \in Instant :
        /\ Rearm(kind, clock)
        /\ next <= Start \/ next <= clock + BarLength \/ next < Common
  BY Rearmings DEF Rearming
<1>2. pc \in Goals
  BY Rearmings DEF Rearming
<1>3. pc' = "audit" /\ goal' = kind
      /\ UNCHANGED <<feed, journals, completed, observed, seen, previous>>
  BY <1>1 DEF Rearm
<1>4. /\ next' \in Boundary /\ next <= next' /\ skipped' \in Nat
      /\ \A a : Multiple(a) /\ a <= next =>
           /\ (next' - a) \div BarLength \in Nat
           /\ (next' - a) \div BarLength + skipped = (next - a) \div BarLength + skipped'
  BY <1>1, <1>2, RearmFacts
<1> QED
  BY <1>1, <1>2, <1>3, <1>4

\* A record that carries the counters as they are.
LEMMA RecordFacts ==
  ASSUME IInv, NEW kind \in Kinds, audit' = Audit(kind, next, completed, skipped)
  PROVE  /\ audit' \in Seq(AuditRecord)
         /\ audit' # <<>> /\ Len(audit') = Len(audit) + 1 /\ Len(audit) \in Nat
         /\ DOMAIN audit = 1 .. Len(audit) /\ DOMAIN audit' = 1 .. Len(audit')
         /\ \A i \in 1 .. Len(audit) : audit'[i] = audit[i]
         /\ LastRecord' = [kind |-> kind, next |-> next,
                           completed |-> completed, skipped |-> skipped]
<1>1. TypeOK /\ next \in Boundary /\ completed \in Nat /\ skipped \in Nat
  BY DEF IInv, TypeOK
<1>2. Len(audit) \in Nat /\ DOMAIN audit = 1 .. Len(audit)
  BY LenProperties DEF IInv, TypeOK
<1>3. /\ audit' \in Seq(AuditRecord)
      /\ audit' # <<>> /\ Len(audit') = Len(audit) + 1
      /\ \A i \in 1 .. Len(audit) : audit'[i] = audit[i]
      /\ audit'[Len(audit) + 1] = [kind |-> kind, next |-> next,
                                   completed |-> completed, skipped |-> skipped]
  BY <1>1, AuditFacts
<1>4. DOMAIN audit' = 1 .. Len(audit')
  BY <1>3, LenProperties
<1> QED
  BY <1>2, <1>3, <1>4 DEF LastRecord

\* Every step keeps the types.
LEMMA TypeStep ==
  ASSUME IInv, [Next]_vars
  PROVE  TypeOK'
<1> USE ConstantFacts DEF IInv, Goals, Kinds, feed, journals, counters
<1>1. CASE \E lateAllowed \in BOOLEAN : Launch(lateAllowed)
  <2> PICK lateAllowed \in BOOLEAN : Launch(lateAllowed)
    BY <1>1
  <2>1. next' \in Boundary /\ next' = FirstBoundary
    BY LaunchFacts DEF Launch
  <2>2. audit' \in Seq(AuditRecord)
    BY <2>1, AuditFacts DEF Launch
  <2> QED
    BY <2>1, <2>2 DEF Launch, Capture, Unseen, TypeOK, AuditRecord
<1>2. CASE Quiet
  BY <1>2, QuietType
<1>3. CASE Rearming
  BY <1>3, RearmingFacts DEF TypeOK, Deferred
<1>4. CASE Commit
  BY <1>4, CommitFacts DEF Commit, TypeOK
<1>5. CASE Complete
  BY <1>5 DEF Complete, TypeOK
<1>6. CASE RecordSkip
  <2>1. audit' \in Seq(AuditRecord)
    <3>1. goal \in Kinds
      BY <1>6 DEF RecordSkip, PlaceInv, Deferred
    <3> QED
      BY <1>6, <3>1, RecordFacts DEF RecordSkip
  <2> QED
    BY <1>6, <2>1 DEF RecordSkip, TypeOK, AuditRecord
<1>7. CASE RecordCompletion
  <2>1. next + BarLength \in Boundary
    <3>1. Multiple(next + BarLength) /\ next \in Nat /\ next <= Last
      BY <1>7, StateFacts, NextUp DEF RecordCompletion, PlaceInv
    <3> QED
      BY <3>1, BoundaryIsMultiple DEF Multiple
  <2>2. audit' \in Seq(AuditRecord)
    <3>1. "completed" \in Kinds /\ completed \in Nat /\ skipped \in Nat /\ TypeOK
      BY DEF TypeOK
    <3>2. audit' = Audit("completed", next + BarLength, completed, skipped)
      BY <1>7 DEF RecordCompletion
    <3> HIDE DEF Kinds
    <3> QED
      BY <2>1, <3>1, <3>2, AuditFacts
  <2> QED
    BY <1>7, <2>1, <2>2 DEF RecordCompletion, TypeOK, AuditRecord
<1>8. CASE StartPause
  <2>1. Common \in Boundary
    BY <1>8, StateFacts DEF StartPause
  <2>2. audit' \in Seq(AuditRecord)
    BY <1>8, RecordFacts DEF StartPause
  <2> QED
    BY <1>8, <2>1, <2>2 DEF StartPause, TypeOK, AuditRecord
<1>9. CASE PauseOver
  <2>1. End \in Boundary
    BY <1>9, BoundaryIsMultiple, StateFacts DEF PauseOver
  <2> QED
    BY <1>9, <2>1 DEF PauseOver, TypeOK
<1>10. CASE Finish
  <2>1. audit' \in Seq(AuditRecord)
    BY <1>10, RecordFacts DEF Finish
  <2> QED
    BY <1>10, <2>1, NoughtIsBoundary DEF Finish, Leave, Unseen, TypeOK, AuditRecord
<1>11. CASE Fail
  <2>1. audit' \in Seq(AuditRecord)
    BY <1>11, RecordFacts DEF Fail
  <2> QED
    BY <1>11, <2>1, NoughtIsBoundary DEF Fail, Leave, Unseen, TypeOK, AuditRecord
<1>12. CASE Kill
  BY <1>12, NoughtIsBoundary DEF Kill, Leave, Unseen, TypeOK
<1>13. CASE Environment
  <2>1. CASE Tick
    <3>1. now \in Instant /\ now < Last /\ now' = now + 1
      BY <2>1 DEF Tick, TypeOK
    <3>2. now' \in Instant
      BY <3>1 DEF Instant
    <3> QED
      BY <2>1, <3>2 DEF Tick, TypeOK
  <2>2. CASE \E s \in Symbol : Publish(s)
    BY <2>2 DEF Publish, TypeOK
  <2>3. CASE UNCHANGED vars
    BY <2>3 DEF vars, TypeOK
  <2> QED
    BY <1>13, <2>1, <2>2, <2>3 DEF Environment
<1> QED
  BY <1>1, <1>2, <1>3, <1>4, <1>5, <1>6, <1>7, <1>8, <1>9, <1>10, <1>11, <1>12, <1>13, Steps

\* The bars are numbers.
LEMMA BarFacts ==
  ASSUME IInv
  PROVE  /\ BarsInv /\ PlaceInv
         /\ now \in Nat /\ observed \in Nat /\ Skew \in Nat
         /\ seen \in [Symbol -> Boundary \cup {None}] /\ bar \in [Symbol -> Boundary]
         /\ observed <= now
         /\ \A s \in Symbol : bar[s] \in Nat /\ seen[s] \in Int
         /\ \A s \in Symbol : bar[s] <= now + Skew /\ seen[s] <= now + Skew
<1>1. seen \in [Symbol -> Boundary \cup {None}] /\ bar \in [Symbol -> Boundary]
  BY DEF IInv, TypeOK
<1>2. \A b \in Boundary : b \in Nat
  BY DEF Boundary
<1>3. \A s \in Symbol : bar[s] \in Nat /\ seen[s] \in Int
  BY <1>1, <1>2 DEF None
<1>4. BarsInv /\ PlaceInv
  BY DEF IInv
<1>5. \A s \in Symbol : bar[s] <= now + Skew /\ seen[s] <= now + Skew
  BY <1>4 DEF BarsInv
<1> QED
  BY <1>1, <1>3, <1>4, <1>5, StateFacts, ConstantFacts

LEMMA CommonKept ==
  ASSUME UNCHANGED seen
  PROVE  Common' = Common
BY DEF Common

LEMMA QuietBars ==
  ASSUME IInv, Quiet
  PROVE  BarsInv'
<1>0. UNCHANGED feed
  BY DEF Quiet, CaptureFirst, CaptureSecond, InitialPause, InitialWait, Observe, NotPublished,
    Missed, Captured, PollFeed, StillPaused, PauseFeed
<1>1. CASE CaptureFirst
  <2>1. \A s \in Symbol : seen'[s] = IF s = "BTCUSD" THEN bar[s] ELSE seen[s]
    BY <1>1, BarFacts DEF CaptureFirst
  <2>2. \A s \in Symbol : seen'[s] <= now + Skew
    BY <2>1, BarFacts DEF BarsInv
  <2>3. seen'["BTCUSD"] # None
    BY <2>1, BarFacts DEF None, Symbol
  <2>4. pc' = "capture second" /\ observed' = observed
    BY <1>1 DEF CaptureFirst
  <2> QED
    BY <1>0, <2>2, <2>3, <2>4, BarFacts DEF BarsInv, feed, Goals
<1>2. CASE CaptureSecond
  <2>1. \A s \in Symbol : seen'[s] = IF s = "ETHUSD" THEN bar[s] ELSE seen[s]
    BY <1>2, BarFacts DEF CaptureSecond
  <2>2. \A s \in Symbol : seen'[s] <= now + Skew
    BY <2>1, BarFacts DEF BarsInv
  <2>3. seen["BTCUSD"] # None
    BY <1>2, BarFacts DEF CaptureSecond, BarsInv
  <2>4. \A s \in Symbol : seen'[s] # None
    BY <2>1, <2>3, BarFacts DEF None, Symbol
  <2>5. pc' = goal /\ goal \in Goals /\ observed' = observed
    BY <1>2, BarFacts DEF CaptureSecond, PlaceInv, Reading
  <2>6. pc' # "capture second"
    BY <2>5 DEF Goals
  <2> QED
    BY <1>0, <2>2, <2>4, <2>5, <2>6, BarFacts DEF BarsInv, feed
<1>3. ASSUME pc' = "capture", seen' = Unseen, observed' \in {observed, now}
      PROVE  BarsInv'
  <2>1. \A s \in Symbol : seen'[s] <= now + Skew
    BY <1>3, BarFacts DEF Unseen, None
  <2>2. pc' \notin Goals \cup {"commit", "capture second"} /\ observed' <= now
    BY <1>3, BarFacts DEF Goals
  <2> QED
    BY <1>0, <2>1, <2>2, BarFacts DEF BarsInv, feed
<1>4. ASSUME pc' \notin Reading \cup Goals, UNCHANGED seen, observed' \in {observed, now},
             pc' = "commit" => pc = "take"
      PROVE  BarsInv'
  <2>1. observed' <= now
    BY <1>4, BarFacts
  <2> QED
    BY <1>0, <1>4, <2>1, BarFacts DEF BarsInv, feed, Reading, Goals
<1> QED
  BY <1>1, <1>2, <1>3, <1>4 DEF Quiet, Capture, PauseFeed, InitialPause, InitialWait, Observe,
    NotPublished, Missed, Captured, PollFeed, StillPaused, Reading, Goals

\* Nothing is read before it is there.
LEMMA BarsStep ==
  ASSUME IInv, [Next]_vars
  PROVE  BarsInv'
<1>1. ASSUME pc' \in {"capture", "down"}, seen' = Unseen, observed' \in {observed, 0},
             UNCHANGED feed
      PROVE  BarsInv'
  <2>1. \A s \in Symbol : seen'[s] <= now + Skew
    BY <1>1, BarFacts DEF Unseen, None
  <2>2. pc' \notin Goals \cup {"commit", "capture second"}
    BY <1>1 DEF Goals
  <2>3. observed' <= now
    BY <1>1, BarFacts
  <2> QED
    BY <1>1, <2>1, <2>2, <2>3, BarFacts DEF BarsInv, feed
<1>2. ASSUME UNCHANGED <<feed, seen, observed>>, pc' \notin Reading \cup Goals \cup {"commit"}
      PROVE  BarsInv'
  BY <1>2, BarFacts DEF BarsInv, feed, Reading
<1>3. CASE Rearming
  BY <1>2, <1>3, RearmingFacts DEF Reading, Goals
<1>4. CASE Tick
  <2>1. now' = now + 1 /\ UNCHANGED <<bar, seen, observed, pc>>
    BY <1>4 DEF Tick
  <2>2. \A s \in Symbol : bar[s] <= now + 1 + Skew /\ seen[s] <= now + 1 + Skew
    BY BarFacts
  <2>3. observed <= now + 1
    BY BarFacts
  <2> QED
    BY <2>1, <2>2, <2>3, BarFacts DEF BarsInv
<1>5. ASSUME NEW s \in Symbol, Publish(s)
      PROVE  BarsInv'
  <2>1. PICK b \in Boundary : b <= now + Skew /\ bar' = [bar EXCEPT ![s] = b]
    BY <1>5 DEF Publish
  <2>2. \A t \in Symbol : bar'[t] = IF t = s THEN b ELSE bar[t]
    BY <2>1, BarFacts
  <2>3. \A t \in Symbol : bar'[t] <= now + Skew
    BY <2>1, <2>2, BarFacts DEF BarsInv
  <2>4. UNCHANGED <<now, seen, observed, pc>>
    BY <1>5 DEF Publish
  <2> QED
    BY <2>3, <2>4, BarFacts DEF BarsInv
<1>6. CASE UNCHANGED vars
  BY <1>6, BarFacts DEF vars, feed, BarsInv
<1>7. CASE \E lateAllowed \in BOOLEAN : Launch(lateAllowed)
  BY <1>1, <1>7 DEF Launch, Capture
<1>8. CASE Finish \/ Fail \/ Kill
  BY <1>1, <1>8 DEF Finish, Fail, Kill, Leave, feed
<1>9. CASE Commit \/ Complete \/ RecordSkip \/ RecordCompletion \/ StartPause \/ PauseOver
  BY <1>2, <1>9 DEF Commit, Complete, RecordSkip, RecordCompletion, StartPause, PauseOver,
    Reading, Goals
<1> QED
  BY <1>3, <1>4, <1>5, <1>6, <1>7, <1>8, <1>9, QuietBars, Steps DEF Environment

LEMMA QuietPlace ==
  ASSUME IInv, Quiet
  PROVE  PlaceInv'
<1> USE DEF Goals, Reading, For
<1>0. /\ PlaceInv /\ UNCHANGED <<now, next>>
      /\ now \in Nat /\ next \in Nat /\ observed \in Nat /\ observed <= now
      /\ Start \in Nat /\ End \in Nat /\ BarLength \in Nat /\ Lag \in Nat
  BY StateFacts, ConstantFacts DEF IInv, Quiet, CaptureFirst, CaptureSecond, feed, counters,
    InitialPause, InitialWait, Observe, NotPublished, Missed, Captured, PollFeed, StillPaused,
    PauseFeed
<1>1. CASE CaptureFirst
  BY <1>0, <1>1 DEF CaptureFirst, PlaceInv
<1>2. CASE CaptureSecond
  BY <1>0, <1>2 DEF CaptureSecond, PlaceInv
<1>3. CASE InitialPause
  BY <1>0, <1>3 DEF InitialPause, PauseFeed, Capture, PlaceInv
<1>4. CASE InitialWait
  BY <1>0, <1>4 DEF InitialWait, PlaceInv
<1>5. CASE Observe
  BY <1>0, <1>5 DEF Observe, Capture, PlaceInv
<1>6. CASE NotPublished
  <2>1. pc = "take" /\ next <= observed /\ next < End
    BY <1>0, <1>6 DEF NotPublished, PlaceInv
  <2>2. CASE PauseFeed
    BY <1>0, <2>1, <2>2 DEF PauseFeed, Capture, PlaceInv
  <2>3. CASE Capture("take") /\ UNCHANGED observed
    BY <1>0, <2>1, <2>3 DEF Capture, PlaceInv
  <2> QED
    BY <1>6, <2>2, <2>3 DEF NotPublished
<1>7. CASE Missed
  BY <1>0, <1>7 DEF Missed, Capture, PlaceInv
<1>8. CASE Captured
  <2>1. Common' = next'
    BY <1>0, <1>8, CommonKept DEF Captured
  <2> QED
    BY <1>0, <1>8, <2>1 DEF Captured, PlaceInv
<1>9. CASE PollFeed
  BY <1>0, <1>9 DEF PollFeed, Capture, PlaceInv
<1>10. CASE StillPaused
  BY <1>0, <1>10 DEF StillPaused, PlaceInv
<1> QED
  BY <1>1, <1>2, <1>3, <1>4, <1>5, <1>6, <1>7, <1>8, <1>9, <1>10 DEF Quiet

\* The armed boundary stays where it is looked for.
LEMMA PlaceStep ==
  ASSUME IInv, [Next]_vars
  PROVE  PlaceInv'
<1> USE DEF Goals, Reading, For, Deferred
<1>0. /\ PlaceInv
      /\ now \in Nat /\ next \in Nat /\ observed \in Nat /\ observed <= now
      /\ Start \in Nat /\ End \in Nat /\ BarLength \in Nat /\ Lag \in Nat
  BY StateFacts, ConstantFacts DEF IInv
<1>1. CASE \E lateAllowed \in BOOLEAN : Launch(lateAllowed)
  <2>1. next' < End /\ (next' <= Start \/ next' <= now + BarLength)
    BY <1>1, LaunchFacts
  <2> QED
    BY <1>0, <1>1, <2>1 DEF Launch, Capture, PlaceInv, feed
<1>2. CASE Rearming
  BY <1>0, <1>2, RearmingFacts DEF PlaceInv
<1>3. CASE Commit
  BY <1>0, <1>3 DEF Commit, PlaceInv, counters
<1>4. CASE Complete
  BY <1>0, <1>4 DEF Complete, PlaceInv
<1>5. ASSUME pc' \in {"wait", "down"}
      PROVE  PlaceInv'
  BY <1>5 DEF PlaceInv
<1>6. CASE StartPause
  BY <1>0, <1>6 DEF StartPause, PlaceInv, counters
<1>7. CASE Tick
  <2>1. now' = now + 1 /\ UNCHANGED <<pc, goal, next, observed, seen>>
    BY <1>7 DEF Tick, counters
  <2>2. Common' = Common
    BY <2>1, CommonKept
  <2>3. next <= now + BarLength => next <= (now + 1) + BarLength
    BY <1>0
  <2>4. For("initial") => next <= Start \/ next <= now + BarLength
    BY <1>0 DEF PlaceInv
  <2> HIDE DEF For
  <2>5. \A g : For(g)' = For(g)
    BY <2>1 DEF For
  <2> QED
    BY <1>0, <2>1, <2>2, <2>3, <2>4, <2>5, Zenon DEF PlaceInv
<1>8. ASSUME UNCHANGED <<now, pc, goal, next, observed, seen>>
      PROVE  PlaceInv'
  <2>1. Common' = Common
    BY <1>8, CommonKept
  <2> QED
    BY <1>0, <1>8, <2>1 DEF PlaceInv
<1>9. CASE \E s \in Symbol : Publish(s)
  BY <1>8, <1>9 DEF Publish, counters
<1>10. CASE UNCHANGED vars
  BY <1>8, <1>10 DEF vars, counters, feed
<1>11. CASE RecordSkip \/ RecordCompletion \/ PauseOver \/ Finish \/ Fail \/ Kill
  BY <1>5, <1>11 DEF RecordSkip, RecordCompletion, PauseOver, Finish, Fail, Kill, Leave
<1> QED
  BY <1>1, <1>2, <1>3, <1>4, <1>6, <1>7, <1>9, <1>10, <1>11, QuietPlace, Steps DEF Environment

\* A new record at the end of the operations journal keeps it in order.
LEMMA RecordKeepsOrder ==
  ASSUME IInv, NEW kind \in Kinds, NEW b \in Boundary, NEW c \in Nat, NEW k \in Nat,
         audit' = Audit(kind, b, c, k), audit # <<>> => kind # "started" /\ LastRecord.next <= b
  PROVE  /\ \A i \in DOMAIN audit' :
              /\ i > 1 => audit'[i].kind # "started" /\ audit'[i].next >= audit'[i - 1].next
              /\ audit'[i].next <= LastRecord'.next
         /\ LastRecord' = [kind |-> kind, next |-> b, completed |-> c, skipped |-> k]
         /\ audit # <<>> => audit'[1] = audit[1]
         /\ audit = <<>> => audit'[1].next = b
         /\ audit' # <<>>
<1>1. audit \in Seq(AuditRecord) /\ TypeOK
  BY DEF IInv, TypeOK, AuditRecord
<1>2. Len(audit) \in Nat /\ DOMAIN audit = 1 .. Len(audit)
      /\ audit \in [1 .. Len(audit) -> AuditRecord]
  BY <1>1, LenProperties
<1>3. /\ audit' \in Seq(AuditRecord) /\ audit' # <<>> /\ Len(audit') = Len(audit) + 1
      /\ \A i \in 1 .. Len(audit) : audit'[i] = audit[i]
      /\ audit'[Len(audit) + 1] = [kind |-> kind, next |-> b, completed |-> c, skipped |-> k]
  BY <1>1, AuditFacts
<1>4. DOMAIN audit' = 1 .. (Len(audit) + 1)
  BY <1>3, LenProperties
<1>5. audit = <<>> <=> Len(audit) = 0
  BY <1>1, EmptySeq
<1>6. LastRecord' = [kind |-> kind, next |-> b, completed |-> c, skipped |-> k]
  BY <1>3 DEF LastRecord
<1>7. b \in Int /\ LastRecord'.next = b
  BY <1>6 DEF Boundary
<1>8. ASSUME NEW i \in 1 .. Len(audit)
      PROVE  /\ audit'[i].next \in Int /\ audit'[i].next <= b
             /\ i > 1 => audit'[i].kind # "started" /\ audit'[i].next >= audit'[i - 1].next
  <2>0. Len(audit) \in 1 .. Len(audit)
    BY <1>2, <1>8
  <2>1. /\ audit'[i] = audit[i] /\ audit[i].next \in Boundary
        /\ audit[Len(audit)].next \in Boundary
    BY <1>2, <1>3, <1>8, <2>0 DEF AuditRecord
  <2>2. audit[i].next <= LastRecord.next /\ LastRecord.next <= b
    BY <1>2, <1>5, <1>8 DEF IInv, AuditInv
  <2>3. /\ audit[i].next \in Int /\ LastRecord.next \in Int
    BY <2>1 DEF Boundary, LastRecord
  <2>4. i > 1 => i - 1 \in 1 .. Len(audit)
    BY <1>2, <1>8
  <2>5. i > 1 => audit[i].kind # "started" /\ audit[i].next >= audit[i - 1].next
    BY <1>2, <1>8 DEF IInv, AuditInv
  <2>6. i > 1 => audit'[i].kind # "started" /\ audit'[i].next >= audit'[i - 1].next
    BY <1>3, <2>1, <2>4, <2>5
  <2> QED
    BY <1>7, <2>1, <2>2, <2>3, <2>6
<1>9. ASSUME Len(audit) + 1 > 1
      PROVE  /\ audit'[Len(audit) + 1].kind # "started"
             /\ audit'[Len(audit) + 1].next >= audit'[(Len(audit) + 1) - 1].next
  <2>1. Len(audit) \in 1 .. Len(audit) /\ (Len(audit) + 1) - 1 = Len(audit)
    BY <1>2, <1>9
  <2>2. audit'[Len(audit)].next <= b /\ audit'[Len(audit)].next \in Int
    BY <1>8, <2>1
  <2>3. kind # "started"
    BY <1>2, <1>5, <1>9
  <2> QED
    BY <1>3, <1>7, <2>1, <2>2, <2>3
<1>10. ASSUME NEW i \in DOMAIN audit'
       PROVE  /\ i > 1 => audit'[i].kind # "started" /\ audit'[i].next >= audit'[i - 1].next
              /\ audit'[i].next <= LastRecord'.next
  <2>1. CASE i \in 1 .. Len(audit)
    BY <1>7, <1>8, <2>1
  <2>2. CASE i = Len(audit) + 1
    <3>1. audit'[i].next = b
      BY <1>3, <2>2
    <3> QED
      BY <1>7, <1>9, <2>2, <3>1
  <2> QED
    BY <1>2, <1>4, <2>1, <2>2
<1>11. audit # <<>> => audit'[1] = audit[1]
  BY <1>2, <1>3, <1>5
<1>12. audit = <<>> => audit'[1].next = b
  BY <1>3, <1>5
<1> QED
  BY <1>3, <1>6, <1>10, <1>11, <1>12

\* A run that is up has counters and journals that agree.
LEMMA CountFacts ==
  ASSUME IInv, pc # "down"
  PROVE  /\ audit # <<>> /\ LastRecord.kind # "finished"
         /\ LastRecord.next \in Nat /\ LastRecord.completed \in Nat
         /\ LastRecord.next <= next
         /\ Multiple(audit[1].next) /\ audit[1].next \in Nat /\ audit[1].next <= next
         /\ LastRecord.completed + Unrecorded = completed
         /\ Len(evidence) \in Nat /\ Len(evidence) = completed + Uncounted
         /\ pc = "sleep" \/ For("resume") => LastRecord.kind = "paused"
         /\ Passed \in Nat
         /\ \/ Passed + Unrecorded = completed + skipped
            \/ pc = "wait" /\ next = End /\ LastRecord.kind = "paused"
<1>1. CountInv /\ pc # "down"
  BY DEF IInv
<1>2. audit \in Seq(AuditRecord) /\ evidence \in Seq([boundary : Boundary, newest : [Symbol -> Boundary]])
  BY DEF IInv, TypeOK, AuditRecord
<1>3. audit # <<>>
  BY <1>1 DEF CountInv
<1>4. Len(audit) \in Nat /\ Len(audit) # 0 /\ audit \in [1 .. Len(audit) -> AuditRecord]
  BY <1>2, <1>3, LenProperties, EmptySeq
<1>5. audit[1] \in AuditRecord /\ LastRecord \in AuditRecord
  BY <1>4 DEF LastRecord
<1>6. audit[1].next \in Boundary /\ LastRecord.next \in Boundary /\ LastRecord.completed \in Nat
  BY <1>5 DEF AuditRecord
<1>7. Len(evidence) \in Nat
  BY <1>2, LenProperties
<1>8. Multiple(audit[1].next) /\ audit[1].next \in Nat /\ LastRecord.next \in Nat
  BY <1>6, BoundaryIsMultiple DEF Boundary
<1>9. audit[1].next <= next
  BY <1>1 DEF CountInv
<1>10. Passed \in Nat
  <2>1. Multiple(next) /\ next <= next
    BY StateFacts
  <2> QED
    BY <1>8, <1>9, <2>1, StretchesAdd DEF Passed
<1> QED
  BY <1>1, <1>6, <1>7, <1>8, <1>10 DEF CountInv

\* A record that a run writes of its counters as they are.
LEMMA OwnRecord ==
  ASSUME IInv, pc # "down", NEW kind \in Kinds \ {"started"},
         audit' = Audit(kind, next, completed, skipped)
  PROVE  /\ \A i \in DOMAIN audit' :
              /\ i > 1 => audit'[i].kind # "started" /\ audit'[i].next >= audit'[i - 1].next
              /\ audit'[i].next <= LastRecord'.next
         /\ LastRecord'.kind = kind /\ LastRecord'.next = next
         /\ LastRecord'.completed = completed
         /\ audit'[1] = audit[1] /\ audit' # <<>>
<1>1. next \in Boundary /\ completed \in Nat /\ skipped \in Nat
  BY DEF IInv, TypeOK
<1>2. audit # <<>> /\ LastRecord.next <= next
  BY CountFacts
<1> QED
  BY <1>1, <1>2, RecordKeepsOrder

\* The record of the first boundary a launch arms.
LEMMA LaunchRecord ==
  ASSUME IInv, NEW lateAllowed \in BOOLEAN, Launch(lateAllowed)
  PROVE  /\ \A i \in DOMAIN audit' :
              /\ i > 1 => audit'[i].kind # "started" /\ audit'[i].next >= audit'[i - 1].next
              /\ audit'[i].next <= LastRecord'.next
         /\ LastRecord'.kind = "started" /\ LastRecord'.next = next'
         /\ LastRecord'.completed = 0
         /\ audit'[1].next = next' /\ audit' # <<>>
         /\ Len(evidence) = 0 /\ evidence' = evidence /\ Decided' = {}
<1>1. next' \in Boundary /\ next' = FirstBoundary
  BY LaunchFacts DEF Launch
<1>2. audit' = Audit("started", next', 0, 0) /\ audit = <<>> /\ evidence = <<>> /\ evidence' = evidence
  BY <1>1 DEF Launch
<1>3. "started" \in Kinds
  BY DEF Kinds
<1>4. Len(evidence) = 0 /\ DOMAIN evidence = {}
  BY <1>2
<1>5. Decided' = {}
  BY <1>2, <1>4 DEF Decided
<1> QED
  BY <1>1, <1>2, <1>3, <1>4, <1>5, RecordKeepsOrder

\* The record of a decision, which arms the next boundary.
LEMMA CompletionRecord ==
  ASSUME IInv, RecordCompletion
  PROVE  /\ \A i \in DOMAIN audit' :
              /\ i > 1 => audit'[i].kind # "started" /\ audit'[i].next >= audit'[i - 1].next
              /\ audit'[i].next <= LastRecord'.next
         /\ LastRecord'.kind = "completed" /\ LastRecord'.next = next'
         /\ LastRecord'.completed = completed
         /\ audit'[1] = audit[1] /\ audit' # <<>>
         /\ next' = next + BarLength /\ next < next'
         /\ Passed' = Passed + 1
<1>0. [Next]_vars
  BY DEF Next, Running
<1>1. TypeOK' /\ next' = next + BarLength
  BY <1>0, TypeStep DEF RecordCompletion
<1>2. next' \in Boundary /\ completed \in Nat /\ skipped \in Nat
  BY <1>1 DEF IInv, TypeOK
<1>3. /\ Multiple(next) /\ Multiple(next') /\ next < next' /\ (next' - next) \div BarLength = 1
  BY <1>1, StateFacts, NextUp
<1>4. pc # "down" /\ audit' = Audit("completed", next', completed, skipped)
  BY <1>1 DEF RecordCompletion
<1>5. audit # <<>> /\ LastRecord.next <= next /\ LastRecord.next \in Nat
      /\ Multiple(audit[1].next) /\ audit[1].next <= next
  BY <1>4, CountFacts
<1>6. LastRecord.next <= next'
  BY <1>3, <1>5 DEF Multiple
<1>7. "completed" \in Kinds /\ "completed" # "started"
  BY DEF Kinds
<1>8. /\ \A i \in DOMAIN audit' :
            /\ i > 1 => audit'[i].kind # "started" /\ audit'[i].next >= audit'[i - 1].next
            /\ audit'[i].next <= LastRecord'.next
      /\ LastRecord'.kind = "completed" /\ LastRecord'.next = next'
      /\ LastRecord'.completed = completed
      /\ audit'[1] = audit[1] /\ audit' # <<>>
  BY <1>2, <1>4, <1>5, <1>6, <1>7, RecordKeepsOrder
<1>9. Passed' = Passed + 1
  <2>1. next <= next'
    BY <1>3 DEF Multiple
  <2>2. (next' - audit[1].next) \div BarLength
          = (next - audit[1].next) \div BarLength + (next' - next) \div BarLength
    BY <1>3, <1>5, <2>1, StretchesAdd
  <2> QED
    BY <1>3, <1>8, <2>2 DEF Passed
<1> QED
  BY <1>1, <1>3, <1>8, <1>9

\* Steps that leave the journals alone.
LEMMA Unwritten ==
  [Next]_vars =>
    \/ UNCHANGED journals
    \/ \E lateAllowed \in BOOLEAN : Launch(lateAllowed)
    \/ Commit \/ RecordSkip \/ RecordCompletion \/ StartPause \/ Finish \/ Fail
<1>1. Quiet => UNCHANGED journals
  BY DEF Quiet, CaptureFirst, CaptureSecond, InitialPause, InitialWait, Observe, NotPublished,
    Missed, Captured, PollFeed, StillPaused, PauseFeed
<1>2. Rearming => UNCHANGED journals
  BY DEF Rearming, InitialRearm, ObservedLate, RearmMissed, CapturedLate, Resumed, Rearm
<1>3. Complete \/ PauseOver \/ Kill \/ Environment => UNCHANGED journals
  BY DEF Complete, PauseOver, Kill, Environment, Tick, Publish, vars, journals
<1> QED
  BY <1>1, <1>2, <1>3, Steps

\* The operations journal stays in order and in agreement with the evidence.
LEMMA AuditStep ==
  ASSUME IInv, [Next]_vars
  PROVE  AuditInv'
<1>1. CASE UNCHANGED journals
  BY <1>1 DEF IInv, AuditInv, LastRecord, journals
<1>2. CASE Commit
  <2>1. pc = "commit" /\ UNCHANGED audit
    BY <1>2 DEF Commit
  <2>2. /\ LastRecord.kind # "finished" /\ LastRecord.completed = Len(evidence)
        /\ Len(evidence) \in Nat
    BY <2>1, CountFacts DEF Uncounted, Unrecorded
  <2>3. Len(evidence') - LastRecord.completed = 1
    BY <1>2, <2>2, CommitFacts
  <2> QED
    BY <2>1, <2>2, <2>3 DEF IInv, AuditInv, LastRecord
<1>3. CASE \E lateAllowed \in BOOLEAN : Launch(lateAllowed)
  BY <1>3, LaunchRecord DEF AuditInv
<1>4. ASSUME NEW kind \in Kinds \ {"started"}, pc # "down",
             audit' = Audit(kind, next, completed, skipped), UNCHANGED evidence,
             pc # "record" \/ kind # "finished", pc # "record" => Uncounted = 0
      PROVE  AuditInv'
  <2>1. /\ Len(evidence) \in Nat /\ Len(evidence) = completed + Uncounted /\ completed \in Nat
    BY <1>4, CountFacts, StateFacts
  <2>2. Len(evidence') - LastRecord'.completed = Uncounted
    BY <1>4, <2>1, OwnRecord DEF Uncounted
  <2>3. Uncounted \in IF kind = "finished" THEN {0} ELSE {0, 1}
    BY <1>4 DEF Uncounted
  <2> QED
    BY <1>4, <2>2, <2>3, OwnRecord DEF AuditInv
<1>5. CASE RecordSkip
  <2>1. goal \in Kinds \ {"started", "finished"} /\ pc = "audit"
    BY <1>5 DEF RecordSkip, IInv, PlaceInv, Deferred, Kinds
  <2> QED
    BY <1>4, <1>5, <2>1 DEF RecordSkip, Uncounted
<1>6. CASE RecordCompletion
  <2>1. pc = "audit" /\ UNCHANGED evidence
    BY <1>6 DEF RecordCompletion
  <2>2. Len(evidence) \in Nat /\ Len(evidence) = completed /\ completed \in Nat
    BY <2>1, CountFacts, StateFacts DEF Uncounted
  <2> QED
    BY <1>6, <2>1, <2>2, CompletionRecord DEF AuditInv
<1>7. CASE StartPause
  BY <1>4, <1>7 DEF StartPause, Kinds, Uncounted
<1>8. CASE Finish
  BY <1>4, <1>8 DEF Finish, Kinds, Uncounted
<1>9. CASE Fail
  BY <1>4, <1>9 DEF Fail, Kinds, Uncounted
<1> QED
  BY <1>1, <1>2, <1>3, <1>5, <1>6, <1>7, <1>8, <1>9, Unwritten

\* Actions of a run that write neither journals nor counters keep the count.
LEMMA QuietCount ==
  ASSUME IInv, Quiet
  PROVE  CountInv'
<1> USE DEF Reading
<1>1. pc # "down" /\ UNCHANGED <<journals, counters>>
  BY DEF Quiet, CaptureFirst, CaptureSecond, InitialPause, InitialWait, Observe, NotPublished,
    Missed, Captured, PollFeed, StillPaused, PauseFeed
<1>2. /\ pc' \notin {"down", "record", "audit"} /\ pc \notin {"record", "audit"}
      /\ pc = "wait" => next < End
      /\ pc' = "sleep" \/ For("resume")' => pc = "sleep" \/ For("resume")
  <2>0. PlaceInv
    BY DEF IInv
  <2>1. CASE CaptureFirst
    BY <2>0, <2>1 DEF CaptureFirst, For, PlaceInv
  <2>2. CASE CaptureSecond
    BY <2>0, <2>2 DEF CaptureSecond, For, PlaceInv, Goals
  <2>3. CASE InitialPause \/ Observe \/ Missed
    BY <2>3 DEF InitialPause, Observe, Missed, PauseFeed, Capture, For
  <2>4. CASE InitialWait \/ Captured \/ StillPaused
    BY <2>4 DEF InitialWait, Captured, StillPaused, For
  <2>5. CASE NotPublished
    BY <2>5 DEF NotPublished, PauseFeed, Capture, For
  <2>6. CASE PollFeed
    BY <2>6 DEF PollFeed, Capture, For
  <2> QED
    BY <2>1, <2>2, <2>3, <2>4, <2>5, <2>6 DEF Quiet
<1>3. UNCHANGED <<audit, evidence, next, completed, skipped>>
  BY <1>1 DEF journals, counters
<1>4. /\ LastRecord' = LastRecord /\ Passed' = Passed
      /\ Uncounted' = Uncounted /\ Unrecorded' = Unrecorded
  BY <1>2, <1>3 DEF LastRecord, Passed, Uncounted, Unrecorded
<1>5. ~(pc = "wait" /\ next = End)
  BY <1>2, ConstantFacts
<1> HIDE DEF Reading
<1>6. Passed + Unrecorded = completed + skipped
  BY <1>1, <1>5, CountFacts
<1> QED
  BY <1>1, <1>2, <1>3, <1>4, <1>6, CountFacts DEF CountInv

\* A run's counters go on agreeing with its journals.
LEMMA CountStep ==
  ASSUME IInv, [Next]_vars
  PROVE  CountInv'
<1> DEFINE Balanced == Passed + Unrecorded = completed + skipped
<1>0. completed \in Nat /\ skipped \in Nat /\ next \in Nat /\ Multiple(next)
  BY StateFacts
<1>1. CASE \E lateAllowed \in BOOLEAN : Launch(lateAllowed)
  <2> PICK lateAllowed \in BOOLEAN : Launch(lateAllowed)
    BY <1>1
  <2>1. completed' = 0 /\ skipped' = 0 /\ pc' = "capture" /\ goal' = "initial"
    BY DEF Launch, Capture, IInv, CountInv
  <2>2. next' \in Nat
    BY LaunchFacts DEF Boundary
  <2>3. Passed' = 0
    BY <2>2, LaunchRecord, NoStretch DEF Passed
  <2>4. Uncounted' = 0 /\ Unrecorded' = 0 /\ ~For("resume")'
    BY <2>1 DEF Uncounted, Unrecorded, For, Reading
  <2> QED
    BY <2>1, <2>2, <2>3, <2>4, LaunchRecord DEF CountInv
<1>2. CASE Quiet
  BY <1>2, QuietCount
<1>3. CASE Rearming
  <2>1. /\ pc \in Goals /\ pc' = "audit" /\ goal' # "completed"
        /\ UNCHANGED <<audit, evidence, completed>>
        /\ next' \in Nat /\ next <= next' /\ skipped' \in Nat
        /\ \A a : Multiple(a) /\ a <= next =>
              /\ (next' - a) \div BarLength \in Nat
              /\ (next' - a) \div BarLength + skipped = (next - a) \div BarLength + skipped'
    BY <1>3, RearmingFacts DEF journals, Deferred, Boundary
  <2>2. pc \notin {"down", "wait", "record", "audit"}
    BY <2>1 DEF Goals
  <2>3. Uncounted = 0 /\ Unrecorded = 0 /\ Uncounted' = 0 /\ Unrecorded' = 0
    BY <2>1, <2>2 DEF Uncounted, Unrecorded
  <2>4. Passed' \in Nat /\ Passed' + skipped = Passed + skipped'
    BY <2>1, <2>2, CountFacts DEF Passed
  <2>5. Passed' + 0 = completed' + skipped'
    <3>1. Passed \in Nat /\ Passed + 0 = completed + skipped
      BY <2>2, <2>3, CountFacts
    <3>2. completed' = completed /\ skipped' \in Nat
      BY <2>1
    <3> QED
      BY <1>0, <2>4, <3>1, <3>2
  <2>6. LastRecord' = LastRecord /\ audit'[1] = audit[1]
    BY <2>1 DEF LastRecord
  <2>7. LastRecord.next <= next' /\ audit[1].next <= next'
    <3>1. /\ LastRecord.next \in Nat /\ LastRecord.next <= next
          /\ audit[1].next \in Nat /\ audit[1].next <= next
      BY <2>2, CountFacts
    <3>2. next' \in Nat /\ next <= next'
      BY <2>1
    <3> QED
      BY <1>0, <3>1, <3>2
  <2>8. pc' # "sleep" /\ ~For("resume")'
    BY <2>1 DEF For, Reading
  <2> QED
    BY <2>1, <2>2, <2>3, <2>5, <2>6, <2>7, <2>8, CountFacts DEF CountInv
<1>4. CASE Commit
  <2>1. pc = "commit" /\ pc' = "record" /\ UNCHANGED <<audit, next, completed, skipped>>
    BY <1>4 DEF Commit, counters
  <2>2. Uncounted = 0 /\ Unrecorded = 0 /\ Uncounted' = 1 /\ Unrecorded' = 0
    BY <2>1 DEF Uncounted, Unrecorded
  <2>3. LastRecord' = LastRecord /\ Passed' = Passed /\ pc' # "sleep" /\ ~For("resume")'
    BY <2>1 DEF LastRecord, Passed, For, Reading
  <2>4. Len(evidence') = completed' + 1
    BY <1>0, <1>4, <2>1, <2>2, CommitFacts, CountFacts
  <2> QED
    BY <2>1, <2>2, <2>3, <2>4, CountFacts DEF CountInv
<1>5. CASE Complete
  <2>1. /\ pc = "record" /\ pc' = "audit" /\ goal' = "completed"
        /\ UNCHANGED <<audit, evidence, next, skipped>> /\ completed' = completed + 1
    BY <1>5 DEF Complete, journals
  <2>2. Uncounted = 1 /\ Unrecorded = 0 /\ Uncounted' = 0 /\ Unrecorded' = 1
    BY <2>1 DEF Uncounted, Unrecorded
  <2>3. LastRecord' = LastRecord /\ Passed' = Passed /\ pc' # "sleep" /\ ~For("resume")'
    BY <2>1 DEF LastRecord, Passed, For, Reading
  <2>4. Passed' + 1 = completed' + skipped'
    BY <1>0, <2>1, <2>2, <2>3, CountFacts
  <2>5. Len(evidence') = completed' + 0 /\ LastRecord.completed + 1 = completed'
    BY <1>0, <2>1, <2>2, CountFacts
  <2> QED
    BY <2>1, <2>2, <2>3, <2>4, <2>5, CountFacts DEF CountInv
<1>6. CASE RecordSkip
  <2>1. /\ pc = "audit" /\ pc' = "wait" /\ goal \in Kinds \ {"started", "finished"}
        /\ goal # "completed"
        /\ UNCHANGED <<evidence, next, completed, skipped>>
        /\ audit' = Audit(goal, next, completed, skipped)
    BY <1>6 DEF RecordSkip, counters, IInv, PlaceInv, Deferred, Kinds
  <2>2. Uncounted = 0 /\ Unrecorded = 0 /\ Uncounted' = 0 /\ Unrecorded' = 0
    BY <2>1 DEF Uncounted, Unrecorded
  <2>3. pc' # "sleep" /\ ~For("resume")'
    BY <2>1 DEF For, Reading
  <2>4. /\ LastRecord'.kind = goal /\ LastRecord'.next = next /\ LastRecord'.completed = completed
        /\ audit'[1] = audit[1] /\ audit' # <<>>
    BY <2>1, OwnRecord
  <2>5. Passed' = Passed
    BY <2>1, <2>4 DEF Passed
  <2> QED
    BY <1>0, <2>1, <2>2, <2>3, <2>4, <2>5, CountFacts DEF CountInv
<1>7. CASE RecordCompletion
  <2>1. /\ pc = "audit" /\ goal = "completed" /\ pc' = "wait"
        /\ UNCHANGED <<evidence, completed, skipped>>
    BY <1>7 DEF RecordCompletion
  <2>2. Uncounted = 0 /\ Unrecorded = 1 /\ Uncounted' = 0 /\ Unrecorded' = 0
    BY <2>1 DEF Uncounted, Unrecorded
  <2>3. pc' # "sleep" /\ ~For("resume")'
    BY <2>1 DEF For, Reading
  <2>4. Passed' + 0 = completed' + skipped'
    BY <1>0, <1>7, <2>1, <2>2, CountFacts, CompletionRecord
  <2>5. audit[1].next <= next' /\ next' <= next'
    BY <1>0, <1>7, <2>1, CountFacts, CompletionRecord, ConstantFacts
  <2> QED
    BY <1>0, <1>7, <2>1, <2>2, <2>3, <2>4, <2>5, CountFacts, CompletionRecord DEF CountInv
<1>8. CASE StartPause
  <2>1. /\ pc = "pause" /\ pc' = "sleep"
        /\ UNCHANGED <<evidence, next, completed, skipped>>
        /\ audit' = Audit("paused", next, completed, skipped)
    BY <1>8 DEF StartPause, counters
  <2>2. Uncounted = 0 /\ Unrecorded = 0 /\ Uncounted' = 0 /\ Unrecorded' = 0
    BY <2>1 DEF Uncounted, Unrecorded
  <2>3. "paused" \in Kinds \ {"started"}
    BY DEF Kinds
  <2>4. /\ LastRecord'.kind = "paused" /\ LastRecord'.next = next
        /\ LastRecord'.completed = completed
        /\ audit'[1] = audit[1] /\ audit' # <<>>
    BY <2>1, <2>3, OwnRecord
  <2>5. Passed' = Passed
    BY <2>1, <2>4 DEF Passed
  <2> QED
    BY <1>0, <2>1, <2>2, <2>4, <2>5, CountFacts DEF CountInv
<1>9. CASE PauseOver
  <2>1. /\ pc = "sleep" /\ pc' = "wait" /\ next' = End
        /\ UNCHANGED <<audit, evidence, completed, skipped>>
    BY <1>9 DEF PauseOver, journals
  <2>2. Uncounted = 0 /\ Unrecorded = 0 /\ Uncounted' = 0 /\ Unrecorded' = 0
    BY <2>1 DEF Uncounted, Unrecorded
  <2>3. next < End
    BY <2>1 DEF IInv, PlaceInv
  <2>4. LastRecord.next <= End /\ audit[1].next <= End
    BY <1>0, <2>1, <2>3, CountFacts, ConstantFacts
  <2>5. LastRecord' = LastRecord /\ LastRecord.kind = "paused"
    BY <2>1, CountFacts DEF LastRecord
  <2> QED
    BY <1>0, <2>1, <2>2, <2>4, <2>5, CountFacts DEF CountInv
<1>10. CASE Finish \/ Fail \/ Kill
  BY <1>10 DEF Finish, Fail, Kill, Leave, CountInv
<1>11. CASE Environment
  <2>1. UNCHANGED <<audit, evidence, pc, goal, next, completed, skipped>>
    BY <1>11 DEF Environment, Tick, Publish, vars, journals, counters
  <2> QED
    BY <2>1 DEF IInv, CountInv, LastRecord, Passed, Uncounted, Unrecorded, For, Reading
<1> QED
  BY <1>1, <1>2, <1>3, <1>4, <1>5, <1>6, <1>7, <1>8, <1>9, <1>10, <1>11, Steps

\* Decisions stay before the armed boundary.
LEMMA DecidedStep ==
  ASSUME IInv, [Next]_vars
  PROVE  DecidedInv'
<1>0. next \in Nat /\ \A b \in Decided : b \in Nat
  <2> DEFINE R == [boundary : Boundary, newest : [Symbol -> Boundary]]
  <2>1. evidence \in [1 .. Len(evidence) -> R] /\ DOMAIN evidence = 1 .. Len(evidence)
    BY LenProperties DEF IInv, TypeOK
  <2>2. \A i \in DOMAIN evidence : evidence[i].boundary \in Boundary
    BY <2>1
  <2> QED
    BY <2>2, StateFacts DEF Decided, Boundary
<1>1. CASE \E lateAllowed \in BOOLEAN : Launch(lateAllowed)
  BY <1>1, LaunchRecord DEF DecidedInv
<1>2. CASE pc' = "down"
  BY <1>2 DEF DecidedInv
<1>3. ASSUME pc # "down", UNCHANGED evidence, next' \in Nat, next <= next',
             Uncounted + Unrecorded = 0
      PROVE  DecidedInv'
  <2>1. Decided' = Decided
    BY <1>3 DEF Decided
  <2>2. \A b \in Decided : b < next
    BY <1>3 DEF IInv, DecidedInv
  <2> QED
    BY <1>0, <1>3, <2>1, <2>2 DEF DecidedInv
<1>4. CASE Quiet
  <2>1. /\ pc \notin {"down", "record", "audit"} /\ UNCHANGED <<evidence, next>>
    BY <1>4 DEF Quiet, CaptureFirst, CaptureSecond, InitialPause, InitialWait, Observe,
      NotPublished, Missed, Captured, PollFeed, StillPaused, PauseFeed, journals, counters
  <2> QED
    BY <1>0, <1>3, <2>1 DEF Uncounted, Unrecorded
<1>5. CASE Rearming
  <2>1. /\ pc \notin {"down", "record", "audit"} /\ UNCHANGED evidence
        /\ next' \in Nat /\ next <= next'
    BY <1>5, RearmingFacts DEF Goals, journals, Boundary
  <2> QED
    BY <1>3, <2>1 DEF Uncounted, Unrecorded
<1>6. CASE Commit
  <2>1. pc = "commit" /\ pc' = "record" /\ next \notin Decided /\ UNCHANGED next
    BY <1>6 DEF Commit, counters
  <2>2. \A b \in Decided : b < next
    BY <2>1 DEF IInv, DecidedInv, Uncounted, Unrecorded
  <2>3. Decided' = Decided \cup {next}
    BY <1>6, CommitFacts
  <2>4. Uncounted' + Unrecorded' = 1
    BY <2>1 DEF Uncounted, Unrecorded
  <2> QED
    BY <2>1, <2>2, <2>3, <2>4 DEF DecidedInv
<1>7. CASE Complete
  <2>1. /\ pc = "record" /\ pc' = "audit" /\ goal' = "completed" /\ UNCHANGED <<evidence, next>>
    BY <1>7 DEF Complete, journals
  <2>2. Decided' = Decided /\ Uncounted' + Unrecorded' = 1
    BY <2>1 DEF Decided, Uncounted, Unrecorded
  <2> QED
    BY <2>1, <2>2 DEF IInv, DecidedInv
<1>8. CASE RecordSkip
  <2>1. pc = "audit" /\ goal # "completed" /\ UNCHANGED <<evidence, next>>
    BY <1>8 DEF RecordSkip, counters
  <2> QED
    BY <1>0, <1>3, <2>1 DEF Uncounted, Unrecorded
<1>9. CASE RecordCompletion
  <2>1. pc # "down" /\ Decided' = Decided /\ next < next' /\ next' \in Nat
    BY <1>9, CompletionRecord, ConstantFacts, <1>0 DEF RecordCompletion, Decided
  <2>2. \A b \in Decided : b <= next
    BY <1>0, <2>1 DEF IInv, DecidedInv
  <2> QED
    BY <1>0, <2>1, <2>2 DEF DecidedInv
<1>10. CASE StartPause
  <2>1. pc = "pause" /\ UNCHANGED <<evidence, next>>
    BY <1>10 DEF StartPause, counters
  <2> QED
    BY <1>0, <1>3, <2>1 DEF Uncounted, Unrecorded
<1>11. CASE PauseOver
  <2>1. pc = "sleep" /\ UNCHANGED evidence /\ next' = End
    BY <1>11 DEF PauseOver, journals
  <2>2. next < End
    BY <2>1 DEF IInv, PlaceInv
  <2> QED
    BY <1>0, <1>3, <2>1, <2>2, ConstantFacts DEF Uncounted, Unrecorded
<1>12. CASE Finish \/ Fail \/ Kill
  BY <1>2, <1>12 DEF Finish, Fail, Kill, Leave
<1>13. CASE Environment
  <2>1. UNCHANGED <<evidence, pc, goal, next>>
    BY <1>13 DEF Environment, Tick, Publish, vars, journals, counters
  <2> QED
    BY <2>1 DEF IInv, DecidedInv, Decided, Uncounted, Unrecorded
<1> QED
  BY <1>1, <1>4, <1>5, <1>6, <1>7, <1>8, <1>9, <1>10, <1>11, <1>12, <1>13, Steps

-----------------------------------------------------------------------------
\* The theorems

\* The invariant holds of every state of every behaviour.
LEMMA AlwaysInvariant == Spec => []IInv
<1>1. Init => IInv
  <2> SUFFICES ASSUME Init PROVE IInv
    OBVIOUS
  <2> USE DEF Init, Idle
  <2>1. TypeOK
    BY NoughtIsBoundary DEF TypeOK, Unseen, Goals
  <2>2. BarsInv
    BY ConstantFacts DEF BarsInv, Unseen, None, Goals
  <2>3. PlaceInv
    BY DEF PlaceInv, For, Reading
  <2>4. AuditInv
    BY DEF AuditInv
  <2>5. CountInv /\ DecidedInv
    BY DEF CountInv, DecidedInv
  <2> QED
    BY <2>1, <2>2, <2>3, <2>4, <2>5 DEF IInv
<1>2. IInv /\ [Next]_vars => IInv'
  BY TypeStep, BarsStep, PlaceStep, AuditStep, CountStep, DecidedStep DEF IInv
<1> QED
  BY <1>1, <1>2, PTL DEF Spec

\* The state of a run, its journals and the feeds keep their types, which
\* says that every boundary armed, decided or recorded lies on the bar grid.
THEOREM TypeCorrect == Spec => []TypeOK
<1>1. IInv => TypeOK
  BY DEF IInv
<1> QED
  BY <1>1, AlwaysInvariant, PTL

\* However the feeds behave and wherever a run fails or is killed, each
\* boundary it passed is either decided or counted as skipped, but for those
\* a pause to the end of the window gave up, and no record of the operations
\* journal counts other decisions than the evidence holds.
THEOREM BoundariesAlwaysAccounted == Spec => []BoundariesAccounted
<1>1. IInv => BoundariesAccounted
  <2> SUFFICES ASSUME IInv PROVE BoundariesAccounted
    OBVIOUS
  <2>1. ASSUME pc # "down"
        PROVE  /\ Len(evidence) = completed + Uncounted
               /\ \/ Passed + Unrecorded = completed + skipped
                  \/ next = End /\ audit[Len(audit)].kind = "paused"
    BY <2>1, CountFacts DEF LastRecord
  <2>2. ASSUME NEW i \in DOMAIN audit
        PROVE  /\ i > 1 => audit[i].kind # "started" /\ audit[i].next >= audit[i - 1].next
               /\ i = Len(audit) => Len(evidence) - audit[i].completed \in
                    IF audit[i].kind = "finished" THEN {0} ELSE {0, 1}
    <3>1. audit # <<>>
      BY <2>2
    <3> QED
      BY <2>2, <3>1 DEF IInv, AuditInv, LastRecord
  <2> QED
    BY <2>1, <2>2 DEF BoundariesAccounted, Passed, Uncounted, Unrecorded
<1> QED
  BY <1>1, AlwaysInvariant, PTL

\* A decision is of the armed boundary, from candles no later than it, after
\* all decisions and all records made before; and what counts as completed
\* was observed at most Lag + CycleLimit after its boundary.
THEOREM OnlyLiveEvidenceAlways == Spec => OnlyLiveEvidence
<1> DEFINE Live(e) ==
             /\ \A s \in Symbol : e.newest[s] = e.boundary
             /\ \A b \in Decided : b < e.boundary
             /\ \A i \in DOMAIN audit : audit[i].next <= e.boundary
           A == /\ evidence' # evidence => Live(evidence'[Len(evidence')])
                /\ completed' > completed => now - next <= Lag + CycleLimit
<1>1. ASSUME IInv, [Next]_vars PROVE A
  <2>0. completed \in Nat /\ now \in Nat /\ observed \in Nat /\ next \in Nat
    BY <1>1, StateFacts
  <2>1. CASE Commit
    <3>1. pc = "commit" /\ next \notin Decided /\ UNCHANGED completed
      BY <2>1 DEF Commit, counters
    <3>2. evidence'[Len(evidence')] = Decision /\ \A s \in Symbol : Visible(s) = next
      BY <1>1, <2>1, CommitFacts
    <3>3. Decision.boundary = next /\ \A s \in Symbol : Decision.newest[s] = next
      BY <3>2 DEF Decision
    <3>4. \A b \in Decided : b < next
      BY <1>1, <3>1 DEF IInv, DecidedInv, Uncounted, Unrecorded
    <3>5. ASSUME NEW i \in DOMAIN audit PROVE audit[i].next <= next
      <4>1. audit[i].next <= LastRecord.next
        BY <1>1 DEF IInv, AuditInv
      <4>2. LastRecord.next <= next /\ LastRecord.next \in Nat
        BY <1>1, <3>1, CountFacts
      <4>3. audit[i].next \in Boundary
        <5>1. audit \in Seq(AuditRecord)
          BY <1>1 DEF IInv, TypeOK, AuditRecord
        <5>2. audit[i] \in AuditRecord
          BY <5>1, ElementOfSeq, LenProperties
        <5> QED
          BY <5>2 DEF AuditRecord
      <4> QED
        BY <2>0, <4>1, <4>2, <4>3 DEF Boundary
    <3>6. Live(evidence'[Len(evidence')])
      BY <3>2, <3>3, <3>4, <3>5
    <3> QED
      BY <2>0, <3>1, <3>6
  <2>2. CASE Complete
    <3>1. UNCHANGED evidence /\ pc = "record" /\ now - observed <= CycleLimit
      BY <2>2 DEF Complete, journals
    <3>2. next <= observed /\ observed - next <= Lag
      BY <1>1, <3>1 DEF IInv, PlaceInv
    <3>3. now - next <= Lag + CycleLimit
      BY <2>0, <3>1, <3>2, ConstantFacts
    <3> QED
      BY <3>1, <3>3
  <2>3. ASSUME UNCHANGED evidence, completed' = completed \/ completed' = 0
        PROVE  A
    BY <2>0, <2>3
  <2>4. CASE \E lateAllowed \in BOOLEAN : Launch(lateAllowed)
    BY <2>3, <2>4 DEF Launch
  <2>5. CASE Quiet
    BY <2>3, <2>5 DEF Quiet, CaptureFirst, CaptureSecond, InitialPause, InitialWait, Observe,
      NotPublished, Missed, Captured, PollFeed, StillPaused, PauseFeed, journals, counters
  <2>6. CASE Rearming
    BY <1>1, <2>3, <2>6, RearmingFacts DEF journals
  <2>7. CASE RecordSkip \/ RecordCompletion \/ StartPause \/ PauseOver
    BY <2>3, <2>7 DEF RecordSkip, RecordCompletion, StartPause, PauseOver, journals, counters
  <2>8. CASE Finish \/ Fail \/ Kill
    BY <2>3, <2>8 DEF Finish, Fail, Kill, Leave, journals
  <2>9. CASE Environment
    BY <2>3, <2>9 DEF Environment, Tick, Publish, vars, journals, counters
  <2> QED
    BY <1>1, <2>1, <2>2, <2>4, <2>5, <2>6, <2>7, <2>8, <2>9, Steps
<1>2. IInv /\ [Next]_vars => [A]_vars
  BY <1>1
<1>3. OnlyLiveEvidence <=> [][A]_vars
  BY DEF OnlyLiveEvidence
<1> HIDE DEF A
<1> QED
  BY <1>2, <1>3, AlwaysInvariant, PTL DEF Spec

=============================================================================
