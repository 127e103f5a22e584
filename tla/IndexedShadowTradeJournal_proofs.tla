---------------- MODULE IndexedShadowTradeJournal_proofs ----------------
(***************************************************************************)
(* Theorems about the indexed evidence journal, for any number of views,   *)
(* events and writes.                                                      *)
(*                                                                         *)
(* That no event is recorded twice holds however a write is torn and       *)
(* whenever it falls.  The others need the two conditions the paired       *)
(* runner meets: an interrupted write leaves a fragment of its line, and   *)
(* nobody writes between the lines and the fingerprint of a rebuild that   *)
(* holds no journal lock.                                                  *)
(***************************************************************************)
EXTENDS IndexedShadowTradeJournal, SequenceTheorems, WellFoundedInduction, TLAPS

\* The two conditions.
Protected == Tear \subseteq {"fragment"} /\ ~RacingRebuild

-----------------------------------------------------------------------------
\* The file

LEMMA FrontOf ==
  ASSUME NEW S, NEW s \in Seq(S), s # <<>>
  PROVE  /\ Front(s) \in Seq(S) /\ Len(Front(s)) = Len(s) - 1 /\ Len(s) \in Nat \ {0}
         /\ \A i \in 1 .. Len(s) - 1 : Front(s)[i] = s[i]
<1> DEFINE n == Len(s)
           m == n - 1
<1>1. n \in Nat \ {0}
  BY EmptySeq
<1>2. \A i \in 1 .. m : s[i] \in S
  BY <1>1, LenProperties
<1>3. m \in Int /\ m \in Nat
  BY <1>1
<1>4. Front(s) = SubSeq(s, 1, m)
  BY DEF Front
<1> HIDE DEF m
<1>5. /\ SubSeq(s, 1, m) \in Seq(S)
      /\ Len(SubSeq(s, 1, m)) = IF 1 <= m THEN m - 1 + 1 ELSE 0
      /\ \A i \in 1 .. m - 1 + 1 : SubSeq(s, 1, m)[i] = s[1 + i - 1]
  BY <1>2, <1>3, SubSeqProperties
<1>6. m - 1 + 1 = m /\ (1 <= m \/ m = 0) /\ \A i \in 1 .. m : 1 + i - 1 = i
  BY <1>3
<1>7. Front(s) \in Seq(S) /\ Len(Front(s)) = m /\ \A i \in 1 .. m : Front(s)[i] = s[i]
  BY <1>4, <1>5, <1>6
<1> QED
  BY <1>1, <1>7 DEF m

LEMMA FrontOfAppend ==
  ASSUME NEW S, NEW s \in Seq(S), NEW e \in S
  PROVE  Front(Append(s, e)) = s /\ Last(Append(s, e)) = e
<1> DEFINE t == Append(s, e)
<1>1. /\ t \in Seq(S) /\ t # <<>> /\ Len(t) = Len(s) + 1 /\ Len(s) \in Nat
      /\ \A i \in 1 .. Len(s) : t[i] = s[i]
      /\ t[Len(s) + 1] = e
  BY AppendProperties, LenProperties
<1> HIDE DEF t
<1>2. Front(t) \in Seq(S) /\ Len(Front(t)) = Len(s) /\ \A i \in 1 .. Len(s) : Front(t)[i] = s[i]
  BY <1>1, FrontOf
<1>3. Front(t) = s
  BY <1>2, SeqEqual
<1> QED
  BY <1>1, <1>3 DEF t, Last

Text == Seq(Payload)
File == [lines : Seq(Text), newline : BOOLEAN, stamp : 0 .. MaxWrites]

\* The events that lines commit to.
Told(lines) == IF lines = <<>> THEN <<>> ELSE Last(lines)

LEMMA ToldType ==
  ASSUME NEW L \in Seq(Text)
  PROVE  Told(L) \in Text
<1>1. <<>> \in Text
  BY EmptySeq DEF Text
<1>2. L # <<>> => Len(L) \in 1 .. Len(L) /\ L \in [1 .. Len(L) -> Text]
  BY EmptySeq, LenProperties
<1> QED
  BY <1>1, <1>2 DEF Told, Last

\* An event appended to intact lines continues them.
LEMMA ChainedAppend ==
  ASSUME NEW L \in Seq(Text), Chained(L), NEW p \in Payload
  PROVE  /\ Chained(Append(L, Append(Told(L), p)))
         /\ Told(Append(L, Append(Told(L), p))) = Append(Told(L), p)
<1> DEFINE e == Append(Told(L), p)
           M == Append(L, e)
<1>1. Told(L) \in Text
  BY ToldType
<1>2. e \in Text /\ e # <<>>
  BY <1>1, AppendProperties DEF Text
<1>3. Front(e) = Told(L)
  BY <1>1, FrontOfAppend DEF Text
<1> HIDE DEF e
<1>4. /\ M \in Seq(Text) /\ M # <<>> /\ Len(M) = Len(L) + 1 /\ Len(L) \in Nat
      /\ \A i \in 1 .. Len(L) : M[i] = L[i]
      /\ M[Len(L) + 1] = e
  BY <1>2, AppendProperties, LenProperties
<1> HIDE DEF M
<1>5. DOMAIN M = 1 .. (Len(L) + 1) /\ DOMAIN L = 1 .. Len(L)
  BY <1>4, LenProperties
<1>6. ASSUME NEW i \in DOMAIN M
      PROVE  M[i] # Garbage /\ Front(M[i]) = (IF i = 1 THEN <<>> ELSE M[i - 1])
  <2>1. CASE i \in 1 .. Len(L)
    <3>1. L[i] # Garbage /\ Front(L[i]) = (IF i = 1 THEN <<>> ELSE L[i - 1])
      BY <1>5, <2>1 DEF Chained
    <3>2. i # 1 => i - 1 \in 1 .. Len(L)
      BY <1>4, <2>1
    <3> QED
      BY <1>4, <2>1, <3>1, <3>2
  <2>2. CASE i = Len(L) + 1
    <3>1. M[i] = e /\ M[i] # Garbage
      BY <1>2, <1>4, <2>2 DEF Garbage
    <3>2. CASE L = <<>>
      <4>1. i = 1 /\ Told(L) = <<>>
        BY <2>2, <3>2 DEF Told
      <4> QED
        BY <1>3, <3>1, <4>1
    <3>3. CASE L # <<>>
      <4>1. Len(L) # 0
        BY <3>3, EmptySeq
      <4>2. i # 1 /\ i - 1 = Len(L) /\ Len(L) \in 1 .. Len(L)
        BY <1>4, <2>2, <4>1
      <4>3. Told(L) = M[i - 1]
        BY <1>4, <3>3, <4>2 DEF Told, Last
      <4> QED
        BY <1>3, <3>1, <4>2, <4>3
    <3> QED
      BY <3>2, <3>3
  <2> QED
    BY <1>4, <1>5, <2>1, <2>2
<1>7. Told(M) = e
  BY <1>4 DEF Told, Last
<1> QED
  BY <1>6, <1>7 DEF M, e, Chained

\* The largest of a set of numbers.
LEMMA Largest ==
  ASSUME NEW N \in SUBSET Nat, NEW n \in N, \A k \in N : k <= n
  PROVE  (CHOOSE m \in N : \A k \in N : k <= m) = n
<1>1. \A m \in N : (\A k \in N : k <= m) => m = n
  BY SMT
<1> QED
  BY <1>1, Zenon

\* The numbers of intact lines of a file.
IntactUpTo(f) == {n \in 0 .. Len(f.lines) : Chained(SubSeq(f.lines, 1, n))}

LEMMA ReadableDef ==
  ASSUME NEW f, Len(f.lines) \in Nat, NEW n \in IntactUpTo(f), \A k \in IntactUpTo(f) : k <= n
  PROVE  Readable(f) = IF n = 0 THEN <<>> ELSE f.lines[n]
<1>1. IntactUpTo(f) \in SUBSET Nat
  BY DEF IntactUpTo
<1>2. (CHOOSE m \in IntactUpTo(f) : \A k \in IntactUpTo(f) : k <= m) = n
  BY <1>1, Largest
<1>3. Readable(f) = IF (CHOOSE m \in IntactUpTo(f) : \A k \in IntactUpTo(f) : k <= m) = 0
                    THEN <<>>
                    ELSE f.lines[CHOOSE m \in IntactUpTo(f) : \A k \in IntactUpTo(f) : k <= m]
  BY Zenon DEF Readable, IntactUpTo
<1> QED
  BY <1>2, <1>3, Zenon

\* A reader of intact lines obtains all events.
LEMMA ReadableIntact ==
  ASSUME NEW f, f.lines \in Seq(Text), Valid(f)
  PROVE  Readable(f) = Events(f)
<1>1. Len(f.lines) \in Nat /\ SubSeq(f.lines, 1, Len(f.lines)) = f.lines /\ Chained(f.lines)
  BY LenProperties, SubSeqFull DEF Valid
<1>2. Len(f.lines) \in IntactUpTo(f)
  <2>1. Len(f.lines) \in 0 .. Len(f.lines)
    BY <1>1
  <2>2. Chained(SubSeq(f.lines, 1, Len(f.lines)))
    BY <1>1, Zenon
  <2> QED
    BY <2>1, <2>2, Zenon DEF IntactUpTo
<1>3. \A k \in IntactUpTo(f) : k <= Len(f.lines)
  BY <1>1 DEF IntactUpTo
<1>4. Readable(f) = IF Len(f.lines) = 0 THEN <<>> ELSE f.lines[Len(f.lines)]
  BY <1>1, <1>2, <1>3, ReadableDef
<1>5. Len(f.lines) = 0 <=> f.lines = <<>>
  BY EmptySeq
<1> QED
  BY <1>4, <1>5 DEF Events, Last

\* A reader stops before a fragment at the end.
LEMMA ReadableFragment ==
  ASSUME NEW f, NEW L \in Seq(Text), f.lines = Append(L, Garbage), Chained(L)
  PROVE  Readable(f) = Told(L) /\ ~Valid(f)
<1> DEFINE M == f.lines
<1>1. Garbage \in Text
  BY EmptySeq DEF Garbage, Text
<1>2. /\ M \in Seq(Text) /\ Len(M) = Len(L) + 1 /\ Len(L) \in Nat
      /\ \A i \in 1 .. Len(L) : M[i] = L[i]
      /\ M[Len(L) + 1] = Garbage
      /\ SubSeq(M, 1, Len(M)) = M /\ SubSeq(M, 1, Len(L)) = L
      /\ DOMAIN M = 1 .. Len(M)
  <2>1. Front(M) = L
    BY <1>1, FrontOfAppend
  <2>2. M \in Seq(Text) /\ Len(M) = Len(L) + 1 /\ Len(L) \in Nat
    BY <1>1, AppendProperties, LenProperties
  <2>3. Len(M) - 1 = Len(L)
    BY <2>2
  <2>4. SubSeq(M, 1, Len(L)) = L
    BY <2>1, <2>3 DEF Front
  <2> HIDE DEF M
  <2>5. SubSeq(M, 1, Len(M)) = M /\ DOMAIN M = 1 .. Len(M)
    BY <2>2, SubSeqFull, LenProperties
  <2>6. /\ \A i \in 1 .. Len(L) : M[i] = L[i]
        /\ M[Len(L) + 1] = Garbage
    BY <1>1, AppendProperties DEF M
  <2> QED
    BY <2>2, <2>4, <2>5, <2>6
<1> HIDE DEF M
<1>3. ~Chained(M)
  <2>1. Len(L) + 1 \in DOMAIN M
    BY <1>2
  <2> QED
    BY <1>2, <2>1 DEF Chained
<1>4. Len(L) \in IntactUpTo(f)
  <2>1. Len(L) \in 0 .. Len(M)
    BY <1>2
  <2>2. Chained(SubSeq(M, 1, Len(L)))
    BY <1>2, Zenon
  <2> QED
    BY <2>1, <2>2, Zenon DEF IntactUpTo, M
<1>5. \A k \in IntactUpTo(f) : k <= Len(L)
  <2>1. Len(M) \notin IntactUpTo(f)
    BY <1>2, <1>3 DEF IntactUpTo, M
  <2>2. \A k \in IntactUpTo(f) : k \in 0 .. Len(M)
    BY DEF IntactUpTo, M
  <2> QED
    BY <1>2, <2>1, <2>2
<1>6. Readable(f) = IF Len(L) = 0 THEN <<>> ELSE M[Len(L)]
  <2>1. Len(f.lines) \in Nat
    BY <1>2 DEF M
  <2>2. Readable(f) = IF Len(L) = 0 THEN <<>> ELSE f.lines[Len(L)]
    BY <1>4, <1>5, <2>1, ReadableDef
  <2> QED
    BY <2>2 DEF M
<1>7. Len(L) = 0 <=> L = <<>>
  BY EmptySeq
<1>8. Len(L) # 0 => M[Len(L)] = L[Len(L)]
  BY <1>2
<1> QED
  BY <1>3, <1>6, <1>7, <1>8 DEF Told, Last, Valid, M

\* What the two ways to write leave of an intact file.
LEMMA PutFacts ==
  ASSUME NEW f \in File, Valid(f), f.newline, f.stamp < MaxWrites, NEW p \in Payload
  PROVE  LET e == Append(Events(f), p)
             g == Put(f, e, TRUE)
             h == Put(f, Garbage, FALSE)
         IN  /\ g \in File /\ Valid(g) /\ g.newline /\ g.stamp = f.stamp + 1
             /\ Events(g) = e /\ Readable(g) = e /\ g.lines = Append(f.lines, e)
             /\ h \in File /\ ~Valid(h) /\ ~h.newline /\ h.stamp = f.stamp + 1
             /\ Readable(h) = Events(f) /\ h.lines = Append(f.lines, Garbage)
             /\ Readable(f) = Events(f) /\ Events(f) \in Text
<1> DEFINE L == f.lines
           e == Append(Events(f), p)
           g == Put(f, e, TRUE)
           h == Put(f, Garbage, FALSE)
<1>1. L \in Seq(Text) /\ Chained(L) /\ f.stamp \in 0 .. MaxWrites /\ MaxWrites \in Nat
  BY MaxWritesAssumption DEF File, Valid
<1>2. Events(f) = Told(L) /\ Events(f) \in Text
  BY <1>1, ToldType DEF Events, Told
<1>3. e \in Text /\ Garbage \in Text
  BY <1>2, AppendProperties, EmptySeq DEF Text, Garbage
<1>4. Chained(Append(L, e)) /\ Told(Append(L, e)) = e
  BY <1>1, <1>2, ChainedAppend
<1>5. /\ g = [lines |-> Append(L, e), newline |-> TRUE, stamp |-> f.stamp + 1]
      /\ h = [lines |-> Append(L, Garbage), newline |-> FALSE, stamp |-> f.stamp + 1]
  BY DEF Put
<1> HIDE DEF e, g, h
<1>6. Append(L, e) \in Seq(Text) /\ Append(L, Garbage) \in Seq(Text)
  BY <1>1, <1>3, AppendProperties
<1>7. f.stamp + 1 \in 0 .. MaxWrites
  BY <1>1
<1>8. g \in File /\ h \in File
  BY <1>5, <1>6, <1>7 DEF File
<1>9. g.lines = Append(L, e) /\ g.newline /\ g.stamp = f.stamp + 1
  BY <1>5
<1>10. h.lines = Append(L, Garbage) /\ ~h.newline /\ h.stamp = f.stamp + 1
  BY <1>5
<1>11. Valid(g) /\ Events(g) = e
  BY <1>4, <1>9 DEF Valid, Events, Told
<1>12. Readable(g) = e
  BY <1>6, <1>9, <1>11, ReadableIntact
<1>13. Readable(h) = Told(L) /\ ~Valid(h)
  BY <1>1, <1>10, ReadableFragment
<1>14. Readable(f) = Events(f)
  BY <1>1, ReadableIntact
<1> QED
  BY <1>2, <1>8, <1>9, <1>10, <1>11, <1>12, <1>13, <1>14 DEF e, g, h

\* The file of no lines.
LEMMA NoLines ==
  /\ EmptyFile \in File /\ Valid(EmptyFile) /\ EmptyFile.newline
  /\ Events(EmptyFile) = <<>> /\ Readable(EmptyFile) = <<>>
<1>1. <<>> \in Seq(Text) /\ DOMAIN <<>> = {}
  BY EmptySeq
<1>2. /\ EmptyFile.lines = <<>> /\ EmptyFile.newline /\ EmptyFile \in File
  BY <1>1, MaxWritesAssumption DEF EmptyFile, File
<1>3. Valid(EmptyFile) /\ Events(EmptyFile) = <<>>
  BY <1>1, <1>2 DEF Valid, Chained, Events
<1>4. Readable(EmptyFile) = Events(EmptyFile)
  BY <1>1, <1>2, <1>3, ReadableIntact
<1> QED
  BY <1>2, <1>3, <1>4

-----------------------------------------------------------------------------
\* What holds however a write is torn and whenever it falls

\* No event of the sequence comes twice.
Once(s) == \A i, j \in DOMAIN s : s[i] = s[j] => i = j

\* The view holds the journal lock.
Locked(v) ==
  pc[v] \in {"ready", "insert"} \/ (pc[v] \in {"rebuild", "stat"} /\ goal[v] # "serve")

\* No line of the file, no index and no rows of a rebuild hold an event twice.
OnceInv ==
  /\ \A n \in DOMAIN file.lines : Once(file.lines[n])
  /\ Once(index)
  /\ \A v \in View : Once(rows[v])

RecordInv ==
  /\ TypeOK
  /\ \A v \in View : Locked(v) => want[v] \in Payload
  /\ OnceInv

LEMMA ContainsIsIn ==
  ASSUME NEW s \in Text, NEW p
  PROVE  Contains(s, p) <=> p \in ToSet(s)
<1>1. DOMAIN s = 1 .. Len(s)
  BY LenProperties DEF Text
<1> QED
  BY <1>1 DEF Contains, ToSet

\* An event that is not there is there once after it is appended.
LEMMA AppendedOnce ==
  ASSUME NEW s \in Text, NEW p \in Payload, p \notin ToSet(s), Once(s)
  PROVE  Once(Append(s, p))
<1>1. /\ Append(s, p) \in Text /\ Len(Append(s, p)) = Len(s) + 1 /\ Len(s) \in Nat
      /\ \A i \in 1 .. Len(s) : Append(s, p)[i] = s[i]
      /\ Append(s, p)[Len(s) + 1] = p
  BY AppendProperties, LenProperties DEF Text
<1>2. DOMAIN s = 1 .. Len(s) /\ DOMAIN Append(s, p) = 1 .. (Len(s) + 1)
  BY <1>1, LenProperties DEF Text
<1>3. \A i \in 1 .. Len(s) : s[i] # p
  BY <1>2 DEF ToSet
<1> QED
  BY <1>1, <1>2, <1>3 DEF Once

\* A set of numbers up to n that holds 0 has a largest member.
LEMMA LargestExists ==
  ASSUME NEW n \in Nat, NEW N \in SUBSET (0 .. n), 0 \in N
  PROVE  \E m \in N : \A k \in N : k <= m
<1> DEFINE T == {t \in Nat : n - t \in N}
<1>1. \A k \in N : k \in Int /\ n - k \in Nat /\ n - (n - k) = k
  OBVIOUS
<1>2. T \subseteq Nat /\ n \in T
  BY <1>1
<1>3. PICK x \in T : \A y \in T : ~(<<y, x>> \in OpToRel(<, Nat))
  <2> HIDE DEF T
  <2> QED
    BY <1>2, NatLessThanWellFounded, WFMin, Zenon
<1>4. ASSUME NEW k \in N
      PROVE  k <= n - x
  <2>1. n - k \in T /\ n - k \in Nat /\ x \in Nat
    BY <1>1
  <2>2. ~(n - k < x)
    <3>1. <<n - k, x>> \in Nat \X Nat
      BY <2>1
    <3>2. ~(<<n - k, x>> \in OpToRel(<, Nat))
      BY <1>3, <2>1
    <3> QED
      BY <3>1, <3>2 DEF OpToRel
  <2> QED
    BY <1>1, <2>1, <2>2
<1>5. n - x \in N
  OBVIOUS
<1> QED
  BY <1>4, <1>5

\* A reader obtains what some line of the file commits to, whatever its state.
LEMMA ReadableIsTold ==
  ASSUME NEW f, f.lines \in Seq(Text)
  PROVE  Readable(f) = <<>> \/ \E n \in DOMAIN f.lines : Readable(f) = f.lines[n]
<1>1. Len(f.lines) \in Nat /\ DOMAIN f.lines = 1 .. Len(f.lines)
  BY LenProperties
<1>2. SubSeq(f.lines, 1, 0) = <<>>
  BY SubSeqEmpty
<1>3. 0 \in IntactUpTo(f) /\ IntactUpTo(f) \in SUBSET (0 .. Len(f.lines))
  <2>1. DOMAIN <<>> = {}
    BY EmptySeq
  <2>2. Chained(SubSeq(f.lines, 1, 0))
    BY <1>2, <2>1 DEF Chained
  <2> QED
    BY <1>1, <2>2 DEF IntactUpTo
<1>4. PICK n \in IntactUpTo(f) : \A k \in IntactUpTo(f) : k <= n
  BY <1>1, <1>3, LargestExists
<1>5. Readable(f) = IF n = 0 THEN <<>> ELSE f.lines[n]
  BY <1>1, <1>4, ReadableDef
<1> QED
  BY <1>1, <1>3, <1>5

\* Nobody reads an event twice.
LEMMA RecordIsOnce ==
  ASSUME RecordInv
  PROVE  AppendOnce
<1>1. file.lines \in Seq(Text)
  BY DEF RecordInv, TypeOK, Text
<1>2. Once(<<>>)
  BY EmptySeq DEF Once
<1>3. Once(Readable(file))
  BY <1>1, <1>2, ReadableIsTold DEF RecordInv, OnceInv
<1> QED
  BY <1>3 DEF AppendOnce, Once

\* The events of the file, intact or not.
LEMMA EventsOnce ==
  ASSUME RecordInv
  PROVE  Events(file) \in Text /\ Once(Events(file))
<1>1. file.lines \in Seq(Text)
  BY DEF RecordInv, TypeOK, Text
<1>2. Events(file) \in Text
  BY <1>1, ToldType DEF Events, Told
<1>3. Once(<<>>)
  BY EmptySeq DEF Once
<1>4. file.lines # <<>> => Len(file.lines) \in DOMAIN file.lines
  BY <1>1, EmptySeq, LenProperties
<1> QED
  BY <1>2, <1>3, <1>4 DEF Events, Last, RecordInv, OnceInv

\* What a write makes of a file, whether it continues a line or glues to one.
LEMMA PutKeeps ==
  ASSUME NEW f \in File, f.stamp < MaxWrites, \A n \in DOMAIN f.lines : Once(f.lines[n]),
         NEW text \in Text, Once(text), NEW end \in BOOLEAN
  PROVE  Put(f, text, end) \in File /\ \A n \in DOMAIN Put(f, text, end).lines : Once(Put(f, text, end).lines[n])
<1> DEFINE L == f.lines
           M == IF f.newline THEN Append(L, text) ELSE [L EXCEPT ![Len(L)] = Garbage]
<1>1. L \in Seq(Text) /\ Len(L) \in Nat /\ DOMAIN L = 1 .. Len(L) /\ L \in [1 .. Len(L) -> Text]
  BY LenProperties DEF File
<1>2. Garbage \in Text /\ Once(Garbage)
  BY EmptySeq DEF Garbage, Text, Once
<1>3. M \in Seq(Text) /\ \A n \in DOMAIN M : Once(M[n])
  <2>1. CASE f.newline
    <3>1. /\ M \in Seq(Text) /\ Len(M) = Len(L) + 1 /\ M[Len(L) + 1] = text
          /\ \A n \in 1 .. Len(L) : M[n] = L[n]
      BY <1>1, <2>1, AppendProperties
    <3>2. DOMAIN M = 1 .. Len(M)
      BY <3>1, LenProperties
    <3> HIDE DEF M
    <3> QED
      BY <1>1, <3>1, <3>2
  <2>2. CASE ~f.newline
    <3>1. M = [L EXCEPT ![Len(L)] = Garbage]
      BY <2>2
    <3>2. M \in [1 .. Len(L) -> Text] /\ DOMAIN M = DOMAIN L
      BY <1>1, <1>2, <3>1
    <3>3. M \in Seq(Text)
      BY <1>1, <3>2, SeqDef
    <3>4. \A n \in DOMAIN M : M[n] = L[n] \/ M[n] = Garbage
      BY <1>1, <3>1
    <3> QED
      BY <1>2, <3>2, <3>3, <3>4
  <2> QED
    BY <2>1, <2>2
<1>4. Put(f, text, end) = [lines |-> M, newline |-> end, stamp |-> f.stamp + 1]
  BY DEF Put
<1>5. f.stamp + 1 \in 0 .. MaxWrites
  BY MaxWritesAssumption DEF File
<1> HIDE DEF M
<1> QED
  BY <1>3, <1>4, <1>5 DEF File

\* A write puts an event where it is not, or a fragment.
LEMMA WritesOnce ==
  ASSUME RecordInv, [Next]_vars, file' # file
  PROVE  /\ file.stamp < MaxWrites
         /\ \E text \in Text, end \in BOOLEAN : Once(text) /\ file' = Put(file, text, end)
<1>1. ASSUME NEW line \in Text, Once(line), file' \in Torn(line) \cup {Put(file, line, TRUE)}
      PROVE  \E text \in Text, end \in BOOLEAN : Once(text) /\ file' = Put(file, text, end)
  <2>1. Garbage \in Text /\ Once(Garbage)
    BY EmptySeq DEF Garbage, Text, Once
  <2>2. file' = Put(file, Garbage, FALSE) \/ file' = Put(file, line, FALSE) \/ file' = Put(file, line, TRUE)
    BY <1>1, Zenon DEF Torn
  <2> QED
    BY <1>1, <2>1, <2>2
<1>2. ASSUME NEW s \in Text, Once(s), NEW p \in Payload, ~Contains(s, p)
      PROVE  Append(s, p) \in Text /\ Once(Append(s, p))
  BY <1>2, ContainsIsIn, AppendedOnce, AppendProperties DEF Text
<1>3. ASSUME NEW v \in View, Write(v) \/ TornWrite(v)
      PROVE  /\ file.stamp < MaxWrites /\ pc[v] = "ready" /\ ~Contains(index, want[v])
             /\ file' \in Torn(Append(index, want[v])) \cup {Put(file, Append(index, want[v]), TRUE)}
  BY <1>3, Zenon DEF Write, TornWrite, CanWrite
<1>4. ASSUME NEW v \in View, Write(v) \/ TornWrite(v)
      PROVE  /\ file.stamp < MaxWrites
             /\ \E text \in Text, end \in BOOLEAN : Once(text) /\ file' = Put(file, text, end)
  <2>1. want[v] \in Payload /\ index \in Text /\ Once(index)
    BY <1>3, <1>4 DEF RecordInv, OnceInv, Locked, TypeOK, Text
  <2> QED
    BY <1>1, <1>2, <1>3, <1>4, <2>1
<1>5. ASSUME NEW p \in Payload, PlainAppend(p) \/ PlainAppendTorn(p)
      PROVE  /\ file.stamp < MaxWrites /\ ~Contains(Events(file), p)
             /\ file' \in Torn(Append(Events(file), p)) \cup {Put(file, Append(Events(file), p), TRUE)}
  BY <1>5, Zenon DEF PlainAppend, PlainAppendTorn, CanAppendPlainly
<1>6. ASSUME NEW p \in Payload, PlainAppend(p) \/ PlainAppendTorn(p)
      PROVE  /\ file.stamp < MaxWrites
             /\ \E text \in Text, end \in BOOLEAN : Once(text) /\ file' = Put(file, text, end)
  BY <1>1, <1>2, <1>5, <1>6, EventsOnce
<1>7. \/ \E v \in View : Write(v) \/ TornWrite(v)
      \/ \E p \in Payload : PlainAppend(p) \/ PlainAppendTorn(p)
  BY DEF Next, vars, Construct, Crash, RebuildRead, RebuildCommit, Lookup, BeginAppend,
    AlreadyRecorded, Refuse, Insert, InsertFails
<1> QED
  BY <1>4, <1>6, <1>7

\* What an action of v leaves alone of every other view.
LEMMA OtherViews ==
  ASSUME TypeOK, NEW v \in View, NEW w \in View \ {v},
         \/ Construct(v) \/ Crash(v) \/ RebuildRead(v) \/ RebuildCommit(v) \/ Lookup(v)
         \/ \E p \in Payload : BeginAppend(v, p)
         \/ AlreadyRecorded(v) \/ Refuse(v) \/ Write(v) \/ TornWrite(v)
         \/ Insert(v) \/ InsertFails(v)
  PROVE  /\ pc'[w] = pc[w] /\ goal'[w] = goal[w] /\ print'[w] = print[w]
         /\ rows'[w] = rows[w] /\ want'[w] = want[w]
         /\ flock = w => flock' = w
<1>0. /\ pc \in [View -> {"down", "idle", "rebuild", "stat", "ready", "insert"}]
      /\ goal \in [View -> {"serve", "append", "confirm"}]
      /\ print \in [View -> 0 .. Unknown]
      /\ rows \in [View -> Seq(Payload)]
      /\ want \in [View -> Payload \cup {NoPayload}]
      /\ w # NoView
  BY NoneAssumption DEF TypeOK
<1>1. CASE Construct(v) \/ Lookup(v) \/ InsertFails(v)
  BY <1>0, <1>1 DEF Construct, Lookup, InsertFails, GoRebuild
<1>2. CASE Crash(v)
  BY <1>0, <1>2 DEF Crash, Die, Release
<1>3. CASE RebuildRead(v)
  BY <1>0, <1>3 DEF RebuildRead, Die, Release
<1>4. CASE RebuildCommit(v)
  <2>1. goal[v] \in {"serve", "append", "confirm"}
    BY <1>0
  <2> QED
    BY <1>0, <1>4, <2>1 DEF RebuildCommit, Return, Release
<1>5. CASE \E p \in Payload : BeginAppend(v, p)
  BY <1>0, <1>5 DEF BeginAppend, GoRebuild
<1>6. CASE AlreadyRecorded(v) \/ Refuse(v)
  BY <1>0, <1>6 DEF AlreadyRecorded, Refuse, Return, Release
<1>7. CASE Write(v)
  BY <1>0, <1>7 DEF Write
<1>8. CASE TornWrite(v)
  BY <1>0, <1>8 DEF TornWrite, Die, Return, Release
<1>9. CASE Insert(v)
  BY <1>0, <1>9 DEF Insert, Return, Release
<1> QED
  BY <1>1, <1>2, <1>3, <1>4, <1>5, <1>6, <1>7, <1>8, <1>9

\* Every step keeps the types.
LEMMA TypeStep ==
  ASSUME RecordInv, [Next]_vars
  PROVE  TypeOK'
<1>1. file' \in [lines : Seq(Seq(Payload)), newline : BOOLEAN, stamp : 0 .. MaxWrites]
  <2>1. file \in File /\ \A n \in DOMAIN file.lines : Once(file.lines[n])
    BY DEF RecordInv, TypeOK, File, Text, OnceInv
  <2>2. CASE file' # file
    <3> PICK text \in Text, end \in BOOLEAN : Once(text) /\ file' = Put(file, text, end)
      BY <2>2, WritesOnce
    <3>1. file' \in File
      BY <2>1, <2>2, WritesOnce, PutKeeps
    <3> QED
      BY <3>1 DEF File, Text
  <2> QED
    BY <2>1, <2>2 DEF File, Text
<1>2. acked' \in SUBSET Payload
  <2>1. acked \in SUBSET Payload
    BY DEF RecordInv, TypeOK
  <2>2. ASSUME NEW v \in View, Locked(v)
        PROVE  want[v] \in Payload
    BY <2>2 DEF RecordInv
  <2>3. ASSUME NEW v \in View, AlreadyRecorded(v) \/ Insert(v)
        PROVE  acked' \in SUBSET Payload
    BY <2>1, <2>2, <2>3 DEF AlreadyRecorded, Insert, Locked
  <2>4. ASSUME NEW v \in View, RebuildCommit(v)
        PROVE  acked' \in SUBSET Payload
    <3>1. goal[v] \in {"serve", "append", "confirm"} /\ pc[v] = "stat"
      BY <2>4 DEF RecordInv, TypeOK, RebuildCommit
    <3>2. acked' = acked \/ (goal[v] = "confirm" /\ acked' = acked \cup {want[v]})
      BY <2>4, <3>1 DEF RebuildCommit
    <3>3. goal[v] = "confirm" => want[v] \in Payload
      BY <2>2, <3>1 DEF Locked
    <3> QED
      BY <2>1, <3>2, <3>3
  <2>5. ASSUME NEW p \in Payload, PlainAppend(p)
        PROVE  acked' \in SUBSET Payload
    BY <2>1, <2>5 DEF PlainAppend
  <2>6. \/ acked' = acked
        \/ \E v \in View : AlreadyRecorded(v) \/ Insert(v) \/ RebuildCommit(v)
        \/ \E p \in Payload : PlainAppend(p)
    BY DEF Next, vars, Construct, Crash, RebuildRead, Lookup, BeginAppend, Refuse, Write,
      TornWrite, InsertFails, PlainAppendTorn
  <2> QED
    BY <2>1, <2>3, <2>4, <2>5, <2>6
<1>3. /\ file.stamp \in 0 .. Unknown /\ Unknown \in 0 .. Unknown
      /\ Events(file) \in Seq(Payload)
  <2>1. file.stamp \in 0 .. MaxWrites /\ MaxWrites \in Nat
    BY MaxWritesAssumption DEF RecordInv, TypeOK
  <2> QED
    BY <2>1, EventsOnce DEF Unknown, Text
<1>4. /\ index \in Seq(Payload)
      /\ flock \in View \cup {NoView} /\ txn \in View \cup {NoView}
      /\ pc \in [View -> {"down", "idle", "rebuild", "stat", "ready", "insert"}]
      /\ goal \in [View -> {"serve", "append", "confirm"}]
      /\ print \in [View -> 0 .. Unknown]
      /\ rows \in [View -> Seq(Payload)]
      /\ want \in [View -> Payload \cup {NoPayload}]
  BY DEF RecordInv, TypeOK
<1>5. <<>> \in Seq(Payload)
  BY EmptySeq
<1>6. ASSUME NEW v \in View, Locked(v)
      PROVE  want[v] \in Payload
  BY <1>6 DEF RecordInv
<1> DEFINE T == /\ index' \in Seq(Payload)
                /\ flock' \in View \cup {NoView} /\ txn' \in View \cup {NoView}
                /\ pc' \in [View -> {"down", "idle", "rebuild", "stat", "ready", "insert"}]
                /\ goal' \in [View -> {"serve", "append", "confirm"}]
                /\ print' \in [View -> 0 .. Unknown]
                /\ rows' \in [View -> Seq(Payload)]
                /\ want' \in [View -> Payload \cup {NoPayload}]
<1>7. ASSUME NEW v \in View, Die(v), UNCHANGED index
      PROVE  T
  BY <1>3, <1>4, <1>5, <1>7 DEF Die, Release
<1>8. ASSUME NEW v \in View, Return(v), UNCHANGED <<txn, print, rows>>, UNCHANGED index
      PROVE  T
  BY <1>4, <1>8 DEF Return, Release
<1>9. ASSUME NEW v \in View, NEW why \in {"serve", "append", "confirm"}, GoRebuild(v, why),
             UNCHANGED <<index, txn, print, rows>>, flock' \in {flock, v},
             want' \in {want} \cup {[want EXCEPT ![v] = p] : p \in Payload}
      PROVE  T
  BY <1>4, <1>9 DEF GoRebuild
<1>10. ASSUME NEW v \in View,
              \/ Construct(v) \/ Crash(v) \/ RebuildRead(v) \/ RebuildCommit(v) \/ Lookup(v)
              \/ \E p \in Payload : BeginAppend(v, p)
              \/ AlreadyRecorded(v) \/ Refuse(v) \/ Write(v) \/ TornWrite(v)
              \/ Insert(v) \/ InsertFails(v)
       PROVE  T
  <2>1. CASE Construct(v) \/ Lookup(v) \/ InsertFails(v)
    BY <1>9, <2>1 DEF Construct, Lookup, InsertFails
  <2>2. CASE Crash(v)
    BY <1>7, <2>2 DEF Crash
  <2>3. CASE RebuildRead(v)
    <3>1. CASE Valid(file)
      BY <1>3, <1>4, <2>3, <3>1 DEF RebuildRead
    <3>2. CASE ~Valid(file)
      BY <1>7, <2>3, <3>2 DEF RebuildRead
    <3> QED
      BY <3>1, <3>2
  <2>4. CASE RebuildCommit(v)
    <3>1. goal[v] \in {"serve", "append", "confirm"}
      BY <1>4
    <3> QED
      BY <1>3, <1>4, <1>5, <2>4, <3>1 DEF RebuildCommit, Return, Release
  <2>5. CASE \E p \in Payload : BeginAppend(v, p)
    <3> PICK p \in Payload : BeginAppend(v, p)
      BY <2>5
    <3> QED
      BY <1>4 DEF BeginAppend, GoRebuild
  <2>6. CASE AlreadyRecorded(v) \/ Refuse(v)
    BY <1>8, <2>6 DEF AlreadyRecorded, Refuse
  <2>7. CASE Write(v)
    BY <1>4, <2>7 DEF Write
  <2>8. CASE TornWrite(v)
    BY <1>7, <1>8, <2>8 DEF TornWrite
  <2>9. CASE Insert(v)
    <3>1. want[v] \in Payload
      BY <1>6, <2>9 DEF Insert, Locked
    <3>2. index' \in Seq(Payload)
      BY <1>4, <2>9, <3>1, AppendProperties DEF Insert
    <3> QED
      BY <1>3, <1>4, <2>9, <3>2 DEF Insert, Return, Release
  <2> QED
    BY <1>10, <2>1, <2>2, <2>3, <2>4, <2>5, <2>6, <2>7, <2>8, <2>9
<1>11. T
  <2>1. CASE \E p \in Payload : PlainAppend(p) \/ PlainAppendTorn(p)
    BY <1>4, <2>1 DEF PlainAppend, PlainAppendTorn
  <2>2. CASE UNCHANGED vars
    BY <1>4, <2>2 DEF vars
  <2> QED
    BY <1>10, <2>1, <2>2 DEF Next
<1> QED
  BY <1>1, <1>2, <1>11 DEF TypeOK

\* Who holds the journal lock has an event to append, before and after a step.
LEMMA WantStep ==
  ASSUME RecordInv, NEW v \in View,
         \/ Construct(v) \/ Crash(v) \/ RebuildRead(v) \/ RebuildCommit(v) \/ Lookup(v)
         \/ \E p \in Payload : BeginAppend(v, p)
         \/ AlreadyRecorded(v) \/ Refuse(v) \/ Write(v) \/ TornWrite(v)
         \/ Insert(v) \/ InsertFails(v)
  PROVE  \A w \in View : Locked(w)' => want'[w] \in Payload
<1>0. /\ pc \in [View -> {"down", "idle", "rebuild", "stat", "ready", "insert"}]
      /\ goal \in [View -> {"serve", "append", "confirm"}]
      /\ want \in [View -> Payload \cup {NoPayload}]
  BY DEF RecordInv, TypeOK
<1>1. \A w \in View : Locked(w) => want[w] \in Payload
  BY DEF RecordInv
<1>2. ASSUME NEW w \in View \ {v}
      PROVE  Locked(w)' => want'[w] \in Payload
  <2>1. pc'[w] = pc[w] /\ goal'[w] = goal[w] /\ want'[w] = want[w]
    BY OtherViews DEF RecordInv
  <2> QED
    BY <1>1, <2>1 DEF Locked
<1>3. Locked(v)' => want'[v] \in Payload
  <2>1. CASE Construct(v) \/ Lookup(v)
    BY <1>0, <2>1 DEF Construct, Lookup, GoRebuild, Locked
  <2>2. CASE InsertFails(v)
    BY <1>0, <1>1, <2>2 DEF InsertFails, GoRebuild, Locked
  <2>3. CASE Crash(v)
    BY <1>0, <2>3 DEF Crash, Die, Locked
  <2>4. CASE RebuildRead(v)
    BY <1>0, <1>1, <2>4 DEF RebuildRead, Die, Locked
  <2>5. CASE RebuildCommit(v)
    <3>1. goal[v] \in {"serve", "append", "confirm"}
      BY <1>0
    <3> QED
      BY <1>0, <1>1, <2>5, <3>1 DEF RebuildCommit, Return, Locked
  <2>6. CASE \E p \in Payload : BeginAppend(v, p)
    <3> PICK p \in Payload : BeginAppend(v, p)
      BY <2>6
    <3> QED
      BY <1>0 DEF BeginAppend
  <2>7. CASE AlreadyRecorded(v) \/ Refuse(v) \/ Insert(v)
    BY <1>0, <2>7 DEF AlreadyRecorded, Refuse, Insert, Return, Locked
  <2>8. CASE Write(v)
    BY <1>0, <1>1, <2>8 DEF Write, CanWrite, Locked
  <2>9. CASE TornWrite(v)
    BY <1>0, <2>9 DEF TornWrite, Die, Return, Locked
  <2> QED
    BY <2>1, <2>2, <2>3, <2>4, <2>5, <2>6, <2>7, <2>8, <2>9
<1> QED
  BY <1>2, <1>3

\* No index and no rows of a rebuild get an event twice.
LEMMA RowsStep ==
  ASSUME RecordInv, NEW v \in View,
         \/ Construct(v) \/ Crash(v) \/ RebuildRead(v) \/ RebuildCommit(v) \/ Lookup(v)
         \/ \E p \in Payload : BeginAppend(v, p)
         \/ AlreadyRecorded(v) \/ Refuse(v) \/ Write(v) \/ TornWrite(v)
         \/ Insert(v) \/ InsertFails(v)
  PROVE  Once(index') /\ \A w \in View : Once(rows'[w])
<1>0. /\ index \in Text /\ Once(index) /\ rows \in [View -> Seq(Payload)]
      /\ \A w \in View : Once(rows[w])
  BY DEF RecordInv, TypeOK, OnceInv, Text
<1>1. Once(<<>>) /\ Once(Events(file))
  BY EmptySeq, EventsOnce DEF Once
<1>2. CASE \/ Construct(v) \/ Lookup(v) \/ InsertFails(v) \/ AlreadyRecorded(v) \/ Refuse(v) \/ Write(v)
           \/ \E p \in Payload : BeginAppend(v, p)
  BY <1>0, <1>2 DEF Construct, Lookup, InsertFails, AlreadyRecorded, Refuse, Write, BeginAppend
<1>3. CASE Crash(v) \/ TornWrite(v)
  BY <1>0, <1>1, <1>3 DEF Crash, TornWrite, Die
<1>4. CASE RebuildRead(v)
  BY <1>0, <1>1, <1>4 DEF RebuildRead, Die
<1>5. CASE RebuildCommit(v)
  BY <1>0, <1>1, <1>5 DEF RebuildCommit
<1>6. CASE Insert(v)
  <2>1. want[v] \in Payload /\ ~Contains(index, want[v])
    BY <1>6 DEF Insert, RecordInv, Locked
  <2>2. Once(Append(index, want[v]))
    BY <1>0, <2>1, ContainsIsIn, AppendedOnce
  <2> QED
    BY <1>0, <1>6, <2>2 DEF Insert
<1> QED
  BY <1>2, <1>3, <1>4, <1>5, <1>6

\* Every step keeps the record.
LEMMA RecordStep ==
  ASSUME RecordInv, [Next]_vars
  PROVE  RecordInv'
<1>1. \A n \in DOMAIN file'.lines : Once(file'.lines[n])
  <2>1. file \in File /\ \A n \in DOMAIN file.lines : Once(file.lines[n])
    BY DEF RecordInv, TypeOK, File, Text, OnceInv
  <2>2. CASE file' # file
    <3> PICK text \in Text, end \in BOOLEAN : Once(text) /\ file' = Put(file, text, end)
      BY <2>2, WritesOnce
    <3> QED
      BY <2>1, <2>2, WritesOnce, PutKeeps
  <2> QED
    BY <2>1, <2>2
<1>2. /\ \A w \in View : Locked(w)' => want'[w] \in Payload
      /\ Once(index') /\ \A w \in View : Once(rows'[w])
  <2>1. CASE \/ \E p \in Payload : PlainAppend(p) \/ PlainAppendTorn(p)
             \/ UNCHANGED vars
    BY <2>1 DEF PlainAppend, PlainAppendTorn, vars, RecordInv, OnceInv, Locked
  <2>2. ASSUME NEW v \in View,
             \/ Construct(v) \/ Crash(v) \/ RebuildRead(v) \/ RebuildCommit(v) \/ Lookup(v)
             \/ \E p \in Payload : BeginAppend(v, p)
             \/ AlreadyRecorded(v) \/ Refuse(v) \/ Write(v) \/ TornWrite(v)
             \/ Insert(v) \/ InsertFails(v)
        PROVE  /\ \A w \in View : Locked(w)' => want'[w] \in Payload
               /\ Once(index') /\ \A w \in View : Once(rows'[w])
    BY <2>2, WantStep, RowsStep
  <2> QED
    BY <2>1, <2>2 DEF Next
<1> QED
  BY <1>1, <1>2, TypeStep DEF RecordInv, OnceInv

\* The record holds of an empty file and views that are down.
LEMMA RecordInit ==
  Init => RecordInv
<1> SUFFICES ASSUME Init PROVE RecordInv
  OBVIOUS
<1>1. file = EmptyFile /\ file \in File /\ file.lines = <<>>
  BY NoLines DEF Init, EmptyFile
<1>2. <<>> \in Text /\ DOMAIN <<>> = {} /\ <<>> \in Seq(Payload)
  BY EmptySeq DEF Text
<1>3. Unknown \in 0 .. Unknown
  BY MaxWritesAssumption DEF Unknown
<1>4. TypeOK
  BY <1>1, <1>2, <1>3 DEF Init, TypeOK, File, Text
<1>5. OnceInv
  BY <1>1, <1>2 DEF Init, OnceInv, Once
<1>6. \A v \in View : ~Locked(v)
  BY DEF Init, Locked
<1> QED
  BY <1>4, <1>5, <1>6 DEF RecordInv

\* The record is kept, whatever the tears and the racing writes.
THEOREM RecordInvariant == Spec => []RecordInv
  BY RecordInit, RecordStep, PTL DEF Spec

-----------------------------------------------------------------------------
\* The inductive invariant

\* The view has written a line that it has not reported.
Written(v) ==
  pc[v] = "insert" \/ (pc[v] \in {"rebuild", "stat"} /\ goal[v] = "confirm")

\* What a view believes is true of the file, as long as it may act on it.
ViewInv(v) ==
  /\ Locked(v) => flock = v
  /\ pc[v] = "stat" => txn = v /\ Valid(file) /\ rows[v] = Events(file)
  /\ pc[v] = "ready" => print[v] = file.stamp
  /\ pc[v] \in {"idle", "ready"} /\ print[v] = file.stamp => Valid(file) /\ index = Events(file)
  /\ Written(v) => Valid(file) /\ want[v] \in ToSet(Events(file))
  /\ pc[v] = "insert" => index = Events(file) \/ Append(index, want[v]) = Events(file)
  /\ print[v] = Unknown \/ print[v] <= file.stamp

IInv ==
  /\ RecordInv
  /\ Valid(file) <=> file.newline
  /\ Readable(file) \in Text
  /\ AckedDurable
  /\ \A v \in View : ViewInv(v)

\* The events of the file.
LEMMA EventFacts ==
  ASSUME IInv
  PROVE  /\ file \in File /\ file.stamp \in Nat /\ MaxWrites \in Nat
         /\ Unknown \in Nat /\ \A n \in 0 .. MaxWrites : n < Unknown
         /\ Valid(file) => Readable(file) = Events(file) /\ Events(file) \in Text
<1>1. file \in File
  BY DEF IInv, RecordInv, TypeOK, File, Text
<1>2. file.stamp \in 0 .. MaxWrites /\ MaxWrites \in Nat /\ file.lines \in Seq(Text)
  BY <1>1, MaxWritesAssumption DEF File
<1>3. Unknown \in Nat /\ \A n \in 0 .. MaxWrites : n < Unknown
  BY <1>2 DEF Unknown
<1>4. Valid(file) => Readable(file) = Events(file)
  BY <1>2, ReadableIntact
<1>5. Events(file) \in Text
  BY <1>2, ToldType DEF Events, Told
<1> QED
  BY <1>1, <1>2, <1>3, <1>4, <1>5

LEMMA AppendedSet ==
  ASSUME NEW s \in Text, NEW p \in Payload
  PROVE  ToSet(Append(s, p)) = ToSet(s) \cup {p}
<1>1. /\ Append(s, p) \in Text /\ Len(Append(s, p)) = Len(s) + 1 /\ Len(s) \in Nat
      /\ \A i \in 1 .. Len(s) : Append(s, p)[i] = s[i]
      /\ Append(s, p)[Len(s) + 1] = p
  BY AppendProperties, LenProperties DEF Text
<1>2. DOMAIN s = 1 .. Len(s) /\ DOMAIN Append(s, p) = 1 .. (Len(s) + 1)
  BY <1>1, LenProperties DEF Text
<1> QED
  BY <1>1, <1>2 DEF ToSet

\* A view that is about to write has looked at the events as they are.
LEMMA ReadyFacts ==
  ASSUME IInv, NEW v \in View, pc[v] = "ready"
  PROVE  /\ Valid(file) /\ file.newline /\ index = Events(file) /\ index \in Text
         /\ want[v] \in Payload /\ flock = v
         /\ Contains(index, want[v]) <=> want[v] \in ToSet(Events(file))
<1>1. ViewInv(v)
  BY DEF IInv
<1>2. Valid(file) /\ index = Events(file) /\ want[v] \in Payload /\ flock = v
  BY <1>1 DEF ViewInv, Locked, IInv, RecordInv
<1>3. index \in Text
  BY DEF IInv, RecordInv, TypeOK, Text
<1> QED
  BY <1>2, <1>3, ContainsIsIn DEF IInv

\* The file only changes by an event or a fragment at its end, while nobody
\* has rows of a rebuild at hand.
LEMMA FileSteps ==
  ASSUME Protected, IInv, [Next]_vars, file' # file
  PROVE  /\ Valid(file) /\ file.newline /\ file.stamp < MaxWrites
         /\ \A v \in View : pc[v] # "stat"
         /\ \E p \in Payload :
              /\ p \notin ToSet(Events(file))
              /\ \/ file' = Put(file, Append(Events(file), p), TRUE)
                 \/ file' = Put(file, Garbage, FALSE)
<1>1. ASSUME NEW v \in View, Write(v) \/ TornWrite(v)
      PROVE  /\ pc[v] = "ready" /\ ~Contains(index, want[v]) /\ file.stamp < MaxWrites
             /\ Undisturbed
             /\ \/ file' = Put(file, Append(index, want[v]), TRUE)
                \/ file' = Put(file, Garbage, FALSE)
  BY <1>1, Zenon DEF Write, TornWrite, CanWrite, Torn, Protected
<1>2. ASSUME NEW p \in Payload, PlainAppend(p) \/ PlainAppendTorn(p)
      PROVE  /\ flock = NoView /\ Undisturbed /\ Valid(file) /\ ~Contains(Events(file), p)
             /\ file.stamp < MaxWrites
             /\ \/ file' = Put(file, Append(Events(file), p), TRUE)
                \/ file' = Put(file, Garbage, FALSE)
  BY <1>2, Zenon DEF PlainAppend, PlainAppendTorn, CanAppendPlainly, Torn, Protected
<1>3. \/ \E v \in View : Write(v) \/ TornWrite(v)
      \/ \E p \in Payload : PlainAppend(p) \/ PlainAppendTorn(p)
  BY DEF Next, vars, Construct, Crash, RebuildRead, RebuildCommit, Lookup, BeginAppend,
    AlreadyRecorded, Refuse, Insert, InsertFails
<1>4. ASSUME Undisturbed, NEW v \in View, pc[v] = "stat"
      PROVE  flock = v
  BY <1>4 DEF Undisturbed, Protected
<1>5. CASE \E v \in View : Write(v) \/ TornWrite(v)
  <2> PICK v \in View : Write(v) \/ TornWrite(v)
    BY <1>5
  <2>1. /\ pc[v] = "ready" /\ ~Contains(index, want[v]) /\ file.stamp < MaxWrites
        /\ Undisturbed
        /\ \/ file' = Put(file, Append(index, want[v]), TRUE)
           \/ file' = Put(file, Garbage, FALSE)
    BY <1>1
  <2>2. /\ Valid(file) /\ file.newline /\ index = Events(file)
        /\ want[v] \in Payload /\ flock = v /\ want[v] \notin ToSet(Events(file))
    BY <2>1, ReadyFacts
  <2>3. \A w \in View : pc[w] # "stat"
    BY <1>4, <2>1, <2>2
  <2> QED
    BY <2>1, <2>2, <2>3
<1>6. CASE \E p \in Payload : PlainAppend(p) \/ PlainAppendTorn(p)
  <2> PICK p \in Payload : PlainAppend(p) \/ PlainAppendTorn(p)
    BY <1>6
  <2>1. /\ flock = NoView /\ Undisturbed /\ Valid(file) /\ ~Contains(Events(file), p)
        /\ file.stamp < MaxWrites
        /\ \/ file' = Put(file, Append(Events(file), p), TRUE)
           \/ file' = Put(file, Garbage, FALSE)
    BY <1>2
  <2>2. file.newline /\ p \notin ToSet(Events(file))
    BY <2>1, EventFacts, ContainsIsIn DEF IInv
  <2>3. \A w \in View : pc[w] # "stat"
    BY <1>4, <2>1, NoneAssumption
  <2> QED
    BY <2>1, <2>2, <2>3
<1> QED
  BY <1>3, <1>5, <1>6

\* What becomes of the file in a step, and of what a reader obtains.
LEMMA FileFacts ==
  ASSUME Protected, IInv, [Next]_vars
  PROVE  /\ file' \in File /\ (Valid(file') <=> file'.newline)
         /\ file' # file =>
              /\ Valid(file) /\ file.newline /\ file'.stamp = file.stamp + 1
              /\ \A v \in View : pc[v] # "stat"
              /\ \E text \in Text : file'.lines = Append(file.lines, text)
         /\ \/ Readable(file') = Readable(file)
            \/ \E p \in Payload :
                 /\ p \notin ToSet(Readable(file))
                 /\ Readable(file') = Append(Readable(file), p)
<1>1. file \in File /\ (Valid(file) <=> file.newline)
  BY EventFacts DEF IInv
<1>2. CASE file' = file
  BY <1>1, <1>2
<1>3. CASE file' # file
  <2>1. /\ Valid(file) /\ file.newline /\ file.stamp < MaxWrites
        /\ \A v \in View : pc[v] # "stat"
    BY <1>3, FileSteps
  <2> PICK p \in Payload :
        /\ p \notin ToSet(Events(file))
        /\ \/ file' = Put(file, Append(Events(file), p), TRUE)
           \/ file' = Put(file, Garbage, FALSE)
    BY <1>3, FileSteps
  <2> DEFINE e == Append(Events(file), p)
             g == Put(file, e, TRUE)
             h == Put(file, Garbage, FALSE)
  <2>2. /\ g \in File /\ Valid(g) /\ g.newline /\ g.stamp = file.stamp + 1
        /\ Readable(g) = e /\ g.lines = Append(file.lines, e)
        /\ h \in File /\ ~Valid(h) /\ ~h.newline /\ h.stamp = file.stamp + 1
        /\ Readable(h) = Events(file) /\ h.lines = Append(file.lines, Garbage)
        /\ Readable(file) = Events(file) /\ Events(file) \in Text
    BY <1>1, <2>1, PutFacts
  <2>3. e \in Text /\ Garbage \in Text
    BY <2>2, AppendProperties, EmptySeq DEF Text, Garbage
  <2>4. file' = g \/ file' = h
    OBVIOUS
  <2>5. Readable(file) = Events(file) /\ p \notin ToSet(Readable(file)) /\ e = Append(Readable(file), p)
    BY <2>2
  <2> HIDE DEF e, g, h
  <2> QED
    BY <2>1, <2>2, <2>3, <2>4, <2>5
<1> QED
  BY <1>2, <1>3

\* What a reader obtains keeps its events.
LEMMA ReaderStep ==
  ASSUME Protected, IInv, [Next]_vars
  PROVE  /\ Readable(file) \in Text /\ ToSet(Readable(file)) \subseteq ToSet(Readable(file'))
         /\ Readable(file') \in Text
<1>1. Readable(file) \in Text
  BY DEF IInv
<1>2. CASE Readable(file') = Readable(file)
  BY <1>1, <1>2
<1>3. CASE \E p \in Payload :
             /\ p \notin ToSet(Readable(file))
             /\ Readable(file') = Append(Readable(file), p)
  <2> PICK p \in Payload : /\ p \notin ToSet(Readable(file))
                           /\ Readable(file') = Append(Readable(file), p)
    BY <1>3
  <2>1. ToSet(Readable(file')) = ToSet(Readable(file)) \cup {p}
    BY <1>1, AppendedSet
  <2>2. Readable(file') \in Text
    BY <1>1, AppendProperties DEF Text
  <2> QED
    BY <1>1, <2>1, <2>2
<1> QED
  BY <1>2, <1>3, FileFacts

\* What is reported can be read.
LEMMA ReportedFacts ==
  ASSUME Protected, IInv, [Next]_vars
  PROVE  \/ acked' = acked
         \/ \E p \in Payload :
              /\ acked' = acked \cup {p}
              /\ p \in ToSet(Readable(file'))
              /\ p \in ToSet(Readable(file)) => UNCHANGED file
<1>1. ASSUME NEW v \in View, ViewInv(v), AlreadyRecorded(v)
      PROVE  /\ want[v] \in Payload /\ want[v] \in ToSet(Events(file)) /\ Valid(file)
             /\ UNCHANGED file /\ acked' = acked \cup {want[v]}
  BY <1>1, ReadyFacts DEF AlreadyRecorded
<1>2. ASSUME NEW v \in View, ViewInv(v), Insert(v)
      PROVE  /\ want[v] \in Payload /\ want[v] \in ToSet(Events(file)) /\ Valid(file)
             /\ UNCHANGED file /\ acked' = acked \cup {want[v]}
  BY <1>2 DEF Insert, ViewInv, Locked, Written, IInv, RecordInv
<1>3. ASSUME NEW v \in View, ViewInv(v), RebuildCommit(v), acked' # acked
      PROVE  /\ want[v] \in Payload /\ want[v] \in ToSet(Events(file)) /\ Valid(file)
             /\ UNCHANGED file /\ acked' = acked \cup {want[v]}
  <2>1. goal[v] \in {"serve", "append", "confirm"} /\ pc[v] = "stat"
    BY <1>3 DEF IInv, RecordInv, TypeOK, RebuildCommit
  <2>2. goal[v] = "confirm" /\ acked' = acked \cup {want[v]}
    BY <1>3, <2>1 DEF RebuildCommit
  <2> QED
    BY <1>3, <2>1, <2>2 DEF ViewInv, Locked, Written, RebuildCommit, IInv, RecordInv
<1>4. ASSUME NEW p \in Payload, PlainAppend(p), acked' # acked
      PROVE  acked' = acked \cup {p} /\ p \in ToSet(Readable(file')) /\ p \notin ToSet(Readable(file))
  <2>1. /\ Valid(file) /\ ~Contains(Events(file), p) /\ file.stamp < MaxWrites
        /\ file' = Put(file, Append(Events(file), p), TRUE)
    BY <1>4 DEF PlainAppend, CanAppendPlainly
  <2>2. acked' = acked \cup {p}
    BY <1>4 DEF PlainAppend
  <2>3. file.newline /\ file \in File
    BY <2>1, EventFacts DEF IInv
  <2>4. /\ Readable(file') = Append(Events(file), p)
        /\ Readable(file) = Events(file) /\ Events(file) \in Text
    BY <2>1, <2>3, PutFacts
  <2>5. p \in ToSet(Append(Events(file), p))
    BY <2>4, AppendedSet
  <2>6. p \notin ToSet(Events(file))
    BY <2>1, <2>4, ContainsIsIn
  <2> QED
    BY <2>2, <2>4, <2>5, <2>6
<1>5. ASSUME NEW v \in View,
             /\ want[v] \in Payload /\ want[v] \in ToSet(Events(file)) /\ Valid(file)
             /\ UNCHANGED file /\ acked' = acked \cup {want[v]}
      PROVE  \E p \in Payload :
              /\ acked' = acked \cup {p}
              /\ p \in ToSet(Readable(file'))
              /\ p \in ToSet(Readable(file)) => UNCHANGED file
  BY <1>5, EventFacts
<1>6. \/ acked' = acked
      \/ \E v \in View : AlreadyRecorded(v) \/ Insert(v) \/ RebuildCommit(v)
      \/ \E p \in Payload : PlainAppend(p)
  BY DEF Next, vars, Construct, Crash, RebuildRead, Lookup, BeginAppend, Refuse, Write,
    TornWrite, InsertFails, PlainAppendTorn
<1>7. \A v \in View : ViewInv(v)
  BY DEF IInv
<1> QED
  BY <1>1, <1>2, <1>3, <1>4, <1>5, <1>6, <1>7

\* What was reported stays readable.
LEMMA AckedStep ==
  ASSUME Protected, IInv, [Next]_vars
  PROVE  AckedDurable'
<1>1. acked \subseteq ToSet(Readable(file))
  BY DEF IInv, AckedDurable
<1>2. acked \subseteq ToSet(Readable(file'))
  BY <1>1, ReaderStep
<1>3. acked' \subseteq ToSet(Readable(file'))
  BY <1>2, ReportedFacts
<1> QED
  BY <1>3 DEF AckedDurable

\* A view that waits without the lock while the file changes.
LEMMA Bystander ==
  ASSUME Protected, IInv, [Next]_vars, file' # file, NEW w \in View,
         pc'[w] \in {"down", "idle"} \/ (pc'[w] = "rebuild" /\ goal'[w] = "serve"),
         print'[w] = print[w] \/ print'[w] = Unknown
  PROVE  ViewInv(w)'
<1>1. file'.stamp = file.stamp + 1 /\ file' \in File /\ file.stamp \in Nat
  BY FileFacts, EventFacts
<1>2. file'.stamp \in Nat /\ file'.stamp < Unknown /\ Unknown' = Unknown
  BY <1>1, EventFacts DEF File, Unknown
<1>3. print[w] \in Nat /\ (print[w] = Unknown \/ print[w] <= file.stamp)
  <2>1. print[w] \in 0 .. Unknown
    BY DEF IInv, RecordInv, TypeOK
  <2>2. Unknown \in Nat
    BY EventFacts
  <2> QED
    BY <2>1, <2>2 DEF IInv, ViewInv
<1>4. print'[w] # file'.stamp /\ (print'[w] = Unknown \/ print'[w] <= file'.stamp)
  BY <1>1, <1>2, <1>3
<1> HIDE DEF Unknown
<1>5. ~Locked(w)' /\ ~Written(w)'
  BY DEF Locked, Written
<1>6. pc'[w] \notin {"stat", "ready", "insert"}
  OBVIOUS
<1> QED
  BY <1>2, <1>4, <1>5, <1>6 DEF ViewInv

\* A view that does nothing while the file stays as it is.
LEMMA Idler ==
  ASSUME IInv, UNCHANGED file, NEW w \in View,
         index' = index \/ (Valid(file) /\ index' = Events(file)),
         pc'[w] = pc[w], goal'[w] = goal[w], print'[w] = print[w], rows'[w] = rows[w],
         want'[w] = want[w],
         flock = w => flock' = w, pc[w] = "stat" /\ txn = w => txn' = w
  PROVE  ViewInv(w)'
<1>1. ViewInv(w)
  BY DEF IInv
<1>2. Locked(w)' = Locked(w) /\ Written(w)' = Written(w)
  BY DEF Locked, Written
<1> QED
  BY <1>1, <1>2 DEF ViewInv, Unknown

\* A view that goes down or back to serving, while the file and the index stay.
LEMMA Resting ==
  ASSUME IInv, UNCHANGED <<file, index>>, NEW v \in View,
         \/ pc'[v] = "down" \/ (pc'[v] = "rebuild" /\ goal'[v] = "serve")
         \/ pc'[v] = "idle" /\ pc[v] = "ready",
         print'[v] = print[v] \/ print'[v] = Unknown
  PROVE  ViewInv(v)'
<1>1. ViewInv(v)
  BY DEF IInv
<1>2. ~Locked(v)' /\ ~Written(v)' /\ Unknown' = Unknown
  BY DEF Locked, Written, Unknown
<1>3. Unknown # file.stamp
  <2>1. file.stamp \in 0 .. MaxWrites
    BY EventFacts DEF File
  <2> QED
    BY <2>1, EventFacts
<1>4. print'[v] = file.stamp => print[v] = file.stamp
  BY <1>3
<1> HIDE DEF Unknown
<1> QED
  BY <1>1, <1>2, <1>4 DEF ViewInv

\* What the acting view believes afterwards.
LEMMA ActingView ==
  ASSUME Protected, IInv, [Next]_vars, NEW v \in View,
         \/ Construct(v) \/ Crash(v) \/ RebuildRead(v) \/ RebuildCommit(v) \/ Lookup(v)
         \/ \E p \in Payload : BeginAppend(v, p)
         \/ AlreadyRecorded(v) \/ Refuse(v) \/ Write(v) \/ TornWrite(v)
         \/ Insert(v) \/ InsertFails(v)
  PROVE  ViewInv(v)'
<1>0. /\ pc \in [View -> {"down", "idle", "rebuild", "stat", "ready", "insert"}]
      /\ goal \in [View -> {"serve", "append", "confirm"}]
      /\ print \in [View -> 0 .. Unknown]
      /\ rows \in [View -> Seq(Payload)]
      /\ want \in [View -> Payload \cup {NoPayload}]
      /\ ViewInv(v) /\ Unknown' = Unknown
      /\ file.stamp \in Nat /\ file.stamp <= file.stamp
  BY EventFacts DEF IInv, RecordInv, TypeOK, Unknown
<1> HIDE DEF Unknown
<1>1. CASE Construct(v) \/ Lookup(v)
  <2>1. pc'[v] = "rebuild" /\ goal'[v] = "serve" /\ print' = print /\ UNCHANGED <<file, index>>
    BY <1>0, <1>1 DEF Construct, Lookup, GoRebuild
  <2> QED
    BY <2>1, Resting
<1>2. CASE Crash(v)
  <2>1. pc'[v] = "down" /\ print'[v] = Unknown /\ UNCHANGED <<file, index>>
    BY <1>0, <1>2 DEF Crash, Die
  <2> QED
    BY <2>1, Resting
<1>3. CASE RebuildRead(v)
  <2>1. CASE ~Valid(file)
    <3>1. pc'[v] = "down" /\ print'[v] = Unknown /\ UNCHANGED <<file, index>>
      BY <1>0, <1>3, <2>1 DEF RebuildRead, Die
    <3> QED
      BY <3>1, Resting
  <2>2. CASE Valid(file)
    <3>1. /\ pc[v] = "rebuild" /\ pc'[v] = "stat" /\ rows'[v] = Events(file) /\ txn' = v
          /\ UNCHANGED <<file, index, flock, goal, print, want>>
      BY <1>0, <1>3, <2>2 DEF RebuildRead
    <3>2. Locked(v)' = Locked(v) /\ Written(v)' = Written(v)
      BY <3>1 DEF Locked, Written
    <3> QED
      BY <1>0, <2>2, <3>1, <3>2 DEF ViewInv
  <2> QED
    BY <2>1, <2>2
<1>4. CASE RebuildCommit(v)
  <2>1. /\ pc[v] = "stat" /\ UNCHANGED file /\ index' = Events(file) /\ Valid(file)
        /\ print'[v] = file.stamp /\ txn' = NoView
        /\ goal[v] # "serve" => flock = v /\ want[v] \in Payload
    BY <1>0, <1>4 DEF RebuildCommit, ViewInv, Locked, IInv, RecordInv
  <2>2. CASE goal[v] = "append"
    <3>1. pc'[v] = "ready" /\ UNCHANGED <<flock, want>>
      BY <1>0, <1>4, <2>2 DEF RebuildCommit
    <3>2. ~Written(v)'
      BY <3>1 DEF Written
    <3> QED
      BY <1>0, <2>1, <2>2, <3>1, <3>2 DEF ViewInv
  <2>3. CASE goal[v] # "append"
    <3>1. pc'[v] = "idle"
      BY <1>0, <1>4, <2>3 DEF RebuildCommit, Return
    <3>2. ~Locked(v)' /\ ~Written(v)'
      BY <3>1 DEF Locked, Written
    <3> QED
      BY <1>0, <2>1, <3>1, <3>2 DEF ViewInv
  <2> QED
    BY <2>2, <2>3
<1>5. CASE \E p \in Payload : BeginAppend(v, p)
  <2> PICK p \in Payload : BeginAppend(v, p)
    BY <1>5
  <2>1. /\ pc[v] = "idle" /\ flock' = v /\ want'[v] = p
        /\ UNCHANGED <<file, index, txn, print, rows>>
    BY <1>0 DEF BeginAppend
  <2>2. \/ pc'[v] = "ready" /\ print[v] = file.stamp
        \/ pc'[v] = "rebuild" /\ goal'[v] = "append"
    BY <1>0 DEF BeginAppend, GoRebuild
  <2>3. ~Written(v)'
    BY <2>2 DEF Written
  <2> QED
    BY <1>0, <2>1, <2>2, <2>3 DEF ViewInv
<1>6. CASE AlreadyRecorded(v) \/ Refuse(v)
  <2>1. pc[v] = "ready" /\ pc'[v] = "idle" /\ print' = print /\ UNCHANGED <<file, index>>
    BY <1>0, <1>6 DEF AlreadyRecorded, Refuse, Return
  <2> QED
    BY <2>1, Resting
<1>7. CASE Write(v)
  <2>1. /\ pc[v] = "ready" /\ pc'[v] = "insert" /\ UNCHANGED <<index, flock, want, print>>
        /\ file' = Put(file, Append(index, want[v]), TRUE) /\ file.stamp < MaxWrites
    BY <1>0, <1>7 DEF Write, CanWrite
  <2>2. /\ Valid(file) /\ file.newline /\ index = Events(file) /\ index \in Text
        /\ want[v] \in Payload /\ flock = v
    BY <2>1, ReadyFacts
  <2>3. file \in File
    BY EventFacts
  <2>4. Valid(file') /\ Events(file') = Append(index, want[v]) /\ file'.stamp = file.stamp + 1
    BY <2>1, <2>2, <2>3, PutFacts
  <2>5. want[v] \in ToSet(Append(index, want[v]))
    BY <2>2, AppendedSet
  <2>6. print[v] = file.stamp /\ file.stamp <= file.stamp + 1
    BY <1>0, <2>1 DEF ViewInv
  <2> QED
    BY <1>0, <2>1, <2>2, <2>4, <2>5, <2>6 DEF ViewInv
<1>8. CASE TornWrite(v)
  <2>1. /\ file' # file /\ pc'[v] \in {"down", "idle"}
        /\ print'[v] = print[v] \/ print'[v] = Unknown
    <3>1. pc[v] = "ready" /\ file' = Put(file, Garbage, FALSE)
      BY <1>8, Zenon DEF TornWrite, CanWrite, Torn, Protected
    <3>2. file'.stamp = file.stamp + 1
      BY <3>1 DEF Put
    <3>3. file' # file
      BY <1>0, <3>2
    <3> QED
      BY <1>0, <1>8, <3>3 DEF TornWrite, Die, Return
  <2> QED
    BY <2>1, Bystander
<1>9. CASE Insert(v)
  <2>1. /\ pc[v] = "insert" /\ pc'[v] = "idle" /\ print'[v] = file.stamp /\ UNCHANGED file
        /\ ~Contains(index, want[v]) /\ index' = Append(index, want[v])
    BY <1>0, <1>9 DEF Insert, Return
  <2>2. index' = Events(file) /\ Valid(file)
    <3>1. /\ Valid(file) /\ want[v] \in ToSet(Events(file))
          /\ index = Events(file) \/ Append(index, want[v]) = Events(file)
      BY <1>0, <2>1 DEF ViewInv, Written
    <3>2. index \in Text
      BY DEF IInv, RecordInv, TypeOK, Text
    <3>3. index # Events(file)
      BY <2>1, <3>1, <3>2, ContainsIsIn
    <3> QED
      BY <2>1, <3>1, <3>3
  <2>3. ~Locked(v)' /\ ~Written(v)'
    BY <2>1 DEF Locked, Written
  <2> QED
    BY <1>0, <2>1, <2>2, <2>3 DEF ViewInv
<1>10. CASE InsertFails(v)
  <2>1. /\ pc[v] = "insert" /\ pc'[v] = "rebuild" /\ goal'[v] = "confirm"
        /\ UNCHANGED <<file, index, flock, txn, print, rows, want>>
    BY <1>0, <1>10 DEF InsertFails, GoRebuild
  <2>2. Locked(v) /\ Written(v)
    BY <2>1 DEF Locked, Written
  <2> QED
    BY <1>0, <2>1, <2>2 DEF ViewInv
<1> QED
  BY <1>1, <1>2, <1>3, <1>4, <1>5, <1>6, <1>7, <1>8, <1>9, <1>10

\* What an action of v does to the index and to the SQLite transaction of another view.
LEMMA SharedIndex ==
  ASSUME IInv, NEW v \in View, NEW w \in View \ {v},
         \/ Construct(v) \/ Crash(v) \/ RebuildRead(v) \/ RebuildCommit(v) \/ Lookup(v)
         \/ \E p \in Payload : BeginAppend(v, p)
         \/ AlreadyRecorded(v) \/ Refuse(v) \/ Write(v) \/ TornWrite(v)
         \/ Insert(v) \/ InsertFails(v)
  PROVE  /\ index' = index \/ (Valid(file) /\ index' = Events(file))
         /\ pc[w] = "stat" /\ txn = w => txn' = w
<1>0. w # NoView /\ ViewInv(v)
  BY NoneAssumption DEF IInv
<1>1. CASE \/ Construct(v) \/ Lookup(v) \/ InsertFails(v) \/ AlreadyRecorded(v) \/ Refuse(v) \/ Write(v)
           \/ \E p \in Payload : BeginAppend(v, p)
  BY <1>1 DEF Construct, Lookup, InsertFails, AlreadyRecorded, Refuse, Write, BeginAppend
<1>2. CASE Crash(v) \/ TornWrite(v)
  BY <1>0, <1>2 DEF Crash, TornWrite, Die, Release
<1>3. CASE RebuildRead(v)
  BY <1>0, <1>3 DEF RebuildRead, Die, Release
<1>4. CASE RebuildCommit(v)
  BY <1>0, <1>4 DEF RebuildCommit, ViewInv
<1>5. CASE Insert(v)
  <2>1. /\ pc[v] = "insert" /\ ~Contains(index, want[v]) /\ index' = Append(index, want[v])
        /\ UNCHANGED txn
    BY <1>5 DEF Insert
  <2>2. /\ Valid(file) /\ want[v] \in ToSet(Events(file))
        /\ index = Events(file) \/ Append(index, want[v]) = Events(file)
    BY <1>0, <2>1 DEF ViewInv, Written
  <2>3. index \in Text
    BY DEF IInv, RecordInv, TypeOK, Text
  <2>4. index # Events(file)
    BY <2>1, <2>2, <2>3, ContainsIsIn
  <2> QED
    BY <2>1, <2>2, <2>4
<1> QED
  BY <1>1, <1>2, <1>3, <1>4, <1>5

\* Nobody holds the lock and rests on it when another process writes.
LEMMA Waiting ==
  ASSUME IInv, NEW w \in View, flock # w, pc[w] # "stat"
  PROVE  pc[w] \in {"down", "idle"} \/ (pc[w] = "rebuild" /\ goal[w] = "serve")
<1>1. ViewInv(w) /\ pc[w] \in {"down", "idle", "rebuild", "stat", "ready", "insert"}
  BY DEF IInv, RecordInv, TypeOK
<1>2. ~Locked(w)
  BY <1>1 DEF ViewInv
<1> QED
  BY <1>1, <1>2 DEF Locked

\* Every step keeps what the views believe.
LEMMA ViewStep ==
  ASSUME Protected, IInv, [Next]_vars, NEW w \in View
  PROVE  ViewInv(w)'
<1>1. ASSUME NEW v \in View,
             \/ Construct(v) \/ Crash(v) \/ RebuildRead(v) \/ RebuildCommit(v) \/ Lookup(v)
             \/ \E p \in Payload : BeginAppend(v, p)
             \/ AlreadyRecorded(v) \/ Refuse(v) \/ Write(v) \/ TornWrite(v)
             \/ Insert(v) \/ InsertFails(v)
      PROVE  ViewInv(w)'
  <2>1. CASE w = v
    BY <1>1, <2>1, ActingView
  <2>2. CASE w # v
    <3>1. /\ pc'[w] = pc[w] /\ goal'[w] = goal[w] /\ print'[w] = print[w]
          /\ rows'[w] = rows[w] /\ want'[w] = want[w]
          /\ flock = w => flock' = w
      BY <1>1, <2>2, OtherViews DEF IInv, RecordInv
    <3>2. CASE UNCHANGED file
      <4>1. /\ index' = index \/ (Valid(file) /\ index' = Events(file))
            /\ pc[w] = "stat" /\ txn = w => txn' = w
        BY <1>1, <2>2, SharedIndex
      <4> QED
        BY <3>1, <3>2, <4>1, Idler
    <3>3. CASE file' # file
      <4>1. Write(v) \/ TornWrite(v)
        BY <1>1, <3>3 DEF Construct, Crash, RebuildRead, RebuildCommit, Lookup, BeginAppend,
          AlreadyRecorded, Refuse, Insert, InsertFails
      <4>2. pc[v] = "ready"
        BY <4>1 DEF Write, TornWrite, CanWrite
      <4>3. flock # w
        BY <2>2, <4>2, ReadyFacts
      <4>4. pc[w] # "stat"
        BY <3>3, FileFacts
      <4>5. pc[w] \in {"down", "idle"} \/ (pc[w] = "rebuild" /\ goal[w] = "serve")
        BY <4>3, <4>4, Waiting
      <4> QED
        BY <3>1, <3>3, <4>5, Bystander
    <3> QED
      BY <3>2, <3>3
  <2> QED
    BY <2>1, <2>2
<1>2. ASSUME NEW p \in Payload, PlainAppend(p) \/ PlainAppendTorn(p)
      PROVE  ViewInv(w)'
  <2>1. flock = NoView /\ UNCHANGED <<index, flock, txn, pc, goal, print, rows, want>>
    BY <1>2 DEF PlainAppend, PlainAppendTorn, CanAppendPlainly
  <2>2. CASE UNCHANGED file
    BY <2>1, <2>2, Idler
  <2>3. CASE file' # file
    <3>1. flock # w
      BY <2>1, NoneAssumption
    <3>2. pc[w] # "stat"
      BY <2>3, FileFacts
    <3>3. pc[w] \in {"down", "idle"} \/ (pc[w] = "rebuild" /\ goal[w] = "serve")
      BY <3>1, <3>2, Waiting
    <3> QED
      BY <2>1, <2>3, <3>3, Bystander
  <2> QED
    BY <2>2, <2>3
<1>3. CASE UNCHANGED vars
  BY <1>3, Idler DEF vars
<1> QED
  BY <1>1, <1>2, <1>3 DEF Next

\* An empty file, and views that are all down.
LEMMA InitIInv ==
  Init => IInv
<1> SUFFICES ASSUME Init PROVE IInv
  OBVIOUS
<1>1. file = EmptyFile /\ file \in File /\ Valid(file) /\ file.newline /\ Readable(file) = <<>>
  BY NoLines DEF Init
<1>2. <<>> \in Text
  BY EmptySeq DEF Text
<1>3. RecordInv
  BY RecordInit
<1>4. AckedDurable
  BY <1>1 DEF Init, AckedDurable
<1>5. ASSUME NEW v \in View
      PROVE  ViewInv(v)
  <2>1. pc[v] = "down" /\ print[v] = Unknown
    BY DEF Init
  <2>2. ~Locked(v) /\ ~Written(v)
    BY <2>1 DEF Locked, Written
  <2> QED
    BY <2>1, <2>2 DEF ViewInv
<1> QED
  BY <1>1, <1>2, <1>3, <1>4, <1>5 DEF IInv

\* Each part of the invariant is kept by every step.
LEMMA StepIInv ==
  ASSUME Protected
  PROVE  IInv /\ [Next]_vars => IInv'
<1> SUFFICES ASSUME IInv, [Next]_vars
             PROVE  IInv'
  OBVIOUS
<1>1. RecordInv'
  BY RecordStep DEF IInv
<1>2. AckedDurable' /\ (Valid(file)' <=> file'.newline) /\ Readable(file') \in Text
  BY AckedStep, ReaderStep, FileFacts
<1>3. \A v \in View : ViewInv(v)'
  BY ViewStep
<1> QED
  BY <1>1, <1>2, <1>3 DEF IInv, Text

-----------------------------------------------------------------------------
\* The theorems

\* Type correctness; in particular a view that is about to write has an event to
\* append, and the index never holds anything but events.
THEOREM TypeCorrect == Spec => []TypeOK
<1>1. RecordInv => TypeOK
  BY DEF RecordInv
<1> QED
  BY RecordInvariant, <1>1, PTL

\* A view that trusts the index (its fingerprint is the file's) reads exactly the
\* events of the file, which is intact: what _ensure_current promises to every
\* query and to the append that relies on the index alone.
THEOREM IndexAlwaysMatches ==
  ASSUME Protected
  PROVE  Spec => []IndexMatchesAuthority
<1>1. IInv => IndexMatchesAuthority
  BY DEF IInv, ViewInv, IndexMatchesAuthority
<1> QED
  BY InitIInv, StepIInv, <1>1, PTL DEF Spec

\* An event that append_event_once or append_event reported can be read from the
\* file for ever, through crashes, failed inserts and rebuilds.
THEOREM AckedAlwaysDurable ==
  ASSUME Protected
  PROVE  Spec => []AckedDurable
<1>1. IInv => AckedDurable
  BY DEF IInv
<1> QED
  BY InitIInv, StepIInv, <1>1, PTL DEF Spec

\* No identity is in the file twice, although the append asks only the index:
\* not even when the index is stale, a write is torn so that the next one glues
\* to it, or a plain writer races a rebuild.  A line commits to the events its
\* writer saw, and it saw the appended one nowhere among them.
THEOREM AppendedOnlyOnce == Spec => []AppendOnce
<1>1. RecordInv => AppendOnce
  BY RecordIsOnce
<1> QED
  BY RecordInvariant, <1>1, PTL

\* Nobody writes to a file whose last line is a fragment: no rebuild succeeds any
\* more, and no view still trusts what it read before.
THEOREM DamageAlwaysPreserved ==
  ASSUME Protected
  PROVE  Spec => DamageIsPreserved
<1>1. IInv /\ [Next]_vars => [~Valid(file) => UNCHANGED file]_vars
  BY FileFacts
<1> QED
  BY InitIInv, StepIInv, <1>1, PTL DEF Spec, DamageIsPreserved

\* Seen through a reader of the file, views and plain writers together implement
\* the append-once log of EvidenceLog.
THEOREM JournalImplementsLog ==
  ASSUME Protected
  PROVE  Spec => ImplementsLog
<1>1. Init => Log!Init
  BY NoLines DEF Init, Log!Init
<1>2. ASSUME IInv, [Next]_vars
      PROVE  [Log!Next]_(Log!vars)
  <2>1. Readable(file) \in Text
    BY <1>2, ReaderStep
  <2>2. Log!Logged = ToSet(Readable(file)) /\ acked \subseteq ToSet(Readable(file))
    BY <1>2 DEF Log!Logged, ToSet, IInv, AckedDurable
  <2>3. \/ Readable(file') = Readable(file)
        \/ \E p \in Payload :
             /\ p \notin ToSet(Readable(file))
             /\ Readable(file') = Append(Readable(file), p)
    BY <1>2, FileFacts
  <2>4. \/ acked' = acked
        \/ \E p \in Payload :
             /\ acked' = acked \cup {p}
             /\ p \in ToSet(Readable(file'))
             /\ p \in ToSet(Readable(file)) => UNCHANGED file
    BY <1>2, ReportedFacts
  <2>5. CASE Readable(file') = Readable(file)
    BY <2>2, <2>4, <2>5 DEF Log!Next, Log!vars, Log!Acknowledge
  <2>6. CASE Readable(file') # Readable(file)
    <3> PICK p \in Payload : /\ p \notin ToSet(Readable(file))
                             /\ Readable(file') = Append(Readable(file), p)
      BY <2>3, <2>6
    <3>1. ToSet(Readable(file')) = ToSet(Readable(file)) \cup {p}
      BY <2>1, AppendedSet
    <3>2. acked' = acked \/ acked' = acked \cup {p}
      BY <2>4, <2>6, <3>1
    <3> QED
      BY <2>2, <3>2 DEF Log!Next, Log!Record, Log!RecordAcknowledged
  <2> QED
    BY <2>5, <2>6
<1> QED
  BY InitIInv, StepIInv, <1>1, <1>2, PTL DEF Spec, ImplementsLog, Log!Spec

=============================================================================
