--------------------------- MODULE JournalFile ---------------------------
(***************************************************************************)
(* The JSONL file of a ShadowTradeJournal.                                 *)
(*                                                                         *)
(* An event carries its payload, its sequence number and the hash of the   *)
(* event before it, so with a collision-free hash one line determines all  *)
(* the lines before it: a line is modelled by the sequence of payloads it  *)
(* commits to.  A line that is not one JSON object is Garbage.             *)
(***************************************************************************)
EXTENDS Naturals, Sequences, SequencesExt

Garbage == <<>>

\* lines of the file, whether the last one ends in a newline, and a stamp
\* that stands for size, mtime and inode: it changes with every write.
EmptyFile == [lines |-> <<>>, newline |-> TRUE, stamp |-> 0]

\* Appending text to a file whose last line lacks its newline glues the two.
Put(file, text, terminated) ==
  [lines |-> IF file.newline THEN Append(file.lines, text)
             ELSE [file.lines EXCEPT ![Len(file.lines)] = Garbage],
   newline |-> terminated,
   stamp |-> file.stamp + 1]

\* Each line is an event that continues the line before it.
Chained(lines) ==
  \A i \in DOMAIN lines :
    /\ lines[i] # Garbage
    /\ Front(lines[i]) = (IF i = 1 THEN <<>> ELSE lines[i - 1])

\* verify(): line by line, from the genesis hash.
Valid(file) == Chained(file.lines)

\* The events of a valid file, which its last hash commits to.
Events(file) == IF file.lines = <<>> THEN <<>> ELSE Last(file.lines)

\* The events a reader obtains before the first damaged line.
Readable(file) ==
  LET intact == {n \in 0 .. Len(file.lines) : Chained(SubSeq(file.lines, 1, n))}
      n == CHOOSE m \in intact : \A k \in intact : k <= m
  IN  IF n = 0 THEN <<>> ELSE file.lines[n]
=============================================================================
