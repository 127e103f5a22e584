--------------------------- MODULE SingleExposure ---------------------------
(***************************************************************************)
(* What the shadow programs promise together, generation after generation: *)
(* one virtual position at a time, opened once and closed once.  That a    *)
(* session dies, that an operator moves on to the next program or carries  *)
(* an open position over to it, cannot be seen here.                       *)
(***************************************************************************)
CONSTANT Exposure

VARIABLES open, done

Init == open \in {{}} \cup {{x} : x \in Exposure} /\ done = {}

Open(x) ==
  /\ open = {} /\ x \notin done
  /\ open' = {x}
  /\ UNCHANGED done

Close(x) ==
  /\ x \in open
  /\ open' = {}
  /\ done' = done \cup {x}

Next == \E x \in Exposure : Open(x) \/ Close(x)

Spec == Init /\ [][Next]_<<open, done>>
=============================================================================
