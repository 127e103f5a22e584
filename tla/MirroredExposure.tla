------------------------- MODULE MirroredExposure -------------------------
(***************************************************************************)
(* What demo-forward execution promises, whatever is killed, disconnected  *)
(* or restarted.  A session knows of an order by its mirror, and it loses  *)
(* sight of one in four ways: the order is answered with an error and      *)
(* lives all the same, its mirror is settled first, and while the session  *)
(* begins it was filled just then or taken for the mirrored one.           *)
(* Otherwise an order is sent only when nothing has exposure and no mirror *)
(* is open, and what a session lost sight of is lost to that session only: *)
(* the next one begins when all exposure is mirrored.                      *)
(***************************************************************************)
EXTENDS Naturals

CONSTANT Order

VARIABLES polling,   \* is a session past its start?
          sent,      \* orders sent
          resting,   \* orders that are pending
          held,      \* orders with an open position
          mirror,    \* mirror[k]: what happened to the mirror of k
          escaped    \* orders the session has lost sight of

exposure == <<resting, held>>
vars == <<polling, sent, exposure, mirror, escaped>>

Exposed == resting \cup held
Mirrored == {k \in Order : mirror[k] = {"open"}}

-----------------------------------------------------------------------------
\* The mirrors are left alone

Begin ==
  /\ ~polling /\ polling' = TRUE
  /\ Exposed \subseteq Mirrored \cup escaped
  /\ UNCHANGED <<sent, exposure, escaped>>

\* Of a session that ends nothing is kept.
End ==
  /\ polling' = FALSE /\ escaped' = {}
  /\ UNCHANGED <<sent, exposure>>

\* The order is taken for the mirrored one.
Mistake(k) ==
  /\ ~polling
  /\ k \in held /\ Mirrored # {}
  /\ escaped' = escaped \cup {k}
  /\ UNCHANGED <<polling, sent, exposure>>

Rest(k) == resting' = resting \cup {k} /\ UNCHANGED held
Hold(k) == held' = held \cup {k} /\ UNCHANGED resting
Void(k) == UNCHANGED exposure

\* The order is done, refused or lost with the session.
Send(k) ==
  /\ polling
  /\ k \notin sent /\ sent' = sent \cup {k}
  /\ Exposed \subseteq escaped /\ Mirrored = {}
  /\ \/ (Hold(k) \/ Void(k)) /\ UNCHANGED <<polling, escaped>>
     \/ (Rest(k) \/ Hold(k)) /\ escaped' = escaped \cup {k} /\ UNCHANGED polling
     \/ (Rest(k) \/ Hold(k) \/ Void(k)) /\ polling' = FALSE /\ escaped' = {}

Fill(k) ==
  /\ k \in resting
  /\ resting' = resting \ {k} /\ held' = held \cup {k}
  /\ \/ UNCHANGED escaped
     \/ ~polling /\ escaped' = escaped \cup {k}
  /\ UNCHANGED <<polling, sent>>

Leave(k) ==
  /\ k \in Exposed
  /\ resting' = resting \ {k} /\ held' = held \ {k}
  /\ UNCHANGED <<polling, sent, escaped>>

-----------------------------------------------------------------------------
\* A mirror is opened or closed

Mirror(k) ==
  /\ polling
  /\ k \in sent /\ Exposed \ escaped \subseteq {k}
  /\ Mirrored = {} /\ mirror[k] = {}
  /\ mirror' = [mirror EXCEPT ![k] = {"open"}]
  /\ escaped' = escaped \ {k}

\* A session that polls may be ahead of the broker, one that begins may not.
Settle(k) ==
  /\ k \in Exposed => polling
  /\ mirror[k] = {"open"}
  /\ mirror' = [mirror EXCEPT ![k] = {"open", "close"}]
  /\ escaped' = escaped \cup (Exposed \cap {k})

-----------------------------------------------------------------------------
\* One order may be held and mirrored from the start.
Init ==
  /\ ~polling /\ escaped = {}
  /\ held \in {{}} \cup {{k} : k \in Order}
  /\ resting = {} /\ sent = held
  /\ mirror = [k \in Order |-> IF k \in held THEN {"open"} ELSE {}]

Next ==
  \/ /\ UNCHANGED mirror
     /\ \/ UNCHANGED <<polling, sent, exposure, escaped>>
        \/ Begin \/ End
        \/ \E k \in Order : Mistake(k) \/ Send(k) \/ Fill(k) \/ Leave(k)
  \/ /\ UNCHANGED <<polling, sent, exposure>>
     /\ \E k \in Order : Mirror(k) \/ Settle(k)

Spec == Init /\ [][Next]_vars
=============================================================================
