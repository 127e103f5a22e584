-------------------------- MODULE AccrualLedger --------------------------
(***************************************************************************)
(* What the True-OOS ledger promises: it starts with the candles of the    *)
(* first accrual and only grows, batch by batch, each batch later than     *)
(* everything recorded before it.                                          *)
(***************************************************************************)
EXTENDS Naturals, Sequences

CONSTANT Epoch      \* opening times of candles

VARIABLE batches    \* the candles of each committed accrual, in order

Init == \E first \in (SUBSET Epoch) \ {{}} : batches = <<first>>

Accrue(batch) ==
  /\ batch # {}
  /\ \A i \in DOMAIN batches : \A old \in batches[i], new \in batch : old < new
  /\ batches' = Append(batches, batch)

Next == \E batch \in SUBSET Epoch : Accrue(batch)

Spec == Init /\ [][Next]_batches
=============================================================================
