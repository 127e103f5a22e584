----------------- MODULE MCIndexedShadowTradeJournal -----------------
(***************************************************************************)
(* Two views and a few identities, all interchangeable.                    *)
(***************************************************************************)
EXTENDS IndexedShadowTradeJournal, TLC

Interchangeable == Permutations(View) \cup Permutations(Payload)
=============================================================================
