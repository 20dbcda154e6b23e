----------------------------- MODULE MCStorage -----------------------------
(***************************************************************************)
(* Instances of CatalinaStorage for TLC.                                   *)
(***************************************************************************)
EXTENDS CatalinaStorage

AllFaults == FaultKind
NoFaults == {}
StoreFails == {"store"}

\* Slots, keys and values are interchangeable; used with safety properties only.
Symmetry == Permutations(Task) \cup Permutations(Key) \cup Permutations(Value)
=============================================================================
