---------------------- MODULE MCControlledCancellation ----------------------
(***************************************************************************)
(* A small instance of submission and cancellation together.               *)
(***************************************************************************)
EXTENDS ControlledCancellation, TLC

\* Orders and workers are only compared for equality.
Symmetry == Permutations(Orders) \cup Permutations(Workers)
=============================================================================
