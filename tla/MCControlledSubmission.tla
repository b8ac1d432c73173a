----------------------- MODULE MCControlledSubmission -----------------------
(***************************************************************************)
(* Small instances of ControlledSubmission.                                *)
(***************************************************************************)
EXTENDS ControlledSubmission, TLC

\* Orders and workers are only compared for equality.
Symmetry == Permutations(Orders) \cup Permutations(Workers)
=============================================================================
