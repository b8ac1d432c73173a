------------------------ MODULE MCResearchWorkerJobs ------------------------
(***************************************************************************)
(* Small instances of ResearchWorkerJobs.                                  *)
(***************************************************************************)
EXTENDS ResearchWorkerJobs, TLC

\* Workers and schedulers are only compared for equality.
Symmetry == Permutations(Workers) \cup Permutations(Schedulers)
=============================================================================
