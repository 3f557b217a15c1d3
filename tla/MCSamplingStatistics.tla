------------------------ MODULE MCSamplingStatistics ------------------------
(* SamplingStatistics for TLC.                                             *)
EXTENDS SamplingStatistics, TLC

Symmetry == Permutations(Threads)
=============================================================================
