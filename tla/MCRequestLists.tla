--------------------------- MODULE MCRequestLists ---------------------------
(***************************************************************************)
(* RequestLists on small instances.                                        *)
(***************************************************************************)
EXTENDS RequestLists, TLC

\* The threads are alike: no property depends on which is which.
Symmetry == Permutations(Threads)
=============================================================================
