--------------------------- MODULE MCT2BioCapture ---------------------------
(* Model values and symmetry for the checks of T2BioCapture. *)
EXTENDS T2BioCapture, TLC

RequestSymmetry == Permutations(Requests)
=============================================================================
