------------------------------ MODULE MCT2Ncm ------------------------------
(* Small instances of T2Ncm: runs and CPUs are interchangeable.             *)
EXTENDS T2Ncm, TLC

RunCpuSymmetry == Permutations(Runs) \cup Permutations(Cpus)
=============================================================================
