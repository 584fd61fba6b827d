---------------------------- MODULE MCT2Transport ----------------------------
(* Small instances of T2Transport: the buffers are interchangeable.         *)
EXTENDS T2Transport, TLC

BufSymmetry == Permutations(Bufs)
=============================================================================
