----------------------------- MODULE MCT2Engine -----------------------------
(* T2Engine for TLC: accounts and macOS users are interchangeable. *)
EXTENDS T2Engine, TLC

Symmetry == Permutations(Users) \cup Permutations(Identities)

=============================================================================
