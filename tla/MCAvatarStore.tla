---------------------------- MODULE MCAvatarStore ----------------------------
(* AvatarStore for TLC. *)
EXTENDS AvatarStore, TLC

Symmetry == Permutations(Threads) \cup Permutations(Users)
=============================================================================
