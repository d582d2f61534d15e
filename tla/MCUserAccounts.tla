--------------------------- MODULE MCUserAccounts ---------------------------
(* UserAccounts for TLC: all its sets are interchangeable values. *)
EXTENDS UserAccounts, TLC

Symmetry ==
  UNION {Permutations(S) : S \in {Threads, Conns, Usernames, Passwords, Emails}}
=============================================================================
