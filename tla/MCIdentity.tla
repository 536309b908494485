----------------------------- MODULE MCIdentity -----------------------------
(* Identity for TLC: users, passwords, rows of a table and requests are    *)
(* interchangeable.                                                        *)
EXTENDS Identity, TLC

Symmetry ==
  UNION {Permutations(S) : S \in {Users, Passwords, Transactions, Sessions, Requests}}
=============================================================================
