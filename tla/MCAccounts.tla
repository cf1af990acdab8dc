----------------------------- MODULE MCAccounts -----------------------------
(***************************************************************************)
(* Accounts for TLC.                                                       *)
(***************************************************************************)
EXTENDS Accounts, TLC

\* No definition tells one user who registered himself, or one request, from
\* another.
Symmetry ==
  Permutations(Others) \cup Permutations(Visits) \cup Permutations(Changes)
=============================================================================
