----------------------------- MODULE MCAccounts -----------------------------
EXTENDS Accounts, TLC

CONSTANTS t1, t2, t3, c1, c2, root, u1, u2

(* Sessions, requests and the users to come are interchangeable. *)
MCSymmetry ==
  Permutations({t1, t2, t3}) \cup Permutations({c1, c2}) \cup Permutations({u1, u2})
=============================================================================
