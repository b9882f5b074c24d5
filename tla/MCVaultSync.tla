---------------------------- MODULE MCVaultSync -----------------------------
(***************************************************************************)
(* A small instance of VaultSync for TLC: three notes, of which the first  *)
(* in tree order cannot be indexed.                                        *)
(***************************************************************************)
EXTENDS VaultSync

CONSTANTS a, b, r1, r2

\* A bound on the vaults of VaultSync_runs: only the second note differs between
\* commits.  No fairness forces a push.
SecondChanges == head[1] = a /\ head[3] = a
=============================================================================
