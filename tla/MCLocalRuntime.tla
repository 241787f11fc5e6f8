--------------------------- MODULE MCLocalRuntime ---------------------------
(***************************************************************************)
(* TLC instances of LocalRuntime: one process.                             *)
(***************************************************************************)
EXTENDS LocalRuntime, TLC

\* Foreign keys and nonces are interchangeable; so are usernames.
Symmetry == Permutations(RemoteKeys) \union Permutations(RemoteNonces)
            \union Permutations(Users)
=============================================================================
