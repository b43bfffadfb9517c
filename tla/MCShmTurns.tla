----------------------------- MODULE MCShmTurns -----------------------------
(* The turn-taking prototypes, of both kinds, on small instances.          *)
EXTENDS ShmTurns, TLC

Symmetry == Permutations(Clients)
=============================================================================
