----------------------------- MODULE MCDatabase -----------------------------
(* Database on a small instance: its servers are interchangeable, which    *)
(* the run without a liveness property uses.                               *)
EXTENDS Database, TLC

Symmetry == Permutations(Servers)
=============================================================================
