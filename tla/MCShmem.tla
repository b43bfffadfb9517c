------------------------------- MODULE MCShmem -------------------------------
(* The shared memory transport on small instances.  The semaphores stay    *)
(* small because one process is killed in the life of a set: every unread  *)
(* reply is then one of a call in progress or of a killed client, and      *)
(* there are at most two turns.                                            *)
EXTENDS Shmem, TLC

Symmetry == Permutations(Clients)
=============================================================================
