------------------------------ MODULE MCFilesig ------------------------------
(* The file and signal transport on small instances.                       *)
EXTENDS Filesig
=============================================================================
