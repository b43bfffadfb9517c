------------------------------- MODULE MCFifo -------------------------------
(* The named pipe transport on small instances: two clients with a stop of *)
(* the server and a kill, or one client with neither.                      *)
EXTENDS Fifo
=============================================================================
