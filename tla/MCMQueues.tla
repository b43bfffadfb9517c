------------------------------ MODULE MCMQueues ------------------------------
(* The message queue transport on a small instance.  Room is the smallest  *)
(* Capacity with which all calls return when one client is killed: its     *)
(* list reply stays, all but one of the others have their requests queued, *)
(* and the server has a list reply to post.  With a unit less, clients     *)
(* that wait for their replies and a server that waits for room wait for   *)
(* each other.                                                             *)
EXTENDS MQueues

Room == ListSize + (Cardinality(Clients) - 2) + ListSize
ASSUME RoomAssumption == Capacity = Room
=============================================================================
