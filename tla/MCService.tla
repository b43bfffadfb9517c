----------------------------- MODULE MCService -----------------------------
(* The ticket office over sockets on a small instance: 3 stands for 2^16,  *)
(* so the number 4 is typed as 1.                                          *)
EXTENDS Service
=============================================================================
