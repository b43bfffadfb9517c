--------------------------------- MODULE Rpc ---------------------------------
(***************************************************************************)
(* What a transport of inc/ipc.h promises to the client and the server     *)
(* programs: the server acts on a request that was sent, once, and the     *)
(* client's receive returns the reply to its own request (the flow at the  *)
(* top of inc/actions.h).  A call may also end without a reply.            *)
(***************************************************************************)
CONSTANT Clients

NoReply == "nobody"

VARIABLES stage,   \* stage[c]: how far the call of client c is
          got      \* got[c]: whose reply the last finished call of c returned

Init == /\ stage = [c \in Clients |-> "idle"]
        /\ got = [c \in Clients |-> NoReply]

Move(c, from, to) == /\ stage[c] = from
                     /\ stage' = [stage EXCEPT ![c] = to]

Call(c)   == Move(c, "idle", "asked") /\ UNCHANGED got
Serve(c)  == Move(c, "asked", "served") /\ UNCHANGED got
Return(c) == Move(c, "served", "idle") /\ got' = [got EXCEPT ![c] = c]

Abort(c) == /\ stage[c] # "idle"
            /\ stage' = [stage EXCEPT ![c] = "idle"]
            /\ UNCHANGED got

Next == \E c \in Clients : Call(c) \/ Serve(c) \/ Return(c) \/ Abort(c)

Spec == Init /\ [][Next]_<<stage, got>>
=============================================================================
