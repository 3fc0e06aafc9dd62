----------------------------- MODULE MCRecvWait -----------------------------
(* Instances for TLC: recv_wait_twin on two sockets, clocks of a few ticks. *)
EXTENDS RecvWait
=============================================================================
