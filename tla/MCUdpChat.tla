----------------------------- MODULE MCUdpChat -----------------------------
(* Instances for TLC: three clients on two hosts. *)
EXTENDS UdpChat

CONSTANTS ip1, ip2

TwoHosts == {[ip |-> ip1, port |-> 1], [ip |-> ip1, port |-> 2], [ip |-> ip2, port |-> 1]}
=============================================================================
