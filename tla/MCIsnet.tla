------------------------------ MODULE MCIsnet ------------------------------
(* Instances for TLC: every configuration, with answers that come together or late. *)
EXTENDS Isnet
=============================================================================
