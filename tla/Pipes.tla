-------------------------------- MODULE Pipes --------------------------------
(***************************************************************************)
(* What a relay promises: two pipes.  What a side receives is what the     *)
(* other side sent, in that order, from the first unit on.                 *)
(***************************************************************************)
EXTENDS Naturals, Sequences

CONSTANT Other   \* the side that a side talks to

VARIABLES
  sent,  (* how many units each side has sent; they are numbered          *)
  got    (* the units each side has been given                            *)

vars == <<sent, got>>

Init == /\ sent = [s \in DOMAIN Other |-> 0]
        /\ got = [s \in DOMAIN Other |-> <<>>]

Send(s) == /\ \E n \in 1 .. 2 : sent' = [sent EXCEPT ![s] = @ + n]
           /\ UNCHANGED got

Deliver(s) == /\ Len(got[s]) < sent[Other[s]]
              /\ got' = [got EXCEPT ![s] = Append(@, Len(@) + 1)]
              /\ UNCHANGED sent

Next == \E s \in DOMAIN Other : Send(s) \/ Deliver(s)

Spec == Init /\ [][Next]_vars
=============================================================================
