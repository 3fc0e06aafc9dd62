----------------------------- MODULE LineStream -----------------------------
(***************************************************************************)
(* What a message stream promises: the text that was put comes out line by *)
(* line, in order, each line once and without its line end.  A put that    *)
(* does not fit is dropped as a whole; asking for a line fails only when   *)
(* no complete line is there.                                              *)
(***************************************************************************)
EXTENDS Integers, Sequences, SequencesExt

CONSTANTS Cap, Byte, CR, LF, Chunk

VARIABLES text,  (* what was put and not yet taken      *)
          out    (* the last call and what it returned  *)

vars == <<text, out>>

Ends(s) == {i \in 1 .. Len(s) : s[i] = LF \/ (s[i] = CR /\ ~(i < Len(s) /\ s[i + 1] = LF))}

(* A line without its CR, LF or CR LF. *)
Strip(s) == LET cut == SelectInSeq(s, LAMBDA c : c \in {CR, LF})
            IN  SubSeq(s, 1, cut - 1)

Init == text = <<>> /\ out = [call |-> "init", ok |-> TRUE, line |-> <<>>]

Put(s) ==
  \/ /\ Len(text) + Len(s) <= Cap
     /\ text' = text \o s
     /\ out' = [call |-> "put", ok |-> TRUE, line |-> <<>>]
  \/ /\ Len(text) + Len(s) > Cap
     /\ out' = [call |-> "put", ok |-> FALSE, line |-> <<>>]
     /\ UNCHANGED text

(* What taking a line does to the text t. *)
Take(t) ==
  \/ /\ Ends(t) # {}
     /\ LET n == Min(Ends(t))
        IN  /\ text' = SubSeq(t, n + 1, Len(t))
            /\ out' = [call |-> "get", ok |-> TRUE, line |-> Strip(SubSeq(t, 1, n))]
  \/ /\ Ends(t) = {}
     /\ out' = [call |-> "get", ok |-> FALSE, line |-> <<>>]
     /\ text' = t

Get == Take(text)

(* A put, if there is room, and a get in one call. *)
Fgets(s) == Take(IF Len(text) + Len(s) <= Cap THEN text \o s ELSE text)

Next == Get \/ \E s \in Chunk : Put(s) \/ Fgets(s)

Spec == Init /\ [][Next]_vars
=============================================================================
