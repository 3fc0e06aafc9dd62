------------------------------ MODULE ByteTape ------------------------------
(***************************************************************************)
(* What the byte ring of Lib/tools.c promises to its callers, with no      *)
(* cursor and no wrap-around: a tape of the last Cap bytes that were put,  *)
(* oldest first, of which the last "unread" ones wait to be taken.         *)
(* Reading returns bytes in the order they were put, each exactly once     *)
(* unless the reader seeks back, and a call that is refused changes        *)
(* nothing.                                                                *)
(***************************************************************************)
EXTENDS Integers, Sequences

CONSTANTS Cap, Byte, Nul, Chunk

VARIABLES open,    (* has the buffer been allocated?        *)
          tape,    (* the last Cap bytes put, oldest first  *)
          unread,  (* how many of them were not taken yet   *)
          out      (* the last call and what it returned    *)

vars == <<open, tape, unread, out>>

Blank == [i \in 1 .. Cap |-> Nul]

Returns(call, arg, data) == [call |-> call, arg |-> arg, ok |-> TRUE, data |-> data]
Fails(call, arg)         == [call |-> call, arg |-> arg, ok |-> FALSE, data |-> <<>>]

Init == /\ open = FALSE /\ tape = Blank /\ unread = 0
        /\ out = Returns("init", 0, <<>>)

Make == /\ ~open
        /\ open' = TRUE /\ tape' = Blank /\ unread' = 0
        /\ out' = Returns("make", 0, <<>>)

Clear == /\ tape' = Blank /\ unread' = 0
         /\ out' = Returns("clear", 0, <<>>)
         /\ UNCHANGED open

Free == /\ open' = FALSE /\ tape' = Blank /\ unread' = 0
        /\ out' = Returns("free", 0, <<>>)

Put(s) ==
  \/ /\ open /\ unread + Len(s) <= Cap
     /\ tape' = SubSeq(tape \o s, Len(s) + 1, Cap + Len(s))
     /\ unread' = unread + Len(s)
     /\ out' = Returns("put", Len(s), <<>>)
     /\ UNCHANGED open
  \/ /\ ~open \/ unread + Len(s) > Cap
     /\ out' = Fails("put", Len(s))
     /\ UNCHANGED <<open, tape, unread>>

Get(n) ==
  \/ /\ open /\ n <= unread
     /\ unread' = unread - n
     /\ out' = Returns("get", n, SubSeq(tape, Cap - unread + 1, Cap - unread + n))
     /\ UNCHANGED <<open, tape>>
  \/ /\ ~open \/ n > unread
     /\ out' = Fails("get", n)
     /\ UNCHANGED <<open, tape, unread>>

Seek(n) ==
  \/ /\ open /\ n <= unread /\ unread - n <= Cap
     /\ unread' = unread - n
     /\ out' = Returns("seek", n, <<>>)
     /\ UNCHANGED <<open, tape>>
  \/ /\ ~open \/ n > unread
     /\ out' = Fails("seek", n)
     /\ UNCHANGED <<open, tape, unread>>

(* The byte just past the unread ones may be looked at too: it is some byte. *)
Ref(pos) ==
  \/ /\ open /\ pos <= unread
     /\ \E b \in Byte : /\ out' = Returns("ref", pos, <<b>>)
                        /\ pos < unread => b = tape[Cap - unread + 1 + pos]
     /\ UNCHANGED <<open, tape, unread>>
  \/ /\ ~open \/ pos > unread
     /\ out' = Fails("ref", pos)
     /\ UNCHANGED <<open, tape, unread>>

Next == \/ Make \/ Clear \/ Free
        \/ \E s \in Chunk : Put(s)
        \/ \E n \in 0 .. Cap + 1 : Get(n) \/ Ref(n)
        \/ \E n \in -(Cap + 1) .. Cap + 1 : Seek(n)

Spec == Init /\ [][Next]_vars
=============================================================================
