----------------------------- MODULE RingBuffer -----------------------------
(***************************************************************************)
(* One owner working on a ringBuffer of Lib/tools.c: make, put, get, seek, *)
(* ref, clear and free in any order and with any sizes, including the ones *)
(* the library must refuse.  "out" is the value the last call returned.    *)
(***************************************************************************)
EXTENDS RingOps

CONSTANT Chunk  (* the byte strings that may be put *)

ASSUME ChunkAssumption == Chunk \subseteq Seq(Byte)

VARIABLES open,  (* rb->buf # NULL                     *)
          rb,    (* the rest of the struct             *)
          out    (* the last call and what it returned *)

vars == <<open, rb, out>>

CallName == {"init", "make", "clear", "free", "put", "get", "seek", "ref"}

Outcome == [call : CallName, arg : Int, ok : BOOLEAN, data : Seq(Byte)]

Returns(call, arg, data) == [call |-> call, arg |-> arg, ok |-> TRUE, data |-> data]
Fails(call, arg)         == [call |-> call, arg |-> arg, ok |-> FALSE, data |-> <<>>]

(* init_ringBuffer: no buffer yet. *)
Init == open = FALSE /\ rb = EmptyRing /\ out = Returns("init", 0, <<>>)

(* make_ringBuffer / new_ringBuffer; a malloc that fails leaves things as    *)
(* they were, that is no step.                                              *)
Make == /\ ~open
        /\ open' = TRUE
        /\ rb' = EmptyRing
        /\ out' = Returns("make", 0, <<>>)

(* A slip: clear_ringBuffer without the memset of the struct's cursors. *)
ClearKeepsEnd == /\ rb' = [EmptyRing EXCEPT !.epoint = rb.epoint]
                 /\ out' = Returns("clear", 0, <<>>)
                 /\ UNCHANGED open

Clear == /\ rb' = EmptyRing
         /\ out' = Returns("clear", 0, <<>>)
         /\ UNCHANGED open

Free == /\ open' = FALSE
        /\ rb' = EmptyRing
        /\ out' = Returns("free", 0, <<>>)

Put(s) ==
  \/ /\ open
     /\ rb' = PutRing(rb, s)
     /\ out' = IF Fits(rb, s) THEN Returns("put", Len(s), <<>>) ELSE Fails("put", Len(s))
     /\ UNCHANGED open
  \/ /\ ~open
     /\ rb' = [rb EXCEPT !.state = "NORMAL"]
     /\ out' = Fails("put", Len(s))
     /\ UNCHANGED open

Get(n) ==
  \/ /\ open /\ n <= rb.datasz
     /\ rb' = DropRing(rb, n)
     /\ out' = Returns("get", n, ReadRing(rb, n))
     /\ UNCHANGED open
  \/ /\ ~open \/ n > rb.datasz
     /\ out' = Fails("get", n)
     /\ UNCHANGED <<open, rb>>

(* seek_ringBuffer moves spoint without looking at what is there.  Its      *)
(* comment asks the caller not to move further than the buffer is long; the *)
(* code does not check, so that is a condition on the calls made here.      *)
Seek(n) ==
  \/ /\ open /\ n <= rb.datasz
     /\ rb.datasz - n <= BufSz
     /\ rb' = DropRing(rb, n)
     /\ out' = Returns("seek", n, <<>>)
     /\ UNCHANGED open
  \/ /\ ~open \/ n > rb.datasz
     /\ out' = Fails("seek", n)
     /\ UNCHANGED <<open, rb>>

Ref(pos) ==
  \/ /\ open /\ pos <= rb.datasz
     /\ out' = Returns("ref", pos, <<rb.buf[Wrap(rb.spoint + pos)]>>)
     /\ UNCHANGED <<open, rb>>
  \/ /\ ~open \/ pos > rb.datasz
     /\ out' = Fails("ref", pos)
     /\ UNCHANGED <<open, rb>>

(* One more than fits, so that every refusal is exercised. *)
Size == 0 .. BufSz + 1

Next == \/ Make \/ Clear \/ Free
        \/ \E s \in Chunk : Put(s)
        \/ \E n \in Size : Get(n) \/ Ref(n)
        \/ \E n \in -(BufSz + 1) .. BufSz + 1 : Seek(n)

Spec == Init /\ [][Next]_vars
-----------------------------------------------------------------------------
TypeOK == /\ open \in BOOLEAN
          /\ rb \in Ring
          /\ out \in Outcome

(* The three redundant fields of the struct never disagree: epoint is       *)
(* datasz bytes after spoint, also when the ring is exactly full or the     *)
(* data runs over the end of the buffer.  Every memcpy length of put and    *)
(* get is computed from this relation.                                      *)
CursorsAgree == rb.epoint = Wrap(rb.spoint + rb.datasz)

(* The ring keeps the promise of ByteTape: each call returns what it would  *)
(* return on a plain queue of bytes, and a refused put leaves the data that *)
(* was there.  The tape is the whole buffer, read from epoint once round.   *)
Tape == INSTANCE ByteTape
          WITH Cap    <- BufSz,
               tape   <- LastBytes(rb),
               unread <- rb.datasz

ImplementsTape == Tape!Spec
=============================================================================
