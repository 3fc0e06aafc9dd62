------------------------------ MODULE RingOps ------------------------------
(***************************************************************************)
(* The byte ring of Lib/tools.c as a value: the C struct _ringBuffer is a  *)
(* record and every library call that changes it is an operator from the   *)
(* old record to the new one.  RingBuffer and MessageStream, the two       *)
(* components that own such a struct, build their actions from these.      *)
(***************************************************************************)
EXTENDS Integers, Sequences

CONSTANTS
  BufSz,  (* rb->bufsz, the number of bytes the ring was made with *)
  Byte,   (* the values of a byte that the model tells apart       *)
  Nul     (* the byte 0 that fresh and cleared rings are filled with *)

ASSUME BufSzAssumption == BufSz \in Nat \ {0}
ASSUME NulAssumption   == Nul \in Byte

Index     == 0 .. BufSz - 1
RingState == {"NORMAL", "ERROR", "NODATA"}

Ring == [ buf    : [Index -> Byte],
          spoint : Index,       (* first unread byte                        *)
          epoint : Index,       (* where the next byte is stored            *)
          datasz : 0 .. BufSz,  (* number of unread bytes                   *)
          npoint : Index,       (* mstream: first byte after the next line  *)
          datano : Int,         (* mstream: number of complete lines        *)
          state  : RingState ]

(* make_ringBuffer, and what clear_ringBuffer leaves. *)
EmptyRing == [ buf |-> [j \in Index |-> Nul], spoint |-> 0, epoint |-> 0,
               datasz |-> 0, npoint |-> 0, datano |-> 0, state |-> "NORMAL" ]

(* A cursor that ran past either end of the buffer comes in again at the    *)
(* other one.  The code never divides: it adds or subtracts bufsz once.     *)
Wrap(p) == IF p >= BufSz THEN p - BufSz ELSE IF p < 0 THEN p + BufSz ELSE p

(* Slips: the room test off by one; the second memcpy starting one byte     *)
(* early in the source.                                                     *)
FitsPlusOne(r, s) == r.datasz + Len(s) <= BufSz + 1
OffsetOneEarly(r, j) == IF j >= r.epoint THEN j - r.epoint ELSE j + BufSz - r.epoint - 1

Fits(r, s) == r.datasz + Len(s) <= BufSz

(* put_ringBuffer: one memcpy, or two when the data runs over the end.      *)
(* Offset(r, j) is the place of slot j counted from epoint.                 *)
Offset(r, j) == Wrap(j - r.epoint)

PutRing(r, s) ==
  IF Fits(r, s)
  THEN [r EXCEPT !.buf    = [j \in Index |-> IF Offset(r, j) < Len(s)
                                             THEN s[Offset(r, j) + 1]
                                             ELSE r.buf[j]],
                 !.epoint = Wrap(r.epoint + Len(s)),
                 !.datasz = r.datasz + Len(s),
                 !.state  = "NORMAL"]
  ELSE [r EXCEPT !.state = "ERROR"]

(* get_ringBuffer, when n bytes are there: the copy it returns, and what    *)
(* it does to the ring.                                                     *)
ReadRing(r, n) == [i \in 1 .. n |-> r.buf[Wrap(r.spoint + i - 1)]]
DropRing(r, n) == [r EXCEPT !.spoint = Wrap(r.spoint + n),
                            !.datasz = r.datasz - n]

(* The whole buffer read once round from epoint: the last BufSz bytes that  *)
(* were put, oldest first.                                                  *)
LastBytes(r) == [i \in 1 .. BufSz |-> r.buf[Wrap(r.epoint + i - 1)]]

(* The unread bytes, oldest first. *)
Content(r) == ReadRing(r, r.datasz)
=============================================================================
