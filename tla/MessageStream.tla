--------------------------- MODULE MessageStream ---------------------------
(***************************************************************************)
(* One owner working on an mstream of Lib/tools.c with put_mstream,        *)
(* get_mstream and fgets_mstream.  The strings that are put come from      *)
(* recv, so they begin and end anywhere in a line.                         *)
(***************************************************************************)
EXTENDS StreamOps

CONSTANTS
  Chunk,   (* the strings that may be put                       *)
  MaxLine  (* the longest line of the peer, its newline included *)

ASSUME ChunkAssumption == Chunk \subseteq Seq(Byte) /\ \A s \in Chunk : Tame(s)

(* The buffer takes the longest line and one byte more: an npoint that is   *)
(* one round ahead of spoint would read as "no line".                       *)
ASSUME MaxLineAssumption == MaxLine \in 1 .. BufSz - 1

VARIABLES sb,  (* the mstream, its buffer allocated     *)
          out  (* the last call and what it returned    *)

vars == <<sb, out>>

(* The peer never sends more than MaxLine bytes without ending a line. *)
LinesShort(t) == \A i \in 0 .. Len(t) - MaxLine :
                    \E j \in i + 1 .. i + MaxLine : j \in LineEnds(t)

Sendable(s) == Fits(sb, s) => LinesShort(Content(sb) \o s)

Init == sb = EmptyRing /\ out = [call |-> "init", ok |-> TRUE, line |-> <<>>]

Line(r) == IF HasLine(r) THEN NextLine(r) ELSE <<>>

Put(s) == /\ Sendable(s)
          /\ sb' = PutStream(sb, s)
          /\ out' = [call |-> "put", ok |-> Fits(sb, s), line |-> <<>>]

Get == /\ sb' = GetStream(sb)
       /\ out' = [call |-> "get", ok |-> HasLine(sb), line |-> Line(sb)]

(* fgets_mstream: put and get; an error of the put outlives a get that      *)
(* worked, but "no data" overwrites it.                                     *)
FgetsForgetsError(s) ==  \* a slip: the error of the put is not kept
  /\ Sendable(s)
  /\ LET put == PutStream(sb, s)
     IN  /\ sb' = IF put.datano = 0 THEN [put EXCEPT !.state = "NODATA"] ELSE GetStream(put)
         /\ out' = [call |-> "get", ok |-> HasLine(put), line |-> Line(put)]

Fgets(s) ==
  /\ Sendable(s)
  /\ LET put == PutStream(sb, s)
     IN  \/ /\ put.datano = 0
            /\ sb' = [put EXCEPT !.state = "NODATA"]
            /\ out' = [call |-> "get", ok |-> FALSE, line |-> <<>>]
         \/ /\ put.datano # 0
            /\ sb' = [GetStream(put) EXCEPT !.state = IF put.state = "ERROR" THEN "ERROR" ELSE @]
            /\ out' = [call |-> "get", ok |-> HasLine(put), line |-> Line(put)]

Next == Get \/ \E s \in Chunk : Put(s) \/ Fgets(s)

Spec == Init /\ [][Next]_vars
-----------------------------------------------------------------------------
(* datano, kept by counting line ends in what is put and lines in what is   *)
(* taken, is the number of line ends in the unread bytes, although the two  *)
(* were cut differently.                                                    *)
CountMatches == sb.datano = Cardinality(LineEnds(Content(sb)))

(* get_mstream returns NULL only when no message is there: a line that was  *)
(* counted can be taken.                                                    *)
LineReady == sb.datano > 0 => HasLine(sb)

(* A call that could not store its string says so, even when it returns a   *)
(* line: the state is never NORMAL after a refused put.                     *)
RefusalReported ==
  [][\A s \in Chunk : Fgets(s) /\ ~Fits(sb, s) => sb'.state # "NORMAL"]_vars

(* The stream keeps the promise of LineStream. *)
Lines == INSTANCE LineStream WITH Cap <- BufSz, text <- Content(sb)

ImplementsLines == Lines!Spec
=============================================================================
