---------------------------- MODULE HeaderParser ----------------------------
(***************************************************************************)
(* get_protocol_header_list_seq of xLib/protocol.c: it takes a segment of  *)
(* a stream apart and adds what it holds, field by field, to a list.  What *)
(* it remembers from one segment to the next is the list and two static    *)
(* variables; it buffers nothing.  The header of a message ends with an    *)
(* empty line; whatever follows is contents.                               *)
(*                                                                         *)
(* A byte string is a sequence of symbols: "CR", "LF", ":", "SP", and the  *)
(* words of HTTP, each of which is one symbol that no cut goes through.    *)
(***************************************************************************)
EXTENDS Naturals, SequencesExt

FIRST_LINE == <<"#first">>
CONTINUE   == <<"#continue">>
END        == <<"#end">>
CONTENTS   == <<"#contents">>

Node(k, v) == [key |-> k, val |-> v]

(* What lp == NULL resets the static variables to. *)
NoHeader == [list |-> <<>>, crlfCount |-> 0, inContents |-> FALSE]

(* The first place from i on that holds one of the symbols, or the end. *)
Find(seg, i, symbols) ==
  CHOOSE j \in i .. Len(seg) + 1 :
    /\ j = Len(seg) + 1 \/ seg[j] \in symbols
    /\ \A k \in i .. j - 1 : seg[k] \notin symbols

(* The bytes of the line end at i: none when CR is the last byte there is. *)
LineEnd(seg, i) ==
  IF i < Len(seg) /\ SubSeq(seg, i, i + 1) = <<"CR", "LF">> THEN 2
  ELSE IF i <= Len(seg) /\ seg[i] = "LF" THEN 1 ELSE 0

(* The text from i up to LF; next is where the loop goes on, a CR included. *)
Text(seg, i) ==
  LET e  == Find(seg, i, {"LF"})
      cr == e > i /\ seg[e - 1] = "CR"
      n  == IF cr THEN e - 1 ELSE e
  IN [val |-> SubSeq(seg, i, n - 1), next |-> n]

(* A field: the key ends at ":" alone, so it runs over the ends of lines. *)
Field(seg, i) ==
  LET folded == seg[i] = "SP"
      k == IF folded THEN i ELSE Find(seg, i, {":"})
      v == CHOOSE j \in k .. Len(seg) + 1 :
             /\ j = Len(seg) + 1 \/ seg[j] \notin {":", "SP"}
             /\ \A l \in k .. j - 1 : seg[l] \in {":", "SP"}
  IN [node |-> Node(IF folded THEN CONTINUE ELSE SubSeq(seg, i, k - 1), Text(seg, v).val),
      next |-> Text(seg, v).next]

Rest(seg, i) == IF i > Len(seg) THEN <<>> ELSE <<Node(CONTENTS, SubSeq(seg, i, Len(seg)))>>

(* A slip: a line end at the end of a segment is not remembered. *)
StoppedForgets == 0
Stopped == 1

(* The loop over the lines, from i on with that crlfCount, and the contents: *)
(* the nodes they add, and what the static variables become.                 *)
Lines(seg) ==
  LET from[i \in 1 .. Len(seg) + 1, crlf \in {0, 1}] ==
        LET n1 == LineEnd(seg, i)
            n2 == LineEnd(seg, i + n1)
            j  == i + n1 + IF n1 > 0 /\ crlf = 1 THEN 0 ELSE n2  \* behind an empty line
            f  == Field(seg, i + n1)
            more == from[f.next, 0]
        IN IF i > Len(seg) THEN [list |-> <<>>, crlfCount |-> crlf, inContents |-> FALSE]
           ELSE IF n2 > 0 \/ (n1 > 0 /\ crlf = 1)
           THEN [list |-> <<Node(END, <<>>)>> \o Rest(seg, j), crlfCount |-> 0, inContents |-> TRUE]
           ELSE IF i + n1 > Len(seg)
           THEN [list |-> <<>>, crlfCount |-> Stopped, inContents |-> FALSE]
           ELSE [more EXCEPT !.list = <<f.node>> \o @]
  IN from

(* One call; the first one (lp == NULL, fstline) takes the first line. *)
Parse(h, seg) ==
  LET first == h.list = <<>>
      t     == Text(seg, 1)
      added == IF h.inContents THEN [h EXCEPT !.list = Rest(seg, 1)]
               ELSE IF first THEN Lines(seg)[t.next, 0] ELSE Lines(seg)[1, h.crlfCount]
  IN [added EXCEPT !.list = (IF first THEN <<Node(FIRST_LINE, t.val)>> ELSE h.list) \o @]
-----------------------------------------------------------------------------
(* search_protocol_header: the first node of that key, with its folded lines. *)
Has(list, key) == \E i \in DOMAIN list : list[i].key = key
Search(list, key) ==
  LET folded[i \in 2 .. Len(list) + 1] ==
        IF i > Len(list) \/ list[i].key # CONTINUE THEN <<>>
        ELSE <<"CR", "LF">> \o list[i].val \o folded[i + 1]
      i == CHOOSE n \in DOMAIN list : list[n].key = key /\ \A m \in 1 .. n - 1 : list[m].key # key
  IN list[i].val \o folded[i + 1]
IsField(list, key, value) == Has(list, key) /\ Search(list, key) = value
=============================================================================
