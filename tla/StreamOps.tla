----------------------------- MODULE StreamOps -----------------------------
(***************************************************************************)
(* mstream of Lib/tools.c: a byte ring whose bytes are read line by line.  *)
(* put_mstream and get_mstream as operators on the struct, for the         *)
(* components that own one.                                                *)
(***************************************************************************)
EXTENDS RingOps, FiniteSets, SequencesExt

CONSTANTS CR, LF

ASSUME NewlineAssumption == {CR, LF} \subseteq Byte /\ CR # LF /\ Nul \notin {CR, LF}

(* Where lines end in a C string: at every LF, and at every CR that is not  *)
(* followed by LF.  The byte after the last one is '\0', which is not LF.   *)
LineEnds(s) ==
  {i \in 1 .. Len(s) : s[i] = LF \/ (s[i] = CR /\ ~(i < Len(s) /\ s[i + 1] = LF))}

(* The strings that put_mstream can count: none ends between a CR and its   *)
(* LF, and one that begins with a line end has no other (a string cut       *)
(* elsewhere is what the run line_receiver_cut is about).                   *)
Tame(s) == s # <<>> => /\ s[Len(s)] # CR
                       /\ 1 \in LineEnds(s) => LineEnds(s) = {1}

Chomp(s) ==
  LET cut == SelectInSeq(s, LAMBDA c : c \in {CR, LF})
  IN  IF cut = 0 THEN s ELSE SubSeq(s, 1, cut - 1)

(* The variable m of put_mstream: the C index of the first line end that is *)
(* not at index 0, because 0 also stands for "none found yet".              *)
LastEnd(s) == IF LineEnds(s) = {} THEN 0 ELSE Max(LineEnds(s)) - 1  \* a slip: no "first" test

FirstEnd(s) == LET later == LineEnds(s) \ {1}
               IN  IF later = {} THEN 0 ELSE Min(later) - 1

(* A slip: newlines are counted although the put was refused. *)
PutStreamCountsRefused(r, s) ==
  [PutRing(r, s) EXCEPT
     !.npoint = IF r.datano = 0 /\ LineEnds(s) # {} THEN Wrap(r.epoint + FirstEnd(s) + 1) ELSE @,
     !.datano = r.datano + Cardinality(LineEnds(s))]

PutStream(r, s) ==
  IF Fits(r, s)
  THEN [PutRing(r, s) EXCEPT
          !.npoint = IF r.datano = 0 /\ LineEnds(s) # {}
                     THEN (r.epoint + FirstEnd(s) + 1) % BufSz ELSE r.npoint,
          !.datano = r.datano + Cardinality(LineEnds(s))]
  ELSE PutRing(r, s)

(* The bytes from spoint up to npoint; npoint = spoint reads as "none".     *)
NextLen(r) == Wrap(r.npoint - r.spoint)

(* get_mstream after a line is gone looks for the next line end in the      *)
(* buffer itself: the byte after the last stored one is whatever is there.  *)
ScanEnds(r) ==
  {k \in 0 .. Wrap(r.epoint - r.spoint) - 1 :
     LET c == r.buf[Wrap(r.spoint + k)]
     IN  c = LF \/ (c = CR /\ r.buf[Wrap(Wrap(r.spoint + k) + 1)] # LF)}

RescanNever(r) == r  \* a slip: npoint is not moved to the end of the next line

Rescan(r) == IF r.datano >= 1 /\ ScanEnds(r) # {}
             THEN [r EXCEPT !.npoint = Wrap(r.spoint + Min(ScanEnds(r)) + 1)]
             ELSE r

LineTaken(r) == [DropRing(r, NextLen(r)) EXCEPT !.spoint = r.npoint,
                                                !.datano = r.datano - 1,
                                                !.state  = "NORMAL"]

(* Can get_mstream return a line?  And what it does to the struct. *)
HasLine(r) == r.datano # 0 /\ NextLen(r) # 0 /\ NextLen(r) <= r.datasz

GetStream(r) ==
  IF HasLine(r) THEN Rescan(LineTaken(r))
  ELSE [r EXCEPT !.state = IF r.datano # 0 /\ NextLen(r) # 0 THEN "ERROR" ELSE "NORMAL"]

NextLine(r) == Chomp(ReadRing(r, NextLen(r)))
=============================================================================
