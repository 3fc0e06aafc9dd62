--------------------------- MODULE RingOpsProofs ---------------------------
(***************************************************************************)
(* What the calls of the byte ring do to its cursors and to the bytes in   *)
(* it, for every buffer size: the facts that the proofs about the          *)
(* ringBuffer and about the mstream rest on.                               *)
(***************************************************************************)
EXTENDS RingOps, SequenceTheorems, TLAPS

(* A cursor that left the buffer by less than its length is brought back in. *)
LEMMA WrapIsIndex ==
  ASSUME NEW p \in Int, -BufSz <= p, p < 2 * BufSz
  PROVE  Wrap(p) \in Index
BY BufSzAssumption DEF Wrap, Index

(* Advancing the end, or the start, by n keeps them the right distance apart. *)
LEMMA WrapTwice ==
  ASSUME NEW p \in Index, NEW d \in 0 .. BufSz, NEW n \in Int
  PROVE  /\ d + n \in 0 .. BufSz => Wrap(Wrap(p + d) + n) = Wrap(p + (d + n))
         /\ d - n \in 0 .. BufSz => Wrap(Wrap(p + n) + (d - n)) = Wrap(p + d)
BY BufSzAssumption DEF Wrap, Index

(* A function on 1 .. n is a sequence of length n. *)
LEMMA FunctionIsSeq ==
  ASSUME NEW S, NEW n \in Nat, NEW f \in [1 .. n -> S]
  PROVE  f \in Seq(S) /\ Len(f) = n
BY SeqDef

(* Reading n unread bytes gives a string of n bytes. *)
LEMMA ReadRingIsSeq ==
  ASSUME NEW r \in Ring, NEW n \in 0 .. BufSz
  PROVE  ReadRing(r, n) \in Seq(Byte) /\ Len(ReadRing(r, n)) = n
<1>1. \A i \in 1 .. n : Wrap(r.spoint + i - 1) \in Index
  BY BufSzAssumption, WrapIsIndex DEF Ring, Index
<1>2. ReadRing(r, n) \in [1 .. n -> Byte]
  BY <1>1 DEF ReadRing, Ring
<1> QED
  BY <1>2, BufSzAssumption, FunctionIsSeq

LEMMA EmptyRingIsRing == EmptyRing \in Ring
BY BufSzAssumption, NulAssumption DEF EmptyRing, Ring, Index, RingState

(* put_ringBuffer stays inside the buffer. *)
LEMMA PutRingIsRing ==
  ASSUME NEW r \in Ring, NEW s \in Seq(Byte)
  PROVE  PutRing(r, s) \in Ring
<1>1. Len(s) \in Nat
  OBVIOUS
<1>2. CASE ~Fits(r, s)
  BY <1>2 DEF PutRing, Ring, RingState
<1>3. CASE Fits(r, s)
  <2>1. Len(s) <= BufSz
    BY <1>1, <1>3, BufSzAssumption DEF Fits, Ring
  <2>2. Wrap(r.epoint + Len(s)) \in Index
    BY <1>1, <2>1, BufSzAssumption, WrapIsIndex DEF Ring, Index
  <2>3. r.datasz + Len(s) \in 0 .. BufSz
    BY <1>1, <1>3, BufSzAssumption DEF Fits, Ring
  <2>4. \A j \in Index : Offset(r, j) \in Index
    BY BufSzAssumption, WrapIsIndex DEF Ring, Index, Offset
  <2>. DEFINE Byte1(j) == IF Offset(r, j) < Len(s) THEN s[Offset(r, j) + 1] ELSE r.buf[j]
  <2>5. \A j \in Index : Byte1(j) \in Byte
    <3> TAKE j \in Index
    <3>1. CASE Offset(r, j) < Len(s)
      <4>1. Offset(r, j) + 1 \in 1 .. Len(s)
        BY <1>1, <2>4, <3>1, BufSzAssumption DEF Index
      <4> QED
        BY <3>1, <4>1
    <3>2. CASE ~(Offset(r, j) < Len(s))
      BY <3>2 DEF Ring
    <3> QED
      BY <3>1, <3>2
  <2>6. [j \in Index |-> IF Offset(r, j) < Len(s) THEN s[Offset(r, j) + 1] ELSE r.buf[j]]
          \in [Index -> Byte]
    BY <2>5
  <2> QED
    BY <1>3, <2>2, <2>3, <2>6 DEF PutRing, Ring, RingState
<1> QED
  BY <1>2, <1>3

(* get and seek stay inside the buffer. *)
LEMMA DropRingIsRing ==
  ASSUME NEW r \in Ring, NEW n \in Int, n <= r.datasz, r.datasz - n <= BufSz
  PROVE  DropRing(r, n) \in Ring
<1>1. Wrap(r.spoint + n) \in Index
  BY BufSzAssumption, WrapIsIndex DEF Ring, Index
<1>2. r.datasz - n \in 0 .. BufSz
  BY BufSzAssumption DEF Ring
<1> QED
  BY <1>1, <1>2 DEF DropRing, Ring

(* and leave epoint datasz bytes after spoint. *)
LEMMA DropKeepsCursors ==
  ASSUME NEW r \in Ring, NEW n \in Int, r.datasz - n \in 0 .. BufSz,
         r.epoint = Wrap(r.spoint + r.datasz)
  PROVE  DropRing(r, n).epoint = Wrap(DropRing(r, n).spoint + DropRing(r, n).datasz)
<1>1. /\ DropRing(r, n).spoint = Wrap(r.spoint + n)
      /\ DropRing(r, n).epoint = r.epoint
      /\ DropRing(r, n).datasz = r.datasz - n
  BY DEF DropRing, Ring
<1>2. r.spoint \in Index /\ r.datasz \in 0 .. BufSz
  BY DEF Ring
<1> QED
  BY <1>1, <1>2, WrapTwice
-----------------------------------------------------------------------------
(* The buffer read once round is a string of BufSz bytes. *)
LEMMA LastBytesIsSeq ==
  ASSUME NEW r \in Ring
  PROVE  /\ LastBytes(r) \in Seq(Byte)
         /\ Len(LastBytes(r)) = BufSz
         /\ \A i \in 1 .. BufSz : LastBytes(r)[i] = r.buf[Wrap(r.epoint + i - 1)]
<1>1. \A i \in 1 .. BufSz : Wrap(r.epoint + i - 1) \in Index
  BY BufSzAssumption, WrapIsIndex DEF Ring, Index
<1>2. LastBytes(r) \in [1 .. BufSz -> Byte]
  BY <1>1 DEF LastBytes, Ring
<1> QED
  BY <1>2, BufSzAssumption, FunctionIsSeq DEF LastBytes

(* A put appends to the tape: the oldest Len(s) bytes make room. *)
LEMMA PutIsAppend ==
  ASSUME NEW r \in Ring, NEW s \in Seq(Byte), Fits(r, s)
  PROVE  LastBytes(PutRing(r, s)) = SubSeq(LastBytes(r) \o s, Len(s) + 1, BufSz + Len(s))
<1> DEFINE old == LastBytes(r)
           new == LastBytes(PutRing(r, s))
           n   == Len(s)
           moved == SubSeq(old \o s, n + 1, BufSz + n)
<1>1. n \in 0 .. BufSz
  BY BufSzAssumption DEF Fits, Ring
<1>2. /\ old \in Seq(Byte) /\ Len(old) = BufSz
      /\ \A i \in 1 .. BufSz : old[i] = r.buf[Wrap(r.epoint + i - 1)]
  BY LastBytesIsSeq
<1>3. /\ new \in Seq(Byte) /\ Len(new) = BufSz
      /\ \A i \in 1 .. BufSz : new[i] = PutRing(r, s).buf[Wrap(PutRing(r, s).epoint + i - 1)]
  BY LastBytesIsSeq, PutRingIsRing
<1>4. /\ old \o s \in Seq(Byte) /\ Len(old \o s) = BufSz + n
      /\ \A i \in 1 .. BufSz + n : (old \o s)[i] = IF i <= BufSz THEN old[i] ELSE s[i - BufSz]
  BY <1>2, ConcatProperties
<1>5. /\ moved \in Seq(Byte) /\ Len(moved) = BufSz
      /\ \A i \in 1 .. BufSz : moved[i] = (old \o s)[n + i]
  <2> DEFINE w  == old \o s
             lo == n + 1
             hi == BufSz + n
  <2>1. \A i \in lo .. hi : w[i] \in Byte
    BY <1>1, <1>4, BufSzAssumption, ElementOfSeq
  <2>2. lo \in Int /\ hi \in Int /\ lo <= hi /\ hi - lo + 1 = BufSz
    BY <1>1, BufSzAssumption
  <2>3. \A i \in 1 .. BufSz : lo + i - 1 = n + i
    BY <1>1, BufSzAssumption
  <2>4. moved = SubSeq(w, lo, hi)
    OBVIOUS
  <2> HIDE DEF w, lo, hi, moved
  <2>5. moved \in Seq(Byte) /\ Len(moved) = BufSz /\ \A i \in 1 .. BufSz : moved[i] = w[lo + i - 1]
    BY <2>1, <2>2, <2>4, SubSeqProperties
  <2> QED
    BY <2>3, <2>5 DEF w
<1>6. ASSUME NEW i \in 1 .. BufSz PROVE new[i] = moved[i]
  <2> DEFINE j == Wrap(Wrap(r.epoint + n) + i - 1)
  <2>1. PutRing(r, s).epoint = Wrap(r.epoint + n)
    BY DEF PutRing, Ring
  <2>2. r.epoint \in 0 .. BufSz - 1
    BY DEF Ring, Index
  <2>3. j \in Index
    BY <1>1, <2>2, BufSzAssumption DEF Wrap, Index
  <2>4. new[i] = IF Offset(r, j) < n THEN s[Offset(r, j) + 1] ELSE r.buf[j]
    BY <1>3, <2>1, <2>3 DEF PutRing, Ring
  <2>5. CASE n + i <= BufSz
    <3>1. j = Wrap(r.epoint + (n + i) - 1)
      BY <1>1, <2>2, <2>5, BufSzAssumption DEF Wrap
    <3> DEFINE e == r.epoint
               k == n + i - 1
    <3>2. e \in 0 .. BufSz - 1 /\ k \in n .. BufSz - 1 /\ j = Wrap(e + k)
      BY <1>1, <2>2, <2>5, <3>1, BufSzAssumption
    <3> HIDE DEF e, k, j
    <3>3. Wrap(j - e) = k
      BY <1>1, <3>2, BufSzAssumption DEF Wrap
    <3>4. Offset(r, j) = n + i - 1
      BY <3>3 DEF Offset, e, k
    <3> USE DEF j
    <3> QED
      BY <1>1, <1>2, <1>4, <1>5, <2>4, <2>5, <3>1, <3>4, BufSzAssumption
  <2>6. CASE n + i > BufSz
    <3>1. Offset(r, j) = n + i - BufSz - 1
      BY <1>1, <2>2, <2>6, BufSzAssumption DEF Offset, Wrap
    <3>2. new[i] = s[n + i - BufSz]
      BY <1>1, <2>4, <2>6, <3>1, BufSzAssumption
    <3> QED
      BY <1>1, <1>4, <1>5, <2>6, <3>2, BufSzAssumption
  <2>7. n + i <= BufSz \/ n + i > BufSz
    BY <1>1, BufSzAssumption
  <2> QED
    BY <2>5, <2>6, <2>7
<1> QED
  BY <1>3, <1>5, <1>6, SeqEqual

(* Taking bytes, or seeking, leaves the tape alone. *)
LEMMA DropKeepsTape ==
  ASSUME NEW r \in Ring, NEW n \in Int
  PROVE  LastBytes(DropRing(r, n)) = LastBytes(r) /\ DropRing(r, n).datasz = r.datasz - n
BY DEF LastBytes, DropRing, Ring

(* What a get returns is the oldest unread part of the tape. *)
LEMMA ReadIsTape ==
  ASSUME NEW r \in Ring, r.epoint = Wrap(r.spoint + r.datasz), NEW n \in 0 .. r.datasz
  PROVE  ReadRing(r, n) = SubSeq(LastBytes(r), BufSz - r.datasz + 1, BufSz - r.datasz + n)
<1> DEFINE old == LastBytes(r)
           d   == r.datasz
           sub == SubSeq(old, BufSz - d + 1, BufSz - d + n)
<1>1. d \in 0 .. BufSz /\ n \in 0 .. BufSz /\ r.spoint \in 0 .. BufSz - 1
  BY BufSzAssumption DEF Ring, Index
<1>2. /\ old \in Seq(Byte) /\ Len(old) = BufSz
      /\ \A i \in 1 .. BufSz : old[i] = r.buf[Wrap(r.epoint + i - 1)]
  BY LastBytesIsSeq
<1>3. /\ sub \in Seq(Byte) /\ Len(sub) = n
      /\ \A i \in 1 .. n : sub[i] = old[BufSz - d + i]
  <2>1. \A i \in BufSz - d + 1 .. BufSz - d + n : old[i] \in Byte
    BY <1>1, <1>2, BufSzAssumption, ElementOfSeq
  <2> QED
    BY <1>1, <2>1, BufSzAssumption, SubSeqProperties
<1>4. ReadRing(r, n) \in Seq(Byte) /\ Len(ReadRing(r, n)) = n
  BY <1>1, ReadRingIsSeq
<1>5. ASSUME NEW i \in 1 .. n PROVE ReadRing(r, n)[i] = sub[i]
  <2>1. Wrap(r.epoint + (BufSz - d + i) - 1) = Wrap(r.spoint + i - 1)
    BY <1>1, BufSzAssumption DEF Wrap
  <2>2. sub[i] = r.buf[Wrap(r.epoint + (BufSz - d + i) - 1)]
    <3>1. BufSz - d + i \in 1 .. BufSz
      BY <1>1, BufSzAssumption
    <3> QED
      BY <1>2, <1>3, <3>1
  <2> QED
    BY <2>1, <2>2 DEF ReadRing
<1> QED
  BY <1>3, <1>4, <1>5, SeqEqual

LEMMA EmptyTape ==
  LastBytes(EmptyRing) = [i \in 1 .. BufSz |-> Nul] /\ EmptyRing.datasz = 0
BY BufSzAssumption DEF LastBytes, EmptyRing, Wrap, Index
=============================================================================
