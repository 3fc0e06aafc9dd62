---------------------------- MODULE StreamProofs ----------------------------
(***************************************************************************)
(* The mstream counts its lines right, finds each of them and keeps the    *)
(* promise of LineStream, for any buffer size, any longest line shorter    *)
(* than the buffer and any set of strings that are cut where put_mstream   *)
(* can count.  And a program that receives lines over TCP through one is   *)
(* given those that were sent, for any lines and any size of its buffer.   *)
(* Both components own an mstream and rest on the same lemmas about it:    *)
(* sb is that of the first, ms that of the second.                         *)
(***************************************************************************)
EXTENDS MessageStream, LineReceiver, RingOpsProofs, FiniteSetTheorems

(* What holds of the struct between two calls: npoint is behind the first   *)
(* line end, and that is less than a whole round ahead of spoint, so the    *)
(* difference of the two cursors is the length of the line.                 *)
Open(t)   == t # <<>> => t[Len(t)] # CR
FirstLine(r) == LET ends == LineEnds(Content(r))
                IN  ends # {} => /\ Min(ends) < BufSz
                                 /\ r.npoint = Wrap(r.spoint + Min(ends))

Sound(r) == /\ r \in Ring
            /\ r.epoint = Wrap(r.spoint + r.datasz)
            /\ Open(Content(r))
            /\ r.datano = Cardinality(LineEnds(Content(r)))
            /\ FirstLine(r)

IInv == Sound(sb)

(* The first line end of a text is less than a round ahead. *)
Near(t) == LineEnds(t) # {} => Min(LineEnds(t)) < BufSz
-----------------------------------------------------------------------------
(* The least of a set of numbers. *)
LEMMA MinIsLeast ==
  ASSUME NEW I \in SUBSET Nat, I # {}
  PROVE  Min(I) \in I /\ \A y \in I : Min(I) <= y
<1>1. PICK m \in I : \A y \in I : ~(<<y, m>> \in OpToRel(<, Nat))
  BY NatLessThanWellFounded, WFMin
<1>2. \A y \in I : y \in Nat /\ m \in Nat  OBVIOUS
<1>3. ASSUME NEW y \in I PROVE m <= y
  <2>1. y \in Nat /\ m \in Nat  BY <1>2
  <2>2. ~(y < m)  BY <1>1, <2>1 DEF OpToRel
  <2> QED BY <2>1, <2>2
<1> QED BY <1>3 DEF Min

LEMMA MinIs ==
  ASSUME NEW I \in SUBSET Nat, NEW m \in I, \A y \in I : m <= y
  PROVE  Min(I) = m
<1>1. Min(I) \in I /\ \A y \in I : Min(I) <= y  BY MinIsLeast
<1>2. Min(I) \in Nat /\ m \in Nat  BY <1>1
<1>3. Min(I) <= m /\ m <= Min(I)  BY <1>1
<1> QED BY <1>2, <1>3

(* Moving a set of numbers up by n keeps their number. *)
LEMMA ShiftKeepsCount ==
  ASSUME NEW n \in Nat, NEW I \in SUBSET Nat, IsFiniteSet(I)
  PROVE  /\ IsFiniteSet({n + i : i \in I})
         /\ Cardinality({n + i : i \in I}) = Cardinality(I)
<1> DEFINE J == {n + i : i \in I}
           f == [i \in I |-> n + i]
<1>0. \A i \in I : i \in Nat  OBVIOUS
<1>1. f \in [I -> J] /\ \A i \in I : f[i] = n + i  OBVIOUS
<1>2. \A j \in J : \E i \in I : f[i] = j  OBVIOUS
<1>3. \A i, k \in I : f[i] = f[k] => i = k
  <2> TAKE i, k \in I
  <2>1. i \in Nat /\ k \in Nat /\ f[i] = n + i /\ f[k] = n + k  BY <1>0, <1>1
  <2> QED BY <2>1
<1> HIDE DEF f, J
<1>4. f \in Bijection(I, J)
  BY <1>1, <1>2, <1>3 DEF Bijection, Injection, Surjection, IsInjective
<1>5. ExistsBijection(I, J)  BY <1>4 DEF ExistsBijection
<1>6. IsFiniteSet(J) /\ Cardinality(J) = Cardinality(I)  BY <1>5, FS_Bijection
<1> QED BY <1>6 DEF J

(* One division is one wrap for a cursor that is not two rounds ahead. *)
LEMMA ModIsWrap ==
  ASSUME NEW x \in 0 .. 2 * BufSz - 1
  PROVE  x % BufSz = Wrap(x)
BY BufSzAssumption DEF Wrap
-----------------------------------------------------------------------------
(* Where lines end. *)
LEMMA EndsAreFinite ==
  ASSUME NEW s \in Seq(Byte)
  PROVE  /\ LineEnds(s) \in SUBSET Nat /\ LineEnds(s) \in SUBSET (1 .. Len(s))
         /\ IsFiniteSet(LineEnds(s)) /\ Cardinality(LineEnds(s)) \in Nat
         /\ Cardinality(LineEnds(s)) = 0 <=> LineEnds(s) = {}
<1>1. Len(s) \in Nat  OBVIOUS
<1>2. LineEnds(s) \in SUBSET (1 .. Len(s))  BY DEF LineEnds
<1>3. LineEnds(s) \in SUBSET Nat  BY <1>1, <1>2
<1>4. IsFiniteSet(1 .. Len(s))  BY <1>1, FS_Interval
<1>5. IsFiniteSet(LineEnds(s))  BY <1>2, <1>4, FS_Subset
<1> QED BY <1>2, <1>3, <1>5, FS_CardinalityType, FS_EmptySet

(* Strings that are not cut behind a CR are counted one after the other. *)
LEMMA EndsOfConcat ==
  ASSUME NEW t \in Seq(Byte), NEW s \in Seq(Byte), t # <<>> => t[Len(t)] # CR
  PROVE  LineEnds(t \o s) = LineEnds(t) \cup {Len(t) + i : i \in LineEnds(s)}
<1> DEFINE n == Len(t)
           m == Len(s)
           c == t \o s
<1>1. /\ n \in Nat /\ m \in Nat /\ Len(c) = n + m
      /\ \A i \in 1 .. n + m : c[i] = IF i <= n THEN t[i] ELSE s[i - n]
  BY ConcatProperties
<1>2. n = 0 \/ t[n] # CR  BY EmptySeq
<1>3. CR # LF  BY NewlineAssumption
<1>4. \A i : i \in LineEnds(t) <=> i \in 1 .. n /\ (t[i] = LF \/ (t[i] = CR /\ ~(i < n /\ t[i + 1] = LF)))
  BY DEF LineEnds
<1>5. \A i : i \in LineEnds(s) <=> i \in 1 .. m /\ (s[i] = LF \/ (s[i] = CR /\ ~(i < m /\ s[i + 1] = LF)))
  BY DEF LineEnds
<1>6. \A i : i \in LineEnds(c) <=>
        i \in 1 .. n + m /\ (c[i] = LF \/ (c[i] = CR /\ ~(i < n + m /\ c[i + 1] = LF)))
  BY <1>1 DEF LineEnds
<1> HIDE DEF n, m, c
<1>7. ASSUME NEW i \in 1 .. n PROVE i \in LineEnds(c) <=> i \in LineEnds(t)
  <2>1. i \in 1 .. n + m /\ c[i] = t[i]  BY <1>1
  <2>2. i < n => i + 1 \in 1 .. n + m /\ c[i + 1] = t[i + 1]  BY <1>1
  <2>3. i = n => t[i] # CR  BY <1>1, <1>2
  <2>4. i < n \/ i = n  BY <1>1
  <2>5. i < n => i < n + m  BY <1>1
  <2> QED BY <1>4, <1>6, <2>1, <2>2, <2>3, <2>4, <2>5
<1>8. ASSUME NEW i \in 1 .. m PROVE n + i \in LineEnds(c) <=> i \in LineEnds(s)
  <2>1. n + i \in 1 .. n + m /\ c[n + i] = s[i]  BY <1>1
  <2>2. i < m => n + i + 1 \in 1 .. n + m /\ c[n + i + 1] = s[i + 1]  BY <1>1
  <2>3. i < m <=> n + i < n + m  BY <1>1
  <2> QED BY <1>5, <1>6, <2>1, <2>2, <2>3
<1>9. LineEnds(c) \subseteq 1 .. n + m /\ LineEnds(t) \subseteq 1 .. n /\ LineEnds(s) \subseteq 1 .. m
  BY <1>4, <1>5, <1>6
<1>10. ASSUME NEW j \in LineEnds(c) PROVE j \in LineEnds(t) \/ \E i \in LineEnds(s) : j = n + i
  <2>1. j \in 1 .. n + m  BY <1>9
  <2>2. CASE j <= n  BY <1>1, <1>7, <2>1, <2>2
  <2>3. CASE j > n
    <3>1. j - n \in 1 .. m /\ n + (j - n) = j  BY <1>1, <2>1, <2>3
    <3>2. j - n \in LineEnds(s)  BY <1>8, <3>1
    <3> QED BY <3>1, <3>2
  <2> QED BY <1>1, <2>1, <2>2, <2>3
<1>11. \A i \in LineEnds(t) : i \in LineEnds(c)  BY <1>7, <1>9
<1>12. \A i \in LineEnds(s) : n + i \in LineEnds(c)  BY <1>8, <1>9
<1>13. LineEnds(c) = LineEnds(t) \cup {n + i : i \in LineEnds(s)}
  BY <1>10, <1>11, <1>12
<1> QED BY <1>13 DEF n, c

(* and their numbers add up. *)
LEMMA EndsAddUp ==
  ASSUME NEW t \in Seq(Byte), NEW s \in Seq(Byte), t # <<>> => t[Len(t)] # CR
  PROVE  Cardinality(LineEnds(t \o s)) = Cardinality(LineEnds(t)) + Cardinality(LineEnds(s))
<1> DEFINE J == {Len(t) + i : i \in LineEnds(s)}
           A == LineEnds(t)
<1>0. Len(t) \in Nat  OBVIOUS
<1>1. IsFiniteSet(J) /\ Cardinality(J) = Cardinality(LineEnds(s))
  BY <1>0, EndsAreFinite, ShiftKeepsCount
<1>2. IsFiniteSet(A) /\ Cardinality(A) \in Nat /\ Cardinality(LineEnds(s)) \in Nat
  BY EndsAreFinite
<1>3. A \cap J = {}
  <2>1. \A i \in A : i <= Len(t)  BY <1>0 DEF LineEnds
  <2>2. \A i \in LineEnds(s) : i \in Nat /\ Len(t) + i > Len(t)
    <3>1. \A i \in LineEnds(s) : i \in 1 .. Len(s)  BY DEF LineEnds
    <3>2. Len(s) \in Nat  OBVIOUS
    <3> QED BY <1>0, <3>1, <3>2
  <2>3. \A i \in A : i \in Nat  BY EndsAreFinite
  <2> HIDE DEF A
  <2> QED BY <1>0, <2>1, <2>2, <2>3
<1>4. LineEnds(t \o s) = A \cup J  BY EndsOfConcat
<1> HIDE DEF A, J
<1>5. Cardinality(A \cup J) = Cardinality(A) + Cardinality(J) - Cardinality(A \cap J)
  BY <1>1, <1>2, FS_Union
<1>6. Cardinality(A \cap J) = 0  BY <1>3, FS_EmptySet
<1> QED BY <1>1, <1>2, <1>4, <1>5, <1>6 DEF A

(* Behind any position n the line ends of t are those of the rest of t. *)
LEMMA EndsOfRest ==
  ASSUME NEW t \in Seq(Byte), NEW n \in 0 .. Len(t)
  PROVE  LET rest == SubSeq(t, n + 1, Len(t))
         IN  /\ rest \in Seq(Byte) /\ Len(rest) = Len(t) - n
             /\ \A i \in 1 .. Len(t) - n : rest[i] = t[n + i]
             /\ \A i \in 1 .. Len(t) - n : i \in LineEnds(rest) <=> n + i \in LineEnds(t)
<1> DEFINE rest == SubSeq(t, n + 1, Len(t))
           m == Len(t)
<1>1. m \in Nat /\ n \in 0 .. m /\ \A i \in n + 1 .. m : t[i] \in Byte  OBVIOUS
<1>2. /\ rest \in Seq(Byte) /\ Len(rest) = m - n
      /\ \A i \in 1 .. m - n : rest[i] = t[n + i]
  <2>1. n + 1 \in Int /\ m \in Int /\ (n + 1 <= m => m - (n + 1) + 1 = m - n) /\ (~(n + 1 <= m) => m - n = 0)
        /\ m - (n + 1) + 1 = m - n /\ \A i \in 1 .. m - n : n + 1 + i - 1 = n + i
    BY <1>1
  <2>2. rest = SubSeq(t, n + 1, m)  OBVIOUS
  <2> HIDE DEF rest, m
  <2>3. /\ rest \in Seq(Byte) /\ Len(rest) = (IF n + 1 <= m THEN m - (n + 1) + 1 ELSE 0)
        /\ \A i \in 1 .. m - (n + 1) + 1 : rest[i] = t[n + 1 + i - 1]
    BY <1>1, <2>1, <2>2, SubSeqProperties
  <2> QED BY <1>1, <2>1, <2>3
<1>3. \A i : i \in LineEnds(t) <=> i \in 1 .. m /\ (t[i] = LF \/ (t[i] = CR /\ ~(i < m /\ t[i + 1] = LF)))
  BY DEF LineEnds
<1>4. \A i : i \in LineEnds(rest) <=>
        i \in 1 .. m - n /\ (rest[i] = LF \/ (rest[i] = CR /\ ~(i < m - n /\ rest[i + 1] = LF)))
  BY <1>2 DEF LineEnds
<1> HIDE DEF rest, m
<1>5. ASSUME NEW i \in 1 .. m - n PROVE i \in LineEnds(rest) <=> n + i \in LineEnds(t)
  <2>1. n + i \in 1 .. m /\ rest[i] = t[n + i] /\ (i < m - n <=> n + i < m)  BY <1>1, <1>2
  <2>2. i < m - n => i + 1 \in 1 .. m - n /\ rest[i + 1] = t[n + i + 1]  BY <1>1, <1>2
  <2> QED BY <1>3, <1>4, <2>1, <2>2
<1> QED BY <1>2, <1>5 DEF rest, m

(* With the first line gone one line end less is left. *)
LEMMA EndsBehindFirst ==
  ASSUME NEW t \in Seq(Byte), LineEnds(t) # {}
  PROVE  LET n == Min(LineEnds(t))
             rest == SubSeq(t, n + 1, Len(t))
         IN  /\ n \in 1 .. Len(t)
             /\ Cardinality(LineEnds(rest)) = Cardinality(LineEnds(t)) - 1
<1> DEFINE n == Min(LineEnds(t))
           rest == SubSeq(t, n + 1, Len(t))
           J == {n + i : i \in LineEnds(rest)}
<1>1. n \in LineEnds(t) /\ \A i \in LineEnds(t) : n <= i  BY EndsAreFinite, MinIsLeast
<1>2. n \in 1 .. Len(t) /\ Len(t) \in Nat  BY <1>1, EndsAreFinite
<1>3. /\ rest \in Seq(Byte) /\ Len(rest) = Len(t) - n
      /\ \A i \in 1 .. Len(t) - n : i \in LineEnds(rest) <=> n + i \in LineEnds(t)
  <2>1. n \in 0 .. Len(t)  BY <1>2
  <2> HIDE DEF n
  <2> QED BY <2>1, EndsOfRest
<1>4. \A i \in LineEnds(t) : i \in 1 .. Len(t)  BY EndsAreFinite
<1>5. \A i \in LineEnds(rest) : i \in 1 .. Len(t) - n  BY <1>3, EndsAreFinite
<1> HIDE DEF n, rest
<1>6. ASSUME NEW i \in LineEnds(t) PROVE i = n \/ i \in J
  <2>1. i \in 1 .. Len(t) /\ n <= i  BY <1>1, <1>4
  <2>2. CASE i # n
    <3>1. i - n \in 1 .. Len(t) - n /\ n + (i - n) = i  BY <1>2, <2>1, <2>2
    <3>2. i - n \in LineEnds(rest)  BY <1>3, <3>1
    <3> QED BY <3>1, <3>2
  <2> QED BY <2>2
<1>7. \A i \in LineEnds(rest) : n + i \in LineEnds(t) /\ n + i # n
  <2> TAKE i \in LineEnds(rest)
  <2>1. i \in 1 .. Len(t) - n  BY <1>5
  <2> QED BY <1>2, <1>3, <2>1
<1>8. LineEnds(t) \ {n} = J  BY <1>6, <1>7
<1>9. IsFiniteSet(LineEnds(t)) /\ Cardinality(LineEnds(t)) \in Nat  BY EndsAreFinite
<1>10. Cardinality(J) = Cardinality(LineEnds(rest))
  <2>1. n \in Nat  BY <1>2
  <2> QED BY <1>3, <2>1, EndsAreFinite, ShiftKeepsCount
<1> HIDE DEF J
<1>11. Cardinality(LineEnds(t) \ {n}) = Cardinality(LineEnds(t)) - 1  BY <1>1, <1>9, FS_RemoveElement
<1> QED BY <1>2, <1>8, <1>10, <1>11 DEF n, rest
-----------------------------------------------------------------------------
(* The unread bytes of a ring. *)
LEMMA ContentIsSeq ==
  ASSUME NEW r \in Ring
  PROVE  /\ Content(r) \in Seq(Byte) /\ Len(Content(r)) = r.datasz
         /\ \A i \in 1 .. r.datasz : Content(r)[i] = r.buf[Wrap(r.spoint + i - 1)]
<1>1. r.datasz \in 0 .. BufSz  BY DEF Ring
<1> QED BY <1>1, ReadRingIsSeq DEF Content, ReadRing

(* A put appends to them, *)
LEMMA ContentOfPut ==
  ASSUME NEW r \in Ring, r.epoint = Wrap(r.spoint + r.datasz), NEW s \in Seq(Byte), Fits(r, s)
  PROVE  Content(PutRing(r, s)) = Content(r) \o s
<1> DEFINE d == r.datasz
           m == Len(s)
           p == PutRing(r, s)
           sp == r.spoint
<1>1. /\ d \in 0 .. BufSz /\ m \in Nat /\ d + m <= BufSz /\ sp \in 0 .. BufSz - 1
      /\ r.epoint = Wrap(sp + d)
  BY BufSzAssumption DEF Fits, Ring, Index
<1>2. /\ p \in Ring /\ p.datasz = d + m /\ p.spoint = sp
      /\ \A j \in Index : p.buf[j] = IF Offset(r, j) < m THEN s[Offset(r, j) + 1] ELSE r.buf[j]
  BY PutRingIsRing DEF PutRing, Ring
<1>3. /\ Content(p) \in Seq(Byte) /\ Len(Content(p)) = d + m
      /\ \A i \in 1 .. d + m : Content(p)[i] = p.buf[Wrap(sp + i - 1)]
  BY <1>2, ContentIsSeq
<1>4. /\ Content(r) \in Seq(Byte) /\ Len(Content(r)) = d
      /\ \A i \in 1 .. d : Content(r)[i] = r.buf[Wrap(sp + i - 1)]
  BY ContentIsSeq
<1>5. /\ Content(r) \o s \in Seq(Byte) /\ Len(Content(r) \o s) = d + m
      /\ \A i \in 1 .. d + m : (Content(r) \o s)[i] = IF i <= d THEN Content(r)[i] ELSE s[i - d]
  <2> DEFINE t == Content(r)
  <2>1. t \in Seq(Byte) /\ Len(t) = d  BY <1>4
  <2> HIDE DEF t, d
  <2>2. /\ t \o s \in Seq(Byte) /\ Len(t \o s) = d + m
        /\ \A i \in 1 .. d + m : (t \o s)[i] = IF i <= d THEN t[i] ELSE s[i - d]
    BY <2>1, ConcatProperties
  <2> QED BY <2>2 DEF t
<1>6. ASSUME NEW i \in 1 .. d + m PROVE Content(p)[i] = (Content(r) \o s)[i]
  <2> DEFINE j == Wrap(sp + i - 1)
  <2>1. j \in Index  BY <1>1, BufSzAssumption DEF Wrap, Index
  <2>2. Offset(r, j) = IF i <= d THEN BufSz - d + i - 1 ELSE i - d - 1
    <3> HIDE DEF d, m, sp
    <3>1. Wrap(Wrap(sp + i - 1) - Wrap(sp + d)) = IF i <= d THEN BufSz - d + i - 1 ELSE i - d - 1
      BY <1>1, BufSzAssumption DEF Wrap
    <3> QED BY <1>1, <3>1 DEF Offset
  <2>3. Content(p)[i] = IF Offset(r, j) < m THEN s[Offset(r, j) + 1] ELSE r.buf[j]
    BY <1>2, <1>3, <2>1
  <2>4. (Content(r) \o s)[i] = IF i <= d THEN r.buf[j] ELSE s[i - d]
    <3>1. i <= d => i \in 1 .. d  BY <1>1
    <3> QED BY <1>4, <1>5, <3>1
  <2> HIDE DEF d, m, p, j
  <2>5. i <= d => ~(BufSz - d + i - 1 < m)  BY <1>1, BufSzAssumption
  <2>6. ~(i <= d) => i - d - 1 < m /\ i - d - 1 + 1 = i - d  BY <1>1, BufSzAssumption
  <2> QED BY <2>2, <2>3, <2>4, <2>5, <2>6
<1> QED BY <1>3, <1>5, <1>6, SeqEqual

(* and taking n of them leaves the rest. *)
LEMMA ContentOfDrop ==
  ASSUME NEW r \in Ring, NEW n \in 0 .. r.datasz
  PROVE  Content(DropRing(r, n)) = SubSeq(Content(r), n + 1, Len(Content(r)))
<1> DEFINE d == r.datasz
           q == DropRing(r, n)
           t == Content(r)
           rest == SubSeq(t, n + 1, Len(t))
           sp == r.spoint
<1>1. d \in 0 .. BufSz /\ n \in 0 .. d /\ sp \in 0 .. BufSz - 1
  BY BufSzAssumption DEF Ring, Index
<1>2. q \in Ring /\ q.datasz = d - n /\ q.spoint = Wrap(sp + n) /\ q.buf = r.buf
  <2>1. n \in Int /\ n <= d /\ d - n <= BufSz  BY <1>1, BufSzAssumption
  <2>2. q \in Ring  BY <2>1, DropRingIsRing
  <2> QED BY <2>2 DEF DropRing, Ring
<1>3. /\ Content(q) \in Seq(Byte) /\ Len(Content(q)) = d - n
      /\ \A i \in 1 .. d - n : Content(q)[i] = r.buf[Wrap(Wrap(sp + n) + i - 1)]
  BY <1>2, ContentIsSeq
<1>4. t \in Seq(Byte) /\ Len(t) = d /\ \A i \in 1 .. d : t[i] = r.buf[Wrap(sp + i - 1)]
  BY ContentIsSeq
<1> HIDE DEF d, q, t, sp
<1>5. rest \in Seq(Byte) /\ Len(rest) = d - n /\ \A i \in 1 .. d - n : rest[i] = t[n + i]
  BY <1>1, <1>4, EndsOfRest
<1>6. ASSUME NEW i \in 1 .. d - n PROVE Content(q)[i] = rest[i]
  <2>1. n + i \in 1 .. d /\ Wrap(Wrap(sp + n) + i - 1) = Wrap(sp + (n + i) - 1)
    BY <1>1, BufSzAssumption DEF Wrap
  <2> QED BY <1>3, <1>4, <1>5, <2>1
<1> QED BY <1>3, <1>5, <1>6, SeqEqual DEF q, t
-----------------------------------------------------------------------------
(* The state of the stream is no part of what is kept in it. *)
LEMMA StateIsApart ==
  ASSUME NEW r, Sound(r), NEW st \in RingState
  PROVE  LET q == [r EXCEPT !.state = st]
         IN  Sound(q) /\ Content(q) = Content(r) /\ q.state = st
<1> DEFINE q == [r EXCEPT !.state = st]
<1>1. r \in Ring  BY DEF Sound
<1>2. /\ q \in Ring /\ q.buf = r.buf /\ q.spoint = r.spoint /\ q.epoint = r.epoint
      /\ q.datasz = r.datasz /\ q.npoint = r.npoint /\ q.datano = r.datano /\ q.state = st
  BY <1>1 DEF Ring
<1> HIDE DEF q
<1>3. Content(q) = Content(r)  BY <1>2 DEF Content, ReadRing
<1>4. Sound(q)  BY <1>2, <1>3 DEF Sound, FirstLine
<1> QED BY <1>2, <1>3, <1>4 DEF q

(* get_mstream's search of the buffer finds the line ends of what is left:  *)
(* the byte behind the last one is looked at only behind a CR.              *)
LEMMA ScanFindsEnds ==
  ASSUME NEW r \in Ring, r.epoint = Wrap(r.spoint + r.datasz), r.datasz < BufSz,
         Open(Content(r))
  PROVE  /\ ScanEnds(r) \in SUBSET Nat
         /\ \A k \in Nat : k \in ScanEnds(r) <=> k + 1 \in LineEnds(Content(r))
<1> DEFINE d == r.datasz
           sp == r.spoint
           t == Content(r)
           At(k) == r.buf[Wrap(sp + k)]
<1>1. d \in 0 .. BufSz - 1 /\ sp \in 0 .. BufSz - 1 /\ r.epoint = Wrap(sp + d)
  BY BufSzAssumption DEF Ring, Index
<1>2. Wrap(r.epoint - sp) = d
  <2> HIDE DEF d, sp
  <2> QED BY <1>1, BufSzAssumption DEF Wrap
<1>3. t \in Seq(Byte) /\ Len(t) = d /\ \A i \in 1 .. d : t[i] = r.buf[Wrap(sp + i - 1)]
  BY ContentIsSeq
<1>4. \A k : k \in ScanEnds(r) <=>
        /\ k \in 0 .. d - 1
        /\ At(k) = LF \/ (At(k) = CR /\ r.buf[Wrap(Wrap(sp + k) + 1)] # LF)
  BY <1>2 DEF ScanEnds
<1>5. \A i : i \in LineEnds(t) <=> i \in 1 .. d /\ (t[i] = LF \/ (t[i] = CR /\ ~(i < d /\ t[i + 1] = LF)))
  BY <1>3 DEF LineEnds
<1>6. d # 0 => t[d] # CR  BY <1>1, <1>3 DEF Open
<1> HIDE DEF d, sp, t
<1>7. ASSUME NEW k \in Nat PROVE k \in ScanEnds(r) <=> k + 1 \in LineEnds(t)
  <2>1. CASE k \in 0 .. d - 1
    <3>1. k + 1 \in 1 .. d /\ sp + (k + 1) - 1 = sp + k  BY <1>1, <2>1
    <3>2. t[k + 1] = At(k)  BY <1>3, <3>1
    <3>3. CASE k + 1 = d
      BY <1>4, <1>5, <1>6, <2>1, <3>1, <3>2, <3>3
    <3>4. CASE k + 1 # d
      <4>1. k + 1 < d /\ k + 2 \in 1 .. d /\ k + 1 + 1 = k + 2  BY <1>1, <2>1, <3>4
      <4>2. Wrap(Wrap(sp + k) + 1) = Wrap(sp + (k + 2) - 1)
        BY <1>1, <2>1, <4>1, BufSzAssumption DEF Wrap
      <4>3. t[k + 1 + 1] = r.buf[Wrap(Wrap(sp + k) + 1)]  BY <1>3, <4>1, <4>2
      <4> HIDE DEF At
      <4> QED BY <1>4, <1>5, <2>1, <3>1, <3>2, <4>1, <4>3
    <3> QED BY <3>3, <3>4
  <2>2. CASE k \notin 0 .. d - 1
    <3>1. k + 1 \notin 1 .. d  BY <1>1, <2>2
    <3> QED BY <1>4, <1>5, <2>2, <3>1
  <2> QED BY <2>1, <2>2
<1>8. ScanEnds(r) \in SUBSET Nat  BY <1>1, <1>4
<1> QED BY <1>7, <1>8 DEF t

(* so the next npoint is behind the first of them. *)
LEMMA RescanIsSound ==
  ASSUME NEW r \in Ring, r.epoint = Wrap(r.spoint + r.datasz), r.datasz < BufSz,
         Open(Content(r)), r.datano = Cardinality(LineEnds(Content(r)))
  PROVE  Sound(Rescan(r)) /\ Content(Rescan(r)) = Content(r) /\ Rescan(r).state = r.state
<1> DEFINE t == Content(r)
           n == Min(LineEnds(t))
           q == [r EXCEPT !.npoint = Wrap(r.spoint + n)]
<1>1. t \in Seq(Byte) /\ Len(t) = r.datasz /\ r.datasz \in 0 .. BufSz  BY ContentIsSeq DEF Ring
<1>2. Cardinality(LineEnds(t)) \in Nat /\ (Cardinality(LineEnds(t)) = 0 <=> LineEnds(t) = {})
  BY <1>1, EndsAreFinite
<1>3. CASE LineEnds(t) = {}
  <2>1. Rescan(r) = r  BY <1>2, <1>3 DEF Rescan
  <2>2. FirstLine(r)  BY <1>3 DEF FirstLine
  <2> QED BY <2>1, <2>2 DEF Sound
<1>4. CASE LineEnds(t) # {}
  <2>1. n \in LineEnds(t) /\ \A i \in LineEnds(t) : n <= i  BY <1>1, <1>4, EndsAreFinite, MinIsLeast
  <2>2. n \in 1 .. r.datasz  BY <1>1, <2>1, EndsAreFinite
  <2>3. n < BufSz /\ n - 1 \in Nat /\ n - 1 + 1 = n  BY <1>1, <2>2, BufSzAssumption
  <2> HIDE DEF n
  <2>4. ScanEnds(r) \in SUBSET Nat /\ \A k \in Nat : k \in ScanEnds(r) <=> k + 1 \in LineEnds(t)
    BY ScanFindsEnds
  <2>5. n - 1 \in ScanEnds(r)  BY <2>1, <2>3, <2>4
  <2>6. \A k \in ScanEnds(r) : n - 1 <= k
    <3> TAKE k \in ScanEnds(r)
    <3>1. k \in Nat /\ k + 1 \in LineEnds(t)  BY <2>4
    <3>2. n <= k + 1  BY <2>1, <3>1
    <3> QED BY <2>3, <3>1, <3>2
  <2>7. Min(ScanEnds(r)) = n - 1  BY <2>4, <2>5, <2>6, MinIs
  <2>8. r.spoint + Min(ScanEnds(r)) + 1 = r.spoint + n /\ r.spoint \in 0 .. BufSz - 1
    BY <2>3, <2>7, BufSzAssumption DEF Ring, Index
  <2>9. r.datano >= 1 /\ ScanEnds(r) # {}  BY <1>2, <1>4, <2>5
  <2>10. Rescan(r) = q  BY <2>8, <2>9 DEF Rescan
  <2>11. Wrap(r.spoint + n) \in Index  BY <2>3, <2>8, BufSzAssumption DEF Wrap, Index
  <2>12. /\ q \in Ring /\ q.buf = r.buf /\ q.spoint = r.spoint /\ q.epoint = r.epoint
         /\ q.datasz = r.datasz /\ q.npoint = Wrap(r.spoint + n) /\ q.datano = r.datano
         /\ q.state = r.state
    BY <2>11 DEF Ring
  <2> HIDE DEF q
  <2>13. Content(q) = t  BY <2>12 DEF Content, ReadRing
  <2>14. FirstLine(q)  BY <2>3, <2>12, <2>13 DEF FirstLine, n
  <2>15. Sound(q)  BY <2>12, <2>13, <2>14 DEF Sound
  <2> QED BY <2>10, <2>12, <2>13, <2>15
<1> QED BY <1>3, <1>4
-----------------------------------------------------------------------------
(* A line that is counted can be taken, *)
LEMMA LineIsThere ==
  ASSUME NEW r, Sound(r)
  PROVE  LET t == Content(r)
             n == Min(LineEnds(t))
         IN  /\ HasLine(r) <=> LineEnds(t) # {}
             /\ r.datano = 0 <=> LineEnds(t) = {}
             /\ LineEnds(t) # {} => /\ NextLen(r) = n /\ n \in 1 .. r.datasz /\ n \in LineEnds(t)
                                    /\ r.npoint = Wrap(r.spoint + n)
<1> DEFINE t == Content(r)
           n == Min(LineEnds(t))
<1>1. /\ r \in Ring /\ r.datano = Cardinality(LineEnds(t)) /\ FirstLine(r)
      /\ t \in Seq(Byte) /\ Len(t) = r.datasz
  BY ContentIsSeq DEF Sound
<1>2. r.datano = 0 <=> LineEnds(t) = {}  BY <1>1, EndsAreFinite
<1>3. ASSUME LineEnds(t) # {}
      PROVE  NextLen(r) = n /\ n \in 1 .. r.datasz /\ n \in LineEnds(t) /\ r.npoint = Wrap(r.spoint + n)
  <2>1. n \in LineEnds(t)  BY <1>1, <1>3, EndsAreFinite, MinIsLeast
  <2>2. n \in 1 .. r.datasz /\ n < BufSz /\ r.npoint = Wrap(r.spoint + n)
    BY <1>1, <1>3, <2>1, EndsAreFinite DEF FirstLine
  <2>3. r.spoint \in 0 .. BufSz - 1 /\ r.datasz \in 0 .. BufSz  BY <1>1 DEF Ring, Index
  <2> HIDE DEF n, t
  <2>4. NextLen(r) = n  BY <2>2, <2>3, BufSzAssumption DEF NextLen, Wrap
  <2> QED BY <2>1, <2>2, <2>4
<1>4. HasLine(r) <=> LineEnds(t) # {}
  <2>1. r.datasz \in 0 .. BufSz  BY <1>1 DEF Ring
  <2> HIDE DEF n, t
  <2> QED BY <1>2, <1>3, <2>1, BufSzAssumption DEF HasLine
<1> QED BY <1>2, <1>3, <1>4

(* it is read from the buffer, *)
LEMMA LineIsRead ==
  ASSUME NEW r, Sound(r), LineEnds(Content(r)) # {}
  PROVE  NextLine(r) = Chomp(SubSeq(Content(r), 1, Min(LineEnds(Content(r)))))
<1> DEFINE t == Content(r)
           n == Min(LineEnds(t))
           s == SubSeq(t, 1, n)
<1>1. r \in Ring /\ t \in Seq(Byte) /\ Len(t) = r.datasz
      /\ \A i \in 1 .. r.datasz : t[i] = r.buf[Wrap(r.spoint + i - 1)]
  BY ContentIsSeq DEF Sound
<1>2. NextLen(r) = n /\ n \in 1 .. r.datasz /\ r.datasz \in 0 .. BufSz
  BY <1>1, LineIsThere DEF Ring
<1> HIDE DEF n, t
<1>3. n \in 0 .. BufSz  BY <1>2, BufSzAssumption
<1>4. s \in Seq(Byte) /\ Len(s) = n /\ \A i \in 1 .. n : s[i] = t[i]
  BY <1>1, <1>2, SubSeqProperties
<1>5. ReadRing(r, n) \in Seq(Byte) /\ Len(ReadRing(r, n)) = n
      /\ \A i \in 1 .. n : ReadRing(r, n)[i] = r.buf[Wrap(r.spoint + i - 1)]
  <2>1. ReadRing(r, n) \in Seq(Byte) /\ Len(ReadRing(r, n)) = n  BY <1>1, <1>3, ReadRingIsSeq
  <2> QED BY <2>1 DEF ReadRing
<1>6. ReadRing(r, n) = s
  <2>1. \A i \in 1 .. n : i \in 1 .. r.datasz  BY <1>2
  <2>2. \A i \in 1 .. n : ReadRing(r, n)[i] = s[i]  BY <1>1, <1>4, <1>5, <2>1
  <2> QED BY <1>4, <1>5, <2>2, SeqEqual
<1> QED BY <1>2, <1>6 DEF NextLine, s, n, t

(* it is cut off at its first CR or LF, *)
LEMMA LineIsStripped ==
  ASSUME NEW r, Sound(r), LineEnds(Content(r)) # {}
  PROVE  NextLine(r) = Lines!Strip(SubSeq(Content(r), 1, Min(LineEnds(Content(r)))))
<1> DEFINE t == Content(r)
           n == Min(LineEnds(t))
           s == SubSeq(t, 1, n)
           I == {i \in 1 .. Len(s) : s[i] \in {CR, LF}}
<1>1. t \in Seq(Byte) /\ Len(t) = r.datasz  BY ContentIsSeq DEF Sound
<1>2. n \in 1 .. r.datasz /\ n \in LineEnds(t)  BY LineIsThere
<1>3. t[n] \in {CR, LF}  BY <1>2 DEF LineEnds
<1>4. NextLine(r) = Chomp(s)  BY LineIsRead
<1> HIDE DEF n, t
<1>5. s \in Seq(Byte) /\ Len(s) = n /\ \A i \in 1 .. n : s[i] = t[i]
  BY <1>1, <1>2, SubSeqProperties
<1>6. n \in I  BY <1>2, <1>3, <1>5
<1>7. Min(I) # 0
  <2>1. \A i \in I : i \in Nat /\ i # 0  BY <1>5
  <2> HIDE DEF I
  <2>2. I \in SUBSET Nat /\ I # {}  BY <1>6, <2>1
  <2> QED BY <2>1, <2>2, MinIsLeast
<1> HIDE DEF s
<1>8. SelectInSeq(s, LAMBDA c : c \in {CR, LF}) = Min(I)  BY <1>6 DEF SelectInSeq
<1>9. Lines!SelectInSeq(s, LAMBDA c : c \in {CR, LF}) = Min(I)
  BY <1>6 DEF Lines!SelectInSeq, Lines!Min, Min
<1>10. Chomp(s) = SubSeq(s, 1, Min(I) - 1)  BY <1>7, <1>8 DEF Chomp
<1>11. Lines!Strip(s) = SubSeq(s, 1, Min(I) - 1)  BY <1>9 DEF Lines!Strip
<1> QED BY <1>4, <1>10, <1>11 DEF s, n, t

(* and the rest stays, counted and with its first line marked. *)
LEMMA GetIsSound ==
  ASSUME NEW r, Sound(r)
  PROVE  LET t == Content(r)
             n == Min(LineEnds(t))
             q == GetStream(r)
         IN  /\ Sound(q)
             /\ q.state = "NORMAL"
             /\ Content(q) = IF LineEnds(t) = {} THEN t ELSE SubSeq(t, n + 1, Len(t))
<1> DEFINE t == Content(r)
           n == Min(LineEnds(t))
           rest == SubSeq(t, n + 1, Len(t))
           d == DropRing(r, n)
           q == LineTaken(r)
<1>1. /\ r \in Ring /\ r.epoint = Wrap(r.spoint + r.datasz) /\ Open(t)
      /\ r.datano = Cardinality(LineEnds(t)) /\ r.datasz \in 0 .. BufSz
      /\ t \in Seq(Byte) /\ Len(t) = r.datasz
  BY ContentIsSeq DEF Sound, Ring
<1>2. CASE LineEnds(t) = {}
  <2>1. GetStream(r) = [r EXCEPT !.state = "NORMAL"]  BY <1>2, LineIsThere DEF GetStream
  <2>2. "NORMAL" \in RingState  BY DEF RingState
  <2> QED BY <1>2, <2>1, <2>2, StateIsApart
<1>3. CASE LineEnds(t) # {}
  <2>1. GetStream(r) = Rescan(q)  BY <1>3, LineIsThere DEF GetStream
  <2>2. /\ NextLen(r) = n /\ n \in 1 .. r.datasz /\ r.npoint = Wrap(r.spoint + n)
        /\ Cardinality(LineEnds(t)) \in Nat
    BY <1>1, <1>3, LineIsThere, EndsAreFinite
  <2>3. Cardinality(LineEnds(rest)) = Cardinality(LineEnds(t)) - 1
    BY <1>1, <1>3, EndsBehindFirst
  <2> HIDE DEF n
  <2>4. n \in Int /\ n <= r.datasz /\ r.datasz - n \in 0 .. BufSz - 1 /\ n \in 0 .. r.datasz
    BY <1>1, <2>2, BufSzAssumption
  <2>5. d \in Ring /\ d.epoint = Wrap(d.spoint + d.datasz) /\ Content(d) = rest
    <3>1. r.datasz - n <= BufSz /\ r.datasz - n \in 0 .. BufSz  BY <2>4, BufSzAssumption
    <3> QED BY <1>1, <2>4, <3>1, DropRingIsRing, DropKeepsCursors, ContentOfDrop
  <2>6. /\ d.spoint = r.npoint /\ d.datasz = r.datasz - n /\ d.datano = r.datano
    BY <1>1, <2>2 DEF DropRing, Ring
  <2>7. q = [d EXCEPT !.spoint = r.npoint, !.datano = r.datano - 1, !.state = "NORMAL"]
    BY <2>2 DEF LineTaken
  <2> HIDE DEF d
  <2>8. r.datano - 1 \in Int  BY <1>1, <2>2
  <2>9. /\ q \in Ring /\ q.buf = d.buf /\ q.spoint = d.spoint /\ q.epoint = d.epoint
        /\ q.datasz = d.datasz /\ q.datano = r.datano - 1 /\ q.state = "NORMAL"
    BY <2>5, <2>6, <2>7, <2>8 DEF Ring, RingState
  <2> HIDE DEF q
  <2>10. Content(q) = rest  BY <2>5, <2>9 DEF Content, ReadRing
  <2>11. q.epoint = Wrap(q.spoint + q.datasz) /\ q.datasz < BufSz
    BY <2>4, <2>5, <2>6, <2>9, BufSzAssumption
  <2>12. q.datano = Cardinality(LineEnds(Content(q)))  BY <1>1, <2>3, <2>9, <2>10
  <2>13. Open(rest)
    <3>1. n \in 0 .. Len(t)  BY <1>1, <2>4
    <3>2. /\ Len(rest) = Len(t) - n
          /\ \A i \in 1 .. Len(t) - n : rest[i] = t[n + i]
          /\ rest \in Seq(Byte)
      BY <1>1, <3>1, EndsOfRest
    <3>3. ASSUME rest # <<>> PROVE rest[Len(rest)] # CR
      <4> HIDE DEF rest
      <4>1. Len(rest) \in Nat \ {0}  BY <3>2, <3>3, EmptySeq
      <4>2. n + Len(rest) = Len(t) /\ Len(rest) \in 1 .. Len(t) - n  BY <1>1, <3>1, <3>2, <4>1
      <4>3. rest[Len(rest)] = t[Len(t)]  BY <3>2, <4>2
      <4>4. t # <<>>  BY <1>1, <3>1, <4>1, <4>2, EmptySeq
      <4> QED BY <1>1, <4>3, <4>4 DEF Open
    <3> QED BY <3>3 DEF Open
  <2>14. /\ Sound(Rescan(q)) /\ Content(Rescan(q)) = Content(q) /\ Rescan(q).state = q.state
    BY <2>9, <2>10, <2>11, <2>12, <2>13, RescanIsSound
  <2> QED BY <1>3, <2>1, <2>9, <2>10, <2>14 DEF n
<1> QED BY <1>2, <1>3
-----------------------------------------------------------------------------
(* The index m of put_mstream is that of the first line end. *)
LEMMA FirstEndIsFirst ==
  ASSUME NEW s \in Seq(Byte), Tame(s), LineEnds(s) # {}
  PROVE  /\ FirstEnd(s) + 1 = Min(LineEnds(s))
         /\ Min(LineEnds(s)) \in LineEnds(s) /\ Min(LineEnds(s)) \in 1 .. Len(s)
         /\ \A i \in LineEnds(s) : Min(LineEnds(s)) <= i
<1> DEFINE E == LineEnds(s)
           n == Min(E)
<1>1. E \in SUBSET Nat /\ E # {} /\ E \in SUBSET (1 .. Len(s)) /\ Len(s) \in Nat  BY EndsAreFinite
<1>2. n \in E /\ \A i \in E : n <= i  BY <1>1, MinIsLeast
<1>3. n \in 1 .. Len(s) /\ n \in Int  BY <1>1, <1>2
<1>4. s # <<>>  BY <1>1, <1>3, EmptySeq
<1>5. CASE 1 \in E
  <2>1. E = {1}  BY <1>4, <1>5 DEF Tame
  <2>2. FirstEnd(s) = 0  BY <2>1 DEF FirstEnd
  <2>3. n = 1  BY <1>2, <2>1
  <2> QED BY <1>2, <1>3, <2>2, <2>3
<1>6. CASE 1 \notin E
  <2>1. E \ {1} = E  BY <1>6
  <2>2. FirstEnd(s) = n - 1  BY <1>1, <2>1 DEF FirstEnd
  <2> HIDE DEF n
  <2>3. FirstEnd(s) + 1 = n  BY <1>3, <2>2
  <2> QED BY <1>2, <1>3, <2>3 DEF n
<1> QED BY <1>5, <1>6

(* The first line end of a text is found among the unread bytes or, when    *)
(* they have none, in the string that is put; short lines keep it near.     *)
LEMMA FirstOfConcat ==
  ASSUME NEW t \in Seq(Byte), NEW s \in Seq(Byte), Open(t), LineEnds(t \o s) # {}
  PROVE  LET k == Min(LineEnds(t \o s))
         IN  /\ LineEnds(t) # {} => k = Min(LineEnds(t))
             /\ LineEnds(t) = {} => LineEnds(s) # {} /\ k = Len(t) + Min(LineEnds(s))
<1> DEFINE c == t \o s
           k == Min(LineEnds(c))
           A == LineEnds(t)
           B == LineEnds(s)
<1>1. c \in Seq(Byte) /\ Len(t) \in Nat /\ Len(s) \in Nat /\ Len(c) \in Nat  BY ConcatProperties
<1>2. LineEnds(c) = A \cup {Len(t) + i : i \in B}  BY EndsOfConcat DEF Open
<1>3. /\ LineEnds(c) \in SUBSET Nat /\ LineEnds(c) \in SUBSET (1 .. Len(c))
      /\ A \in SUBSET (1 .. Len(t)) /\ B \in SUBSET (1 .. Len(s))
      /\ A \in SUBSET Nat /\ B \in SUBSET Nat
  BY <1>1, EndsAreFinite
<1>4. k \in LineEnds(c) /\ \A i \in LineEnds(c) : k <= i  BY <1>3, MinIsLeast
<1> HIDE DEF A, B
<1>5. ASSUME A # {} PROVE k = Min(A)
  <2>1. Min(A) \in A /\ \A i \in A : Min(A) <= i  BY <1>3, <1>5, MinIsLeast
  <2>2. Min(A) \in 1 .. Len(t)  BY <1>3, <2>1
  <2>3. Min(A) \in LineEnds(c)  BY <1>2, <2>1
  <2>4. ASSUME NEW i \in LineEnds(c) PROVE Min(A) <= i
    <3>1. i \in A \/ \E j \in B : i = Len(t) + j  BY <1>2
    <3>2. ASSUME NEW j \in B, i = Len(t) + j PROVE Min(A) <= i
      <4>1. j \in Nat  BY <1>3
      <4> QED BY <1>1, <2>2, <3>2, <4>1
    <3> QED BY <2>1, <3>1, <3>2
  <2> QED BY <1>3, <2>3, <2>4, MinIs
<1>6. ASSUME A = {} PROVE B # {} /\ k = Len(t) + Min(B)
  <2>1. B # {}  BY <1>2, <1>4, <1>6
  <2>2. Min(B) \in B /\ \A i \in B : Min(B) <= i  BY <1>3, <2>1, MinIsLeast
  <2>3. Len(t) + Min(B) \in LineEnds(c)  BY <1>2, <2>2
  <2>4. ASSUME NEW i \in LineEnds(c) PROVE Len(t) + Min(B) <= i
    <3>1. PICK j \in B : i = Len(t) + j  BY <1>2, <1>6
    <3>2. j \in Nat /\ Min(B) \in Nat /\ Min(B) <= j  BY <1>3, <2>2
    <3> QED BY <1>1, <3>1, <3>2
  <2> QED BY <1>3, <2>1, <2>3, <2>4, MinIs
<1> QED BY <1>5, <1>6 DEF A, B

LEMMA ShortIsNear == ASSUME NEW t \in Seq(Byte), LinesShort(t) PROVE Near(t)
<1> DEFINE k == Min(LineEnds(t))
           n == Len(t)
<1> SUFFICES ASSUME LineEnds(t) # {} PROVE k < BufSz  BY DEF Near
<1>1. LineEnds(t) \in SUBSET Nat /\ LineEnds(t) \in SUBSET (1 .. n) /\ n \in Nat  BY EndsAreFinite
<1>2. k \in LineEnds(t) /\ \A i \in LineEnds(t) : k <= i  BY <1>1, MinIsLeast
<1>3. k \in 1 .. n /\ MaxLine \in 1 .. BufSz - 1  BY <1>1, <1>2, MaxLineAssumption
<1> HIDE DEF k
<1>4. CASE n >= MaxLine
  <2>1. 0 \in 0 .. n - MaxLine  BY <1>1, <1>3, <1>4, BufSzAssumption
  <2>2. PICK j \in 0 + 1 .. 0 + MaxLine : j \in LineEnds(t)  BY <2>1 DEF LinesShort
  <2> HIDE DEF n
  <2> QED BY <1>2, <1>3, <2>2, BufSzAssumption
<1>5. CASE ~(n >= MaxLine)
  <2> HIDE DEF n
  <2> QED BY <1>1, <1>3, <1>5, BufSzAssumption
<1> QED BY <1>4, <1>5

(* put_mstream stores the string and counts its lines, or refuses it. *)
LEMMA PutIsSound ==
  ASSUME NEW r, Sound(r), NEW s \in Seq(Byte), Tame(s), Fits(r, s) => Near(Content(r) \o s)
  PROVE  LET q == PutStream(r, s)
         IN  /\ Sound(q)
             /\ Content(q) = IF Fits(r, s) THEN Content(r) \o s ELSE Content(r)
             /\ ~Fits(r, s) => q.state = "ERROR"
<1> DEFINE t == Content(r)
           c == t \o s
           m == FirstEnd(s) + 1
           p == PutRing(r, s)
           np == IF r.datano = 0 /\ LineEnds(s) # {} THEN (r.epoint + FirstEnd(s) + 1) % BufSz
                                                     ELSE r.npoint
           q == [p EXCEPT !.npoint = np, !.datano = r.datano + Cardinality(LineEnds(s))]
<1>0. s \in Seq(Byte) /\ Tame(s)  OBVIOUS
<1>1. /\ r \in Ring /\ r.epoint = Wrap(r.spoint + r.datasz) /\ Open(t)
      /\ r.datano = Cardinality(LineEnds(t)) /\ r.datasz \in 0 .. BufSz
      /\ t \in Seq(Byte) /\ Len(t) = r.datasz
  BY ContentIsSeq DEF Sound, Ring
<1>2. CASE ~Fits(r, s)
  <2>1. PutStream(r, s) = [r EXCEPT !.state = "ERROR"]  BY <1>2 DEF PutStream, PutRing
  <2>2. "ERROR" \in RingState  BY DEF RingState
  <2> QED BY <1>2, <2>1, <2>2, StateIsApart
<1>3. CASE Fits(r, s)
  <2>1. PutStream(r, s) = q  BY <1>3 DEF PutStream
  <2>2. p \in Ring /\ Content(p) = c  BY <1>0, <1>1, <1>3, PutRingIsRing, ContentOfPut
  <2>3. /\ p.spoint = r.spoint /\ p.epoint = Wrap(r.epoint + Len(s))
        /\ p.datasz = r.datasz + Len(s)
    BY <1>1, <1>3 DEF PutRing, Ring
  <2>4. Len(s) \in Nat /\ r.datasz + Len(s) \in 0 .. BufSz /\ r.spoint \in Index
        /\ Len(s) <= BufSz
    BY <1>0, <1>1, <1>3, BufSzAssumption DEF Fits, Ring
  <2>5. p.epoint = Wrap(p.spoint + p.datasz)
    BY <1>1, <2>3, <2>4, WrapTwice
  <2>6. Cardinality(LineEnds(c)) = Cardinality(LineEnds(t)) + Cardinality(LineEnds(s))
    BY <1>0, <1>1, EndsAddUp DEF Open
  <2>7. Cardinality(LineEnds(t)) \in Nat /\ Cardinality(LineEnds(s)) \in Nat
        /\ (Cardinality(LineEnds(t)) = 0 <=> LineEnds(t) = {})
    BY <1>0, <1>1, EndsAreFinite
  <2>8. LineEnds(s) # {} =>
          /\ m = Min(LineEnds(s)) /\ m \in 1 .. Len(s)
          /\ (r.epoint + FirstEnd(s) + 1) % BufSz = Wrap(r.epoint + m)
    <3>1. SUFFICES ASSUME LineEnds(s) # {}
          PROVE  /\ m = Min(LineEnds(s)) /\ m \in 1 .. Len(s)
                 /\ (r.epoint + FirstEnd(s) + 1) % BufSz = Wrap(r.epoint + m)
      OBVIOUS
    <3>2. m = Min(LineEnds(s)) /\ m \in 1 .. Len(s)  BY <1>0, <3>1, FirstEndIsFirst
    <3>3. r.epoint \in 0 .. BufSz - 1  BY <1>1 DEF Ring, Index
    <3>4. FirstEnd(s) \in Int
      <4>1. LineEnds(s) \ {1} \in SUBSET Nat  BY <1>0, EndsAreFinite
      <4>2. LineEnds(s) \ {1} # {} => Min(LineEnds(s) \ {1}) \in Nat  BY <4>1, MinIsLeast
      <4> QED BY <4>2 DEF FirstEnd
    <3> DEFINE f == FirstEnd(s)
    <3> HIDE DEF f
    <3>5. r.epoint + f + 1 = r.epoint + (f + 1) /\ f + 1 \in 1 .. Len(s)
      BY <3>2, <3>3, <3>4 DEF f
    <3>6. r.epoint + (f + 1) \in 0 .. 2 * BufSz - 1  BY <2>4, <3>3, <3>5, BufSzAssumption
    <3>7. (r.epoint + f + 1) % BufSz = Wrap(r.epoint + (f + 1))  BY <3>5, <3>6, ModIsWrap
    <3> QED BY <3>2, <3>7 DEF f
  <2>9. np \in Index
    <3>1. CASE r.datano = 0 /\ LineEnds(s) # {}
      <4>1. np = Wrap(r.epoint + m) /\ m \in 1 .. Len(s)  BY <2>8, <3>1
      <4>2. r.epoint \in 0 .. BufSz - 1  BY <1>1 DEF Ring, Index
      <4> HIDE DEF m, np
      <4> QED BY <2>4, <4>1, <4>2, BufSzAssumption DEF Wrap, Index
    <3>2. CASE ~(r.datano = 0 /\ LineEnds(s) # {})  BY <1>1, <3>2 DEF Ring
    <3> QED BY <3>1, <3>2
  <2> HIDE DEF p, np
  <2>10. r.datano + Cardinality(LineEnds(s)) \in Int  BY <1>1, <2>7
  <2>11. /\ q \in Ring /\ q.buf = p.buf /\ q.spoint = p.spoint /\ q.epoint = p.epoint
         /\ q.datasz = p.datasz /\ q.npoint = np
         /\ q.datano = r.datano + Cardinality(LineEnds(s))
    BY <2>2, <2>9, <2>10 DEF Ring
  <2> HIDE DEF q
  <2>12. Content(q) = c  BY <2>2, <2>11 DEF Content, ReadRing
  <2>13. Open(c)
    <3>1. CASE s = <<>>  BY <1>1, <3>1, ConcatEmptySeq
    <3>2. CASE s # <<>>
      <4>1. Len(s) \in Nat \ {0} /\ s[Len(s)] # CR  BY <1>0, <3>2, EmptySeq DEF Tame
      <4> HIDE DEF t
      <4>2. /\ Len(c) = Len(t) + Len(s)
            /\ \A i \in 1 .. Len(t) + Len(s) : c[i] = IF i <= Len(t) THEN t[i] ELSE s[i - Len(t)]
        BY <1>0, <1>1, ConcatProperties
      <4> HIDE DEF c
      <4>3. Len(t) \in Nat  BY <1>1
      <4>4. Len(c) \in 1 .. Len(t) + Len(s) /\ ~(Len(c) <= Len(t)) /\ Len(c) - Len(t) = Len(s)
        BY <4>1, <4>2, <4>3
      <4> QED BY <4>1, <4>2, <4>4 DEF Open
    <3> QED BY <3>1, <3>2
  <2>14. FirstLine(q)
    <3>1. SUFFICES ASSUME LineEnds(c) # {}
          PROVE  Min(LineEnds(c)) < BufSz /\ q.npoint = Wrap(q.spoint + Min(LineEnds(c)))
      BY <2>12 DEF FirstLine
    <3>2. /\ LineEnds(t) # {} => Min(LineEnds(c)) = Min(LineEnds(t))
          /\ LineEnds(t) = {} => LineEnds(s) # {} /\ Min(LineEnds(c)) = Len(t) + Min(LineEnds(s))
          /\ Min(LineEnds(c)) < BufSz
      BY <1>0, <1>1, <1>3, <3>1, FirstOfConcat DEF Near
    <3>3. CASE LineEnds(t) # {}
      <4>1. np = r.npoint  BY <1>1, <2>7, <3>3 DEF np
      <4>2. r.npoint = Wrap(r.spoint + Min(LineEnds(t)))  BY <3>3 DEF Sound, FirstLine
      <4> QED BY <2>3, <2>11, <3>2, <3>3, <4>1, <4>2
    <3>4. CASE LineEnds(t) = {}
      <4>1. m = Min(LineEnds(s)) /\ m \in 1 .. Len(s) /\ np = Wrap(r.epoint + m)
        BY <1>1, <2>7, <2>8, <3>2, <3>4 DEF np
      <4>2. Min(LineEnds(c)) = r.datasz + m  BY <1>1, <3>2, <3>4, <4>1
      <4> HIDE DEF m
      <4>3. m \in Int /\ r.datasz + m \in 0 .. BufSz  BY <1>1, <2>4, <4>1, BufSzAssumption
      <4>4. Wrap(Wrap(r.spoint + r.datasz) + m) = Wrap(r.spoint + (r.datasz + m))
        BY <1>1, <2>4, <4>3, WrapTwice
      <4> QED BY <1>1, <2>3, <2>11, <3>2, <4>1, <4>2, <4>4
    <3> QED BY <3>3, <3>4
  <2>15. Sound(q)
    BY <1>1, <2>5, <2>6, <2>11, <2>12, <2>13, <2>14 DEF Sound
  <2> QED BY <1>3, <2>1, <2>12, <2>15
<1> QED BY <1>2, <1>3

(* Of the strings that the owner of MessageStream puts, that much is known. *)
LEMMA ChunkIsPut ==
  ASSUME NEW r, Sound(r), NEW s \in Chunk, Fits(r, s) => LinesShort(Content(r) \o s)
  PROVE  LET q == PutStream(r, s)
         IN  /\ Sound(q)
             /\ Content(q) = IF Fits(r, s) THEN Content(r) \o s ELSE Content(r)
             /\ ~Fits(r, s) => q.state = "ERROR"
<1>1. s \in Seq(Byte) /\ Tame(s)  BY ChunkAssumption
<1>2. Fits(r, s) => Near(Content(r) \o s)
  <2>1. Content(r) \in Seq(Byte)  BY ContentIsSeq DEF Sound
  <2>2. Content(r) \o s \in Seq(Byte)  BY <1>1, <2>1
  <2> QED BY <2>2, ShortIsNear
<1> QED BY <1>1, <1>2, PutIsSound
-----------------------------------------------------------------------------
(* The calls, on the struct of the owner. *)
LEMMA PutStep ==
  ASSUME IInv, NEW s \in Chunk, Put(s)
  PROVE  IInv' /\ Lines!Put(s)
<1> DEFINE q == PutStream(sb, s)
<1>1. Sound(sb) /\ (Fits(sb, s) => LinesShort(Content(sb) \o s)) /\ sb' = q
  BY DEF IInv, Put, Sendable
<1>2. Sound(q) /\ Content(q) = IF Fits(sb, s) THEN Content(sb) \o s ELSE Content(sb)
  BY <1>1, ChunkIsPut
<1>3. Sound(q) => IInv'  BY <1>1 DEF IInv, Sound, FirstLine, Open
<1>4. Content(sb)' = Content(q)  BY <1>1 DEF Content, ReadRing
<1>5. sb \in Ring /\ Len(Content(sb)) = sb.datasz /\ sb.datasz \in Nat
  BY <1>1, BufSzAssumption, ContentIsSeq DEF Sound, Ring
<1>6. Fits(sb, s) <=> Len(Content(sb)) + Len(s) <= BufSz  BY <1>5 DEF Fits
<1>7. Len(s) \in Nat  BY ChunkAssumption
<1>8. ~(Len(Content(sb)) + Len(s) <= BufSz) <=> Len(Content(sb)) + Len(s) > BufSz
  BY <1>5, <1>7, BufSzAssumption
<1>9. out' = [call |-> "put", ok |-> Fits(sb, s), line |-> <<>>]  BY DEF Put
<1>10. IInv'  BY <1>2, <1>3
<1> HIDE DEF q
<1>11. CASE Fits(sb, s)
  <2>1. Fits(sb, s) = TRUE  BY <1>11 DEF Fits
  <2>2. out' = [call |-> "put", ok |-> TRUE, line |-> <<>>]  BY <1>9, <2>1
  <2>3. Content(sb)' = Content(sb) \o s /\ Len(Content(sb)) + Len(s) <= BufSz
    BY <1>2, <1>4, <1>6, <1>11
  <2> QED BY <1>10, <2>2, <2>3 DEF Lines!Put
<1>12. CASE ~Fits(sb, s)
  <2>1. Fits(sb, s) = FALSE  BY <1>12 DEF Fits
  <2>2. out' = [call |-> "put", ok |-> FALSE, line |-> <<>>]  BY <1>9, <2>1
  <2>3. Content(sb)' = Content(sb) /\ Len(Content(sb)) + Len(s) > BufSz
    BY <1>2, <1>4, <1>6, <1>8, <1>12
  <2> QED BY <1>10, <2>2, <2>3 DEF Lines!Put
<1> QED BY <1>11, <1>12

(* A get on the struct r, whatever brought it there, is a Take of its text. *)
LEMMA TakeStep ==
  ASSUME NEW r, Sound(r), NEW q, Sound(q), Content(q) = Content(GetStream(r)), sb' = q,
         out' = [call |-> "get", ok |-> HasLine(r), line |-> Line(r)]
  PROVE  IInv' /\ Lines!Take(Content(r))
<1> DEFINE t == Content(r)
           n == Min(LineEnds(t))
<1>1. IInv'  BY DEF IInv, Sound, FirstLine, Open
<1>2. Content(sb)' = Content(GetStream(r))  BY DEF Content, ReadRing
<1>3. Content(sb)' = IF LineEnds(t) = {} THEN t ELSE SubSeq(t, n + 1, Len(t))
  BY <1>2, GetIsSound
<1>4. HasLine(r) <=> LineEnds(t) # {}  BY LineIsThere
<1>5. Lines!Ends(t) = LineEnds(t)  BY DEF Lines!Ends, LineEnds
<1>6. Lines!Min(LineEnds(t)) = n  BY DEF Lines!Min, Min
<1>7. LineEnds(t) # {} => NextLine(r) = Lines!Strip(SubSeq(t, 1, n))  BY LineIsStripped
<1>8. HasLine(r) \in BOOLEAN  BY DEF HasLine
<1> HIDE DEF t, n
<1>9. CASE LineEnds(t) # {}
  <2>1. out' = [call |-> "get", ok |-> TRUE, line |-> Lines!Strip(SubSeq(t, 1, n))]
    BY <1>4, <1>7, <1>8, <1>9 DEF Line
  <2>2. Content(sb)' = SubSeq(t, n + 1, Len(t))  BY <1>3, <1>9
  <2> QED BY <1>1, <1>5, <1>6, <1>9, <2>1, <2>2 DEF Lines!Take, t
<1>10. CASE LineEnds(t) = {}
  <2>1. out' = [call |-> "get", ok |-> FALSE, line |-> <<>>]
    BY <1>4, <1>8, <1>10 DEF Line
  <2>2. Content(sb)' = t  BY <1>3, <1>10
  <2> QED BY <1>1, <1>5, <1>10, <2>1, <2>2 DEF Lines!Take, t
<1> QED BY <1>9, <1>10

LEMMA GetStep ==
  ASSUME IInv, Get
  PROVE  IInv' /\ Lines!Get
<1>1. Sound(sb) /\ Sound(GetStream(sb))  BY GetIsSound DEF IInv
<1>2. /\ sb' = GetStream(sb)
      /\ out' = [call |-> "get", ok |-> HasLine(sb), line |-> Line(sb)]
  BY DEF Get
<1> QED BY <1>1, <1>2, TakeStep DEF Lines!Get

LEMMA FgetsStep ==
  ASSUME IInv, NEW s \in Chunk, Fgets(s)
  PROVE  IInv' /\ Lines!Fgets(s) /\ (~Fits(sb, s) => sb'.state # "NORMAL")
<1> DEFINE put == PutStream(sb, s)
           text == IF Len(Content(sb)) + Len(s) <= BufSz THEN Content(sb) \o s ELSE Content(sb)
<1>1. Sound(sb) /\ (Fits(sb, s) => LinesShort(Content(sb) \o s))  BY DEF IInv, Fgets, Sendable
<1>2. /\ Sound(put) /\ (~Fits(sb, s) => put.state = "ERROR")
      /\ Content(put) = IF Fits(sb, s) THEN Content(sb) \o s ELSE Content(sb)
  BY <1>1, ChunkIsPut
<1>3. sb \in Ring /\ Len(Content(sb)) = sb.datasz  BY <1>1, ContentIsSeq DEF Sound
<1>4. Content(put) = text  BY <1>2, <1>3 DEF Fits
<1>5. Lines!Take(text) => Lines!Fgets(s)  BY DEF Lines!Fgets
<1>6. \/ /\ put.datano = 0 /\ sb' = [put EXCEPT !.state = "NODATA"]
         /\ out' = [call |-> "get", ok |-> FALSE, line |-> <<>>]
      \/ /\ put.datano # 0
         /\ sb' = [GetStream(put) EXCEPT !.state = IF put.state = "ERROR" THEN "ERROR" ELSE @]
         /\ out' = [call |-> "get", ok |-> HasLine(put), line |-> Line(put)]
  BY DEF Fgets
<1> HIDE DEF put, text
<1>7. put \in Ring /\ (put.datano = 0 <=> LineEnds(Content(put)) = {})
      /\ (HasLine(put) <=> LineEnds(Content(put)) # {})
  BY <1>2, LineIsThere DEF Sound
<1>8. Sound(GetStream(put)) /\ GetStream(put).state = "NORMAL"
  BY <1>2, GetIsSound
<1>9. CASE put.datano = 0
  <2> DEFINE q == [put EXCEPT !.state = "NODATA"]
  <2>1. "NODATA" \in RingState  BY DEF RingState
  <2>2. Sound(q) /\ Content(q) = Content(put) /\ q.state = "NODATA"  BY <1>2, <2>1, StateIsApart
  <2>3. sb' = q /\ out' = [call |-> "get", ok |-> FALSE, line |-> <<>>]  BY <1>6, <1>9
  <2> HIDE DEF q
  <2>4. HasLine(put) = FALSE /\ Line(put) = <<>>
    <3>1. ~HasLine(put)  BY <1>7, <1>9
    <3>2. HasLine(put) \in BOOLEAN  BY DEF HasLine
    <3> QED BY <3>1, <3>2 DEF Line
  <2>5. Content(GetStream(put)) = Content(put)
    <3>1. LineEnds(Content(put)) = {}  BY <1>7, <1>9
    <3> QED BY <1>2, <3>1, GetIsSound
  <2>6. IInv' /\ Lines!Take(Content(put))  BY <1>2, <2>2, <2>3, <2>4, <2>5, TakeStep
  <2> QED BY <1>4, <1>5, <2>2, <2>3, <2>6
<1>10. CASE put.datano # 0
  <2> DEFINE g == GetStream(put)
             st == IF put.state = "ERROR" THEN "ERROR" ELSE g.state
             q == [g EXCEPT !.state = st]
  <2>1. st \in RingState  BY <1>8 DEF RingState
  <2>2. sb' = q /\ out' = [call |-> "get", ok |-> HasLine(put), line |-> Line(put)]
    BY <1>6, <1>10
  <2>3. Sound(g)  BY <1>8
  <2> HIDE DEF g, st
  <2>4. Sound(q) /\ Content(q) = Content(g) /\ q.state = st  BY <2>1, <2>3, StateIsApart
  <2> HIDE DEF q
  <2>5. IInv' /\ Lines!Take(Content(put))  BY <1>2, <2>2, <2>4, TakeStep DEF g
  <2>6. ~Fits(sb, s) => st # "NORMAL"  BY <1>2 DEF st
  <2> QED BY <1>4, <1>5, <2>2, <2>4, <2>5, <2>6
<1> QED BY <1>9, <1>10
-----------------------------------------------------------------------------
(* Nothing is in the struct at first. *)
LEMMA EmptyIsSound == Sound(EmptyRing) /\ Content(EmptyRing) = <<>> /\ EmptyRing.datano = 0
<1> DEFINE r == EmptyRing
<1>1. r \in Ring  BY EmptyRingIsRing
<1>2. r.datasz = 0 /\ r.spoint = 0 /\ r.epoint = 0 /\ r.datano = 0  BY DEF EmptyRing
<1> HIDE DEF r
<1>3. Content(r) \in Seq(Byte) /\ Len(Content(r)) = 0  BY <1>1, <1>2, ContentIsSeq
<1>4. Content(r) = <<>>  BY <1>3, EmptySeq
<1>5. LineEnds(Content(r)) = {}  BY <1>3 DEF LineEnds
<1>6. Cardinality(LineEnds(Content(r))) = 0  BY <1>5, FS_EmptySet
<1>7. r.epoint = Wrap(r.spoint + r.datasz)  BY <1>2, BufSzAssumption DEF Wrap
<1>8. Sound(r)  BY <1>1, <1>2, <1>4, <1>5, <1>6, <1>7 DEF Sound, FirstLine, Open
<1> QED BY <1>2, <1>4, <1>8 DEF r

LEMMA Initially ==
  ASSUME Init
  PROVE  IInv /\ Lines!Init
<1>1. sb = EmptyRing  BY DEF Init
<1>2. IInv /\ Content(sb) = <<>>  BY <1>1, EmptyIsSound DEF IInv
<1> QED BY <1>2 DEF Init, Lines!Init

LEMMA Stutters ==
  ASSUME IInv, UNCHANGED vars
  PROVE  IInv' /\ UNCHANGED Lines!vars
<1>1. sb' = sb /\ out' = out  BY DEF vars
<1>2. Content(sb)' = Content(sb)  BY <1>1 DEF Content, ReadRing
<1> QED BY <1>1, <1>2 DEF IInv, Sound, FirstLine, Open, Lines!vars

LEMMA IInvHolds == Spec => []IInv
<1>1. Init => IInv  BY Initially
<1>2. IInv /\ [Next]_vars => IInv'
  BY PutStep, GetStep, FgetsStep, Stutters DEF Next
<1> QED BY <1>1, <1>2, PTL DEF Spec

(* datano, counted at the puts and the gets, is the number of complete      *)
(* lines among the unread bytes, whatever the buffer and the strings are.   *)
THEOREM LinesAreCounted == Spec => []CountMatches
<1>1. IInv => CountMatches  BY DEF IInv, Sound, CountMatches
<1> QED BY <1>1, IInvHolds, PTL

(* A line that was counted can be taken: get_mstream never returns NULL     *)
(* while datano is not 0.                                                   *)
THEOREM CountedLineIsReady == Spec => []LineReady
<1>1. ASSUME IInv, sb.datano > 0 PROVE HasLine(sb)
  <2>1. Sound(sb) /\ sb.datano # 0  BY <1>1 DEF IInv
  <2> QED BY <2>1, LineIsThere
<1>2. IInv => LineReady  BY <1>1 DEF LineReady
<1> QED BY <1>2, IInvHolds, PTL

(* fgets_mstream reports a string it had no room for, also when it returns  *)
(* a line in the same call.                                                 *)
THEOREM RefusalIsReported == Spec => RefusalReported
<1>1. IInv /\ [Next]_vars =>
        [\A s \in Chunk : Fgets(s) /\ ~Fits(sb, s) => sb'.state # "NORMAL"]_vars
  BY FgetsStep
<1> QED BY <1>1, IInvHolds, PTL DEF Spec, RefusalReported

(* The mstream implements LineStream: what was put comes out line by line,  *)
(* each once, in order and without its line end.                            *)
THEOREM StreamIsLines == Spec => ImplementsLines
<1>1. Init => Lines!Init  BY Initially
<1>2. IInv /\ [Next]_vars => [Lines!Next]_(Lines!vars)
  BY PutStep, GetStep, FgetsStep, Stutters DEF Next, Lines!Next
<1> QED BY <1>1, <1>2, IInvHolds, PTL DEF Spec, ImplementsLines, Lines!Spec
-----------------------------------------------------------------------------
(* The receiver of lines. *)

(* The text under way, what is unread in the mstream and then what is still *)
(* on the wire, is the lines of s behind the first g: line i of them ends   *)
(* at e[i].                                                                 *)
Cut(t, e, g, s) ==
  /\ g \in Nat /\ g <= Len(s) /\ e \in [0 .. Len(s) - g -> Nat]
  /\ e[0] = 0 /\ e[Len(s) - g] = Len(t)
  /\ \A i, j \in 0 .. Len(s) - g : i < j => e[i] < e[j]
  /\ \A i \in 1 .. Len(s) - g : LET line == SubSeq(t, e[i - 1] + 1, e[i])
                                IN  line \in PeerLine /\ Chomp(line) = s[g + i]

(* What the caller is given for the line x. *)
Given(x, y) == IF toBuffer THEN y = x
               ELSE IsPrefix(SubSeq(x, 1, Min({Sz - 1, Len(x)})), y)

RInv == /\ Sound(ms) /\ wire \in Seq(Byte) /\ mesg \in Seq(Byte)
        /\ sent \in Seq(Seq(Byte)) /\ got \in Seq(Seq(Byte))
        /\ pc = "recv" => ms.datano = 0
        /\ \A i \in 1 .. Len(got) : Given(sent[i], got[i])
        /\ \E e : Cut(Content(ms) \o wire, e, Len(got), sent)

(* A part of a text. *)
LEMMA PartOf ==
  ASSUME NEW t \in Seq(Byte), NEW i \in Nat, NEW j \in Nat, i <= j, j <= Len(t)
  PROVE  LET p == SubSeq(t, i + 1, j)
         IN  /\ p \in Seq(Byte) /\ Len(p) = j - i
             /\ \A k \in 1 .. j - i : p[k] = t[i + k]
<1> DEFINE p == SubSeq(t, i + 1, j)
<1>1. Len(t) \in Nat  OBVIOUS
<1>2. \A k \in i + 1 .. j : t[k] \in Byte  BY <1>1, ElementOfSeq
<1>3. /\ p \in Seq(Byte) /\ Len(p) = IF i + 1 <= j THEN j - (i + 1) + 1 ELSE 0
      /\ \A k \in 1 .. j - (i + 1) + 1 : p[k] = t[i + 1 + k - 1]
  BY <1>2, SubSeqProperties
<1> HIDE DEF p
<1>4. Len(p) = j - i  BY <1>3
<1>5. \A k \in 1 .. j - i : k \in 1 .. j - (i + 1) + 1 /\ i + 1 + k - 1 = i + k  BY <1>1
<1> QED BY <1>3, <1>4, <1>5 DEF p

(* chomp leaves a text. *)
LEMMA ChompIsSeq == ASSUME NEW s \in Seq(Byte) PROVE Chomp(s) \in Seq(Byte)
<1> DEFINE I == {i \in 1 .. Len(s) : s[i] \in {CR, LF}}
           k == SelectInSeq(s, LAMBDA c : c \in {CR, LF})
<1>1. I \in SUBSET Nat /\ \A i \in I : i \in 1 .. Len(s)  OBVIOUS
<1>2. k = IF I # {} THEN Min(I) ELSE 0  BY DEF SelectInSeq
<1>3. Chomp(s) = IF k = 0 THEN s ELSE SubSeq(s, 1, k - 1)  BY DEF Chomp
<1> HIDE DEF k
<1>4. CASE I # {}
  <2>1. k \in I  BY <1>1, <1>2, <1>4, MinIsLeast
  <2>2. k \in 1 .. Len(s) /\ Len(s) \in Nat  BY <1>1, <2>1
  <2> HIDE DEF k, I
  <2>3. SubSeq(s, 0 + 1, k - 1) \in Seq(Byte)  BY <2>2, PartOf
  <2> QED BY <1>3, <2>2, <2>3
<1>5. CASE I = {}  BY <1>2, <1>3, <1>5
<1> QED BY <1>4, <1>5

(* A text is a string of bytes. *)
LEMMA TextIsSeq == ASSUME NEW l \in Seq(Byte \ {Nul}) PROVE l \in Seq(Byte)
<1>1. \A i \in 1 .. Len(l) : l[i] \in Byte
  <2>1. \A i \in 1 .. Len(l) : l[i] \in Byte \ {Nul}  BY ElementOfSeq
  <2> QED BY <2>1
<1>2. l \in [1 .. Len(l) -> Byte] /\ Len(l) \in Nat  BY <1>1, LenProperties
<1> QED BY <1>2, SeqDef

(* The first line under way has the first line end, and is one of the       *)
(* peer's, so it leaves room for a segment.                                 *)
LEMMA FirstOfCut ==
  ASSUME NEW t \in Seq(Byte), t # <<>>, NEW s \in Seq(Seq(Byte)), NEW e, NEW g, Cut(t, e, g, s)
  PROVE  /\ g < Len(s) /\ e[1] \in 1 .. Len(t) /\ e[1] + Sz <= BufSz
         /\ Chomp(SubSeq(t, 1, e[1])) = s[g + 1]
         /\ e[1] \in LineEnds(t) /\ \A j \in LineEnds(t) : e[1] <= j
<1> DEFINE n == Len(s) - g
           k == e[1]
           l == SubSeq(t, e[0] + 1, e[1])
<1>1. /\ g \in Nat /\ Len(s) \in Nat /\ g <= Len(s) /\ e \in [0 .. n -> Nat] /\ e[0] = 0
      /\ e[n] = Len(t) /\ Len(t) \in Nat /\ Len(t) # 0
  BY EmptySeq DEF Cut
<1>2. n # 0 /\ n \in Nat /\ g < Len(s)
  <2>1. n \in Nat  BY <1>1
  <2>2. n # 0
    <3> HIDE DEF n
    <3> QED BY <1>1
  <2> QED BY <1>1, <2>1, <2>2
<1>3. 1 \in 1 .. n /\ 0 \in 0 .. n /\ 1 \in 0 .. n /\ n \in 0 .. n  BY <1>2
<1>4. e[0] < e[1] /\ (1 < n => e[1] < e[n]) /\ l \in PeerLine /\ Chomp(l) = s[g + 1]
  BY <1>3 DEF Cut
<1>5. k \in 1 .. Len(t)
  <2>1. k \in Nat  BY <1>1, <1>3
  <2> HIDE DEF n
  <2>2. CASE n = 1  BY <1>1, <1>4, <2>1, <2>2
  <2>3. CASE n # 1
    <3>1. 1 < n  BY <1>2, <2>3
    <3>2. e[1] < e[n] /\ 0 < e[1]  BY <1>1, <1>4, <3>1
    <3> QED BY <1>1, <2>1, <3>2
  <2> QED BY <2>2, <2>3
<1>6. l = SubSeq(t, 0 + 1, k) /\ l = SubSeq(t, 1, e[1])  BY <1>1
<1> HIDE DEF l, k
<1>7. l \in Seq(Byte) /\ Len(l) = k /\ \A i \in 1 .. k : l[i] = t[i]
  BY <1>5, <1>6, PartOf
<1>8. LineEnds(l) = {k} /\ l[k] = LF /\ k + Sz <= BufSz
  BY <1>4, <1>7, LineAssumption, RoomAssumption, TextIsSeq
<1>9. k \in LineEnds(t)  BY <1>5, <1>7, <1>8 DEF LineEnds
<1>10. ASSUME NEW j \in LineEnds(t), ~(k <= j) PROVE FALSE
  <2>1. j \in 1 .. Len(t)  BY DEF LineEnds
  <2>2. j \in 1 .. k /\ j + 1 \in 1 .. k /\ j # k  BY <1>5, <1>10, <2>1
  <2>3. l[j] = t[j] /\ l[j + 1] = t[j + 1] /\ j < Len(l) /\ j < Len(t)  BY <1>5, <1>7, <2>2
  <2>4. j \in LineEnds(l)  BY <1>7, <2>2, <2>3 DEF LineEnds
  <2> QED BY <1>8, <2>2, <2>4
<1> QED BY <1>2, <1>4, <1>5, <1>6, <1>8, <1>9, <1>10 DEF k

(* So has what arrived of it, if it arrived as a whole, and otherwise there *)
(* is room.                                                                 *)
LEMMA FirstOfArrived ==
  ASSUME NEW c \in Seq(Byte), NEW w \in Seq(Byte), Open(c), NEW s \in Seq(Seq(Byte)),
         NEW e, NEW g, Cut(c \o w, e, g, s)
  PROVE  /\ Near(c)
         /\ LineEnds(c) # {} => /\ Min(LineEnds(c)) = e[1] /\ e[1] \in 1 .. Len(c)
                                /\ Chomp(SubSeq(c, 1, e[1])) = s[g + 1]
         /\ LineEnds(c) = {} /\ c \o w # <<>> => Len(c) + Sz < BufSz
<1> DEFINE t == c \o w
           k == e[1]
<1>1. /\ t \in Seq(Byte) /\ Len(c) \in Nat /\ Len(w) \in Nat /\ Len(t) = Len(c) + Len(w)
      /\ \A i \in 1 .. Len(c) + Len(w) : t[i] = IF i <= Len(c) THEN c[i] ELSE w[i - Len(c)]
  BY ConcatProperties
<1>2. LineEnds(t) = LineEnds(c) \cup {Len(c) + i : i \in LineEnds(w)}  BY EndsOfConcat DEF Open
<1>3. /\ LineEnds(c) \in SUBSET Nat /\ LineEnds(c) \in SUBSET (1 .. Len(c))
      /\ LineEnds(w) \in SUBSET (1 .. Len(w))
  BY EndsAreFinite
<1>4. t = <<>> => LineEnds(c) = {} /\ Len(c) = 0
  <2>1. t = <<>> => Len(t) = 0  OBVIOUS
  <2>2. Len(t) = 0 => Len(c) = 0  BY <1>1
  <2>3. Len(c) = 0 => LineEnds(c) = {}  BY <1>3
  <2> QED BY <2>1, <2>2, <2>3
<1> HIDE DEF t
<1>5. ASSUME t # <<>>
      PROVE  /\ k \in 1 .. Len(t) /\ k + Sz <= BufSz
             /\ Chomp(SubSeq(t, 1, k)) = s[g + 1]
             /\ k \in LineEnds(t) /\ \A j \in LineEnds(t) : k <= j
  <2>1. Cut(t, e, g, s)  BY DEF t
  <2> QED BY <1>1, <1>5, <2>1, FirstOfCut
<1> HIDE DEF k
<1>6. ASSUME LineEnds(c) # {}
      PROVE  /\ Min(LineEnds(c)) = k /\ k \in 1 .. Len(c) /\ k < BufSz
             /\ Chomp(SubSeq(c, 1, k)) = s[g + 1]
  <2>1. t # <<>>  BY <1>4, <1>6
  <2>2. PICK j \in LineEnds(c) : TRUE  BY <1>6
  <2>3. k <= j /\ j \in 1 .. Len(c)  BY <1>2, <1>3, <1>5, <2>1
  <2>4. k \in 1 .. Len(c)  BY <1>1, <1>5, <2>1, <2>3
  <2>5. k \in LineEnds(c)
    <3>1. \A i \in LineEnds(w) : Len(c) + i # k  BY <1>1, <1>3, <2>4
    <3> QED BY <1>2, <1>5, <2>1, <3>1
  <2>6. \A i \in LineEnds(c) : k <= i  BY <1>2, <1>5, <2>1
  <2>7. Min(LineEnds(c)) = k  BY <1>3, <2>5, <2>6, MinIs
  <2>8. SubSeq(t, 1, k) = SubSeq(c, 1, k)
    <3>1. 1 \in 1 .. Len(c)  BY <1>1, <2>4
    <3> QED BY <2>4, <3>1, SubSeqOfConcat1 DEF t
  <2>9. k < BufSz  BY <1>1, <1>5, <2>1, <2>4, SzAssumption, BufSzAssumption
  <2> QED BY <1>5, <2>1, <2>4, <2>7, <2>8, <2>9
<1>7. ASSUME LineEnds(c) = {}, t # <<>> PROVE Len(c) + Sz < BufSz
  <2>1. PICK i \in LineEnds(w) : k = Len(c) + i  BY <1>2, <1>5, <1>7
  <2> QED BY <1>1, <1>3, <1>5, <1>7, <2>1, SzAssumption, BufSzAssumption
<1> QED BY <1>6, <1>7 DEF Near, t, k

(* The peer sends a line more. *)
LEMMA CutSend ==
  ASSUME NEW t \in Seq(Byte), NEW s \in Seq(Seq(Byte)), NEW e, NEW g, Cut(t, e, g, s),
         NEW l \in PeerLine
  PROVE  \E f : Cut(t \o l, f, g, Append(s, Chomp(l)))
<1> DEFINE n == Len(s) - g
           u == t \o l
           s2 == Append(s, Chomp(l))
           f == [i \in 0 .. n + 1 |-> IF i = n + 1 THEN Len(t) + Len(l) ELSE e[i]]
<1>1. /\ g \in Nat /\ Len(s) \in Nat /\ g <= Len(s) /\ e \in [0 .. n -> Nat] /\ e[0] = 0
      /\ e[n] = Len(t) /\ Len(t) \in Nat /\ n \in Nat
  BY DEF Cut
<1>2. /\ \A i, j \in 0 .. n : i < j => e[i] < e[j]
      /\ \A i \in 1 .. n : /\ SubSeq(t, e[i - 1] + 1, e[i]) \in PeerLine
                           /\ Chomp(SubSeq(t, e[i - 1] + 1, e[i])) = s[g + i]
  BY DEF Cut
<1>3. l \in Seq(Byte) /\ Len(l) \in Nat /\ Len(l) # 0
  <2>1. l \in Seq(Byte) /\ Len(l) \in LineEnds(l)  BY LineAssumption, TextIsSeq
  <2>2. LineEnds(l) \in SUBSET (1 .. Len(l))  BY <2>1, EndsAreFinite
  <2> QED BY <2>1, <2>2
<1>4. Chomp(l) \in Seq(Byte)  BY <1>3, ChompIsSeq
<1>5. /\ Len(s2) = Len(s) + 1 /\ s2[Len(s) + 1] = Chomp(l)
      /\ \A i \in 1 .. Len(s) : s2[i] = s[i]
  BY <1>4, AppendProperties
<1>6. /\ u \in Seq(Byte) /\ Len(u) = Len(t) + Len(l)
  BY <1>3, ConcatProperties
<1>7. Len(s2) - g = n + 1  BY <1>1, <1>5
<1> HIDE DEF n, s2
<1>8. \A i \in 0 .. n : i \in 0 .. n + 1 /\ i # n + 1 /\ f[i] = e[i] /\ e[i] \in Nat /\ e[i] <= Len(t)
  <2> SUFFICES ASSUME NEW i \in 0 .. n
               PROVE  i \in 0 .. n + 1 /\ i # n + 1 /\ f[i] = e[i] /\ e[i] \in Nat /\ e[i] <= Len(t)
    OBVIOUS
  <2>1. i \in 0 .. n + 1 /\ i # n + 1 /\ e[i] \in Nat  BY <1>1
  <2>2. f[i] = e[i]  BY <2>1
  <2>3. e[i] <= Len(t)
    <3>1. CASE i = n  BY <1>1, <3>1
    <3>2. CASE i # n
      <4>1. i < n /\ n \in 0 .. n  BY <1>1, <3>2
      <4> QED BY <1>1, <1>2, <2>1, <4>1
    <3> QED BY <3>1, <3>2
  <2> QED BY <2>1, <2>2, <2>3
<1>9. f[n + 1] = Len(t) + Len(l)  BY <1>1
<1>10. f \in [0 .. n + 1 -> Nat]
  <2>1. \A i \in 0 .. n + 1 : i # n + 1 => i \in 0 .. n  BY <1>1
  <2> QED BY <1>1, <1>3, <1>8, <2>1
<1> HIDE DEF f
<1>11. ASSUME NEW i \in 0 .. n + 1, NEW j \in 0 .. n + 1, i < j PROVE f[i] < f[j]
  <2>1. i \in 0 .. n  BY <1>1, <1>11
  <2>2. CASE j = n + 1  BY <1>1, <1>3, <1>8, <1>9, <2>1, <2>2
  <2>3. CASE j # n + 1
    <3>1. j \in 0 .. n  BY <1>1, <2>3
    <3> QED BY <1>2, <1>8, <1>11, <2>1, <3>1
  <2> QED BY <2>2, <2>3
<1>12. ASSUME NEW i \in 1 .. n + 1
       PROVE  /\ SubSeq(u, f[i - 1] + 1, f[i]) \in PeerLine
              /\ Chomp(SubSeq(u, f[i - 1] + 1, f[i])) = s2[g + i]
  <2>1. i - 1 \in 0 .. n /\ i \in 1 .. n + 1  BY <1>1
  <2>2. f[i - 1] = e[i - 1] /\ e[i - 1] \in Nat  BY <1>8, <2>1
  <2>3. CASE i = n + 1
    <3>1. f[i - 1] = Len(t) /\ f[i] = Len(t) + Len(l)
      <4>1. i - 1 = n  BY <1>1, <2>3
      <4> QED BY <1>1, <1>9, <2>2, <2>3, <4>1
    <3>2. SubSeq(u, Len(t) + 1, Len(t) + Len(l)) = SubSeq(l, Len(t) + 1 - Len(t), Len(t) + Len(l) - Len(t))
      <4>1. /\ Len(t) + 1 \in Len(t) + 1 .. Len(t) + Len(l)
            /\ Len(t) + Len(l) \in Len(t) + 1 .. Len(t) + Len(l)
        BY <1>1, <1>3
      <4> QED BY <1>3, <4>1, SubSeqOfConcat2
    <3>3. Len(t) + 1 - Len(t) = 1 /\ Len(t) + Len(l) - Len(t) = Len(l)  BY <1>1, <1>3
    <3>4. SubSeq(l, 1, Len(l)) = l  BY <1>3, SubSeqFull
    <3>5. g + i = Len(s) + 1  BY <1>1, <2>3 DEF n
    <3> HIDE DEF u
    <3> QED BY <1>5, <3>1, <3>2, <3>3, <3>4, <3>5
  <2>4. CASE i # n + 1
    <3>1. i \in 1 .. n /\ i \in 0 .. n  BY <1>1, <2>4
    <3>2. f[i] = e[i] /\ e[i] \in Nat /\ e[i] <= Len(t) /\ e[i - 1] < e[i]
      <4>1. i - 1 < i  BY <1>1
      <4> QED BY <1>2, <1>8, <2>1, <3>1, <4>1
    <3>3. SubSeq(u, e[i - 1] + 1, e[i]) = SubSeq(t, e[i - 1] + 1, e[i])
      <4>1. e[i - 1] + 1 \in 1 .. Len(t) /\ e[i] \in 1 .. Len(t)  BY <1>1, <2>2, <3>2
      <4> QED BY <1>3, <4>1, SubSeqOfConcat1
    <3>4. s2[g + i] = s[g + i]
      <4>1. g + i \in 1 .. Len(s)  BY <1>1, <3>1 DEF n
      <4> QED BY <1>5, <4>1
    <3> HIDE DEF u
    <3> QED BY <1>2, <2>2, <3>1, <3>2, <3>3, <3>4
  <2> QED BY <2>3, <2>4
<1>13. f[0] = 0
  <2>1. 0 \in 0 .. n  BY <1>1
  <2> QED BY <1>1, <1>8, <2>1
<1>14. g \in Nat /\ g <= Len(s2)  BY <1>1, <1>5
<1>15. Cut(u, f, g, s2)
  <2> HIDE DEF u
  <2> QED BY <1>6, <1>7, <1>9, <1>10, <1>11, <1>12, <1>13, <1>14 DEF Cut
<1> QED BY <1>15 DEF s2

(* A part of a rest is a part of the whole. *)
LEMMA PartOfRest ==
  ASSUME NEW t \in Seq(Byte), NEW k \in Nat, NEW a \in Nat, NEW b \in Nat,
         k <= a, a < b, b <= Len(t)
  PROVE  SubSeq(SubSeq(t, k + 1, Len(t)), a - k + 1, b - k) = SubSeq(t, a + 1, b)
<1> DEFINE u == SubSeq(t, k + 1, Len(t))
           p == SubSeq(u, a - k + 1, b - k)
           q == SubSeq(t, a + 1, b)
<1>1. Len(t) \in Nat /\ k <= Len(t) /\ k \in Nat  OBVIOUS
<1>2. u \in Seq(Byte) /\ Len(u) = Len(t) - k /\ \A i \in 1 .. Len(t) - k : u[i] = t[k + i]
  BY <1>1, PartOf
<1>3. q \in Seq(Byte) /\ Len(q) = b - a /\ \A j \in 1 .. b - a : q[j] = t[a + j]
  BY PartOf
<1> HIDE DEF u
<1>4. /\ p \in Seq(Byte) /\ Len(p) = b - k - (a - k)
      /\ \A j \in 1 .. b - k - (a - k) : p[j] = u[a - k + j]
  <2>1. a - k \in Nat /\ b - k \in Nat /\ a - k <= b - k /\ b - k <= Len(u)  BY <1>1, <1>2
  <2> QED BY <1>2, <2>1, PartOf
<1> HIDE DEF p, q
<1>5. ASSUME NEW j \in 1 .. Len(p) PROVE p[j] = q[j]
  <2>1. j \in 1 .. b - k - (a - k) /\ j \in 1 .. b - a  BY <1>4
  <2>2. a - k + j \in 1 .. Len(t) - k /\ k + (a - k + j) = a + j  BY <1>1, <2>1
  <2>3. u[a - k + j] = t[a + j]  BY <1>2, <2>2
  <2> QED BY <1>3, <1>4, <2>1, <2>3
<1>6. Len(p) = Len(q)  BY <1>3, <1>4
<1>7. p = q  BY <1>3, <1>4, <1>5, <1>6, SeqEqual
<1> QED BY <1>7 DEF p, q, u

(* The first line is taken. *)
LEMMA CutTake ==
  ASSUME NEW t \in Seq(Byte), t # <<>>, NEW s \in Seq(Seq(Byte)), NEW e, NEW g, Cut(t, e, g, s)
  PROVE  \E f : Cut(SubSeq(t, e[1] + 1, Len(t)), f, g + 1, s)
<1> DEFINE n == Len(s) - g
           k == e[1]
           u == SubSeq(t, k + 1, Len(t))
           f == [i \in 0 .. n - 1 |-> e[i + 1] - k]
<1>1. /\ g \in Nat /\ Len(s) \in Nat /\ g < Len(s) /\ e \in [0 .. n -> Nat] /\ e[0] = 0
      /\ e[n] = Len(t) /\ Len(t) \in Nat /\ n \in Nat /\ n # 0 /\ k \in 1 .. Len(t)
  <2>1. g < Len(s) /\ k \in 1 .. Len(t)  BY FirstOfCut
  <2>2. /\ g \in Nat /\ Len(s) \in Nat /\ e \in [0 .. n -> Nat] /\ e[0] = 0
        /\ e[n] = Len(t) /\ Len(t) \in Nat
    BY DEF Cut
  <2>3. n \in Nat /\ n # 0  BY <2>1, <2>2
  <2> QED BY <2>1, <2>2, <2>3
<1>2. /\ \A i, j \in 0 .. n : i < j => e[i] < e[j]
      /\ \A i \in 1 .. n : /\ SubSeq(t, e[i - 1] + 1, e[i]) \in PeerLine
                           /\ Chomp(SubSeq(t, e[i - 1] + 1, e[i])) = s[g + i]
  BY DEF Cut
<1>3. g + 1 \in Nat /\ g + 1 <= Len(s) /\ Len(s) - (g + 1) = n - 1  BY <1>1
<1> HIDE DEF n
<1>4. u \in Seq(Byte) /\ Len(u) = Len(t) - k /\ \A i \in 1 .. Len(t) - k : u[i] = t[k + i]
  BY <1>1, PartOf
<1>5. ASSUME NEW i \in 0 .. n - 1
      PROVE  i + 1 \in 1 .. n /\ i + 1 \in 0 .. n /\ e[i + 1] \in Nat /\ k <= e[i + 1]
             /\ f[i] = e[i + 1] - k /\ e[i + 1] <= Len(t)
  <2>1. i + 1 \in 1 .. n /\ i + 1 \in 0 .. n /\ 1 \in 0 .. n /\ n \in 0 .. n  BY <1>1
  <2>2. e[i + 1] \in Nat /\ k \in Nat  BY <1>1, <2>1
  <2>3. k <= e[i + 1]
    <3>1. CASE i + 1 = 1  BY <2>2, <3>1
    <3>2. CASE i + 1 # 1
      <4>1. 1 < i + 1  BY <2>1, <3>2
      <4>2. e[1] < e[i + 1]  BY <1>2, <2>1, <4>1
      <4> QED BY <2>2, <4>2
    <3> QED BY <3>1, <3>2
  <2>4. e[i + 1] <= Len(t)
    <3>1. CASE i + 1 = n  BY <1>1, <3>1
    <3>2. CASE i + 1 # n
      <4>1. i + 1 < n  BY <1>1, <2>1, <3>2
      <4>2. e[i + 1] < e[n]  BY <1>2, <2>1, <4>1
      <4> QED BY <1>1, <2>2, <4>2
    <3> QED BY <3>1, <3>2
  <2> QED BY <2>1, <2>2, <2>3, <2>4
<1>6. f \in [0 .. n - 1 -> Nat]
  <2>1. \A i \in 0 .. n - 1 : e[i + 1] - k \in Nat  BY <1>1, <1>5
  <2> QED BY <2>1
<1> HIDE DEF f
<1>7. f[0] = 0 /\ f[n - 1] = Len(u)
  <2>1. 0 \in 0 .. n - 1 /\ n - 1 \in 0 .. n - 1 /\ 0 + 1 = 1 /\ n - 1 + 1 = n  BY <1>1
  <2>2. f[0] = e[0 + 1] - k /\ f[n - 1] = e[n - 1 + 1] - k  BY <1>5, <2>1
  <2> QED BY <1>1, <1>4, <2>1, <2>2
<1> HIDE DEF k, u
<1>8. ASSUME NEW i \in 0 .. n - 1, NEW j \in 0 .. n - 1, i < j PROVE f[i] < f[j]
  <2>1. i + 1 < j + 1  BY <1>8
  <2>2. e[i + 1] < e[j + 1]  BY <1>2, <1>5, <2>1
  <2> QED BY <1>1, <1>5, <2>2
<1>9. ASSUME NEW i \in 1 .. n - 1
      PROVE  /\ SubSeq(u, f[i - 1] + 1, f[i]) \in PeerLine
             /\ Chomp(SubSeq(u, f[i - 1] + 1, f[i])) = s[(g + 1) + i]
  <2>1. /\ i \in 0 .. n - 1 /\ i - 1 \in 0 .. n - 1 /\ i + 1 \in 1 .. n
        /\ i - 1 + 1 = i /\ i + 1 - 1 = i /\ g + (i + 1) = (g + 1) + i /\ i - 1 < i
    BY <1>1
  <2>2. /\ e[i] \in Nat /\ k <= e[i] /\ f[i - 1] = e[i] - k
        /\ e[i + 1] \in Nat /\ e[i + 1] <= Len(t) /\ f[i] = e[i + 1] - k
    BY <1>5, <2>1
  <2>3. e[i] < e[i + 1]  BY <1>2, <1>5, <2>1
  <2>4. SubSeq(u, f[i - 1] + 1, f[i]) = SubSeq(t, e[i] + 1, e[i + 1])
    <3>1. k \in Nat  BY <1>1
    <3>2. SubSeq(u, e[i] - k + 1, e[i + 1] - k) = SubSeq(t, e[i] + 1, e[i + 1])
      BY <2>2, <2>3, <3>1, PartOfRest DEF u
    <3> QED BY <2>2, <3>2
  <2>5. /\ SubSeq(t, e[i + 1 - 1] + 1, e[i + 1]) \in PeerLine
        /\ Chomp(SubSeq(t, e[i + 1 - 1] + 1, e[i + 1])) = s[g + (i + 1)]
    BY <1>2, <2>1
  <2> QED BY <2>1, <2>4, <2>5
<1>10. Cut(u, f, g + 1, s)  BY <1>3, <1>6, <1>7, <1>8, <1>9 DEF Cut
<1> QED BY <1>10 DEF k, u

(* The state after a step, its parts named. *)
LEMMA RInvAgain ==
  ASSUME NEW r, ms' = r, Sound(r), wire' \in Seq(Byte), mesg' \in Seq(Byte),
         sent' \in Seq(Seq(Byte)), got' \in Seq(Seq(Byte)), toBuffer' = toBuffer,
         pc' = "recv" => r.datano = 0,
         \A i \in 1 .. Len(got') : Given(sent'[i], got'[i]),
         NEW e, Cut(Content(r) \o wire', e, Len(got'), sent')
  PROVE  RInv'
<1>1. Sound(ms)'  BY DEF Sound, FirstLine, Open
<1>2. Content(ms)' = Content(r)  BY DEF Content, ReadRing
<1>3. \A i \in 1 .. Len(got') : Given(sent[i], got[i])'  BY DEF Given
<1>4. \E f : Cut(Content(ms) \o wire, f, Len(got), sent)'  BY <1>2 DEF Cut
<1> QED BY <1>1, <1>3, <1>4 DEF RInv

(* Nothing of the stream changes in the step. *)
LEMMA RInvKept ==
  ASSUME RInv, UNCHANGED <<toBuffer, wire, sent, ms, got>>, mesg' \in Seq(Byte),
         pc' = "recv" => ms.datano = 0
  PROVE  RInv'
<1>1. PICK e : Cut(Content(ms) \o wire, e, Len(got), sent)  BY DEF RInv
<1>2. ms' = ms /\ wire' = wire /\ got' = got /\ sent' = sent /\ toBuffer' = toBuffer  OBVIOUS
<1>3. /\ Sound(ms) /\ wire' \in Seq(Byte) /\ sent' \in Seq(Seq(Byte)) /\ got' \in Seq(Seq(Byte))
      /\ \A i \in 1 .. Len(got') : Given(sent'[i], got'[i])
  BY <1>2 DEF RInv
<1>4. Cut(Content(ms) \o wire', e, Len(got'), sent')  BY <1>1, <1>2
<1> QED BY <1>2, <1>3, <1>4, RInvAgain

(* The beginning and the rest of a text with another behind it. *)
LEMMA HeadOfConcat ==
  ASSUME NEW t \in Seq(Byte), NEW w \in Seq(Byte)
  PROVE  SubSeq(t \o w, 1, Len(t)) = t
<1>1. CASE Len(t) = 0
  <2>1. SubSeq(t \o w, 1, Len(t)) = <<>>  BY <1>1, SubSeqEmpty
  <2> QED BY <1>1, <2>1, EmptySeq
<1>2. CASE Len(t) # 0
  <2>1. 1 \in 1 .. Len(t) /\ Len(t) \in 1 .. Len(t)  BY <1>2, LenProperties
  <2> QED BY <2>1, SubSeqOfConcat1, SubSeqFull
<1> QED BY <1>1, <1>2

LEMMA RestOfConcat ==
  ASSUME NEW t \in Seq(Byte), NEW w \in Seq(Byte), NEW k \in 0 .. Len(t)
  PROVE  SubSeq(t \o w, k + 1, Len(t \o w)) = SubSeq(t, k + 1, Len(t)) \o w
<1> DEFINE u == t \o w
           p == SubSeq(u, k + 1, Len(u))
           q == SubSeq(t, k + 1, Len(t))
<1>1. /\ u \in Seq(Byte) /\ Len(u) = Len(t) + Len(w) /\ Len(t) \in Nat /\ Len(w) \in Nat
      /\ \A i \in 1 .. Len(t) + Len(w) : u[i] = IF i <= Len(t) THEN t[i] ELSE w[i - Len(t)]
  BY ConcatProperties
<1> HIDE DEF u
<1>2. /\ p \in Seq(Byte) /\ Len(p) = Len(u) - k
      /\ \A i \in 1 .. Len(u) - k : p[i] = u[k + i]
  BY <1>1, PartOf
<1>3. q \in Seq(Byte) /\ Len(q) = Len(t) - k /\ \A i \in 1 .. Len(t) - k : q[i] = t[k + i]
  BY <1>1, PartOf
<1> HIDE DEF p, q
<1>4. /\ q \o w \in Seq(Byte) /\ Len(q \o w) = Len(q) + Len(w)
      /\ \A i \in 1 .. Len(q) + Len(w) : (q \o w)[i] = IF i <= Len(q) THEN q[i] ELSE w[i - Len(q)]
  BY <1>3, ConcatProperties
<1>5. Len(p) = Len(q \o w)  BY <1>1, <1>2, <1>3, <1>4
<1>6. ASSUME NEW i \in 1 .. Len(p) PROVE p[i] = (q \o w)[i]
  <2>1. i \in 1 .. Len(u) - k /\ i \in 1 .. Len(q) + Len(w) /\ k + i \in 1 .. Len(t) + Len(w)
    BY <1>1, <1>2, <1>3
  <2>2. p[i] = u[k + i] /\ (q \o w)[i] = IF i <= Len(q) THEN q[i] ELSE w[i - Len(q)]
    BY <1>2, <1>4, <2>1
  <2>3. CASE i <= Len(q)
    <3>1. i \in 1 .. Len(t) - k /\ k + i <= Len(t)  BY <1>1, <1>3, <2>1, <2>3
    <3> QED BY <1>1, <1>3, <2>1, <2>2, <2>3, <3>1
  <2>4. CASE ~(i <= Len(q))
    <3>1. ~(k + i <= Len(t)) /\ k + i - Len(t) = i - Len(q)  BY <1>1, <1>3, <2>1, <2>4
    <3> QED BY <1>1, <2>1, <2>2, <2>4, <3>1
  <2> QED BY <2>3, <2>4
<1>7. p = q \o w  BY <1>2, <1>4, <1>5, <1>6, SeqEqual
<1> QED BY <1>7 DEF p, q, u

(* What is stored of a line x over m. *)
LEMMA StoredIsGiven ==
  ASSUME NEW x \in Seq(Byte), NEW m \in Seq(Byte), NEW y,
         y = IF toBuffer THEN x ELSE CopyOver(Cropped(x), m)
  PROVE  y \in Seq(Byte) /\ Given(x, y)
<1> DEFINE I == {Sz - 1, Len(x)}
           p == Cropped(x)
<1>1. Len(x) \in Nat /\ Sz \in Nat /\ Sz - 1 \in Nat  BY SzAssumption
<1>2. CASE toBuffer  BY <1>2 DEF Given
<1>3. p \in Seq(Byte) /\ SubSeq(x, 1, Min(I)) = p
  <2>1. CASE Len(x) >= Sz
    <3>1. \A j \in I : Sz - 1 <= j  BY <1>1, <2>1
    <3>2. Min(I) = Sz - 1  BY <1>1, <3>1, MinIs
    <3>3. SubSeq(x, 0 + 1, Sz - 1) \in Seq(Byte)  BY <1>1, <2>1, PartOf
    <3>4. p = SubSeq(x, 1, Sz - 1)  BY <2>1 DEF Cropped
    <3>5. p \in Seq(Byte)  BY <3>3, <3>4
    <3> HIDE DEF p, I
    <3> QED BY <3>2, <3>4, <3>5
  <2>2. CASE ~(Len(x) >= Sz)
    <3>1. \A j \in I : Len(x) <= j  BY <1>1, <2>2
    <3>2. Min(I) = Len(x)  BY <1>1, <3>1, MinIs
    <3>3. p = x  BY <2>2 DEF Cropped
    <3> QED BY <3>2, <3>3, SubSeqFull
  <2> QED BY <2>1, <2>2
<1>4. CASE ~toBuffer
  <2> DEFINE z == SubSeq(m, Len(p) + 1, Len(m))
  <2> HIDE DEF p
  <2>1. Len(p) \in Nat  BY <1>3, LenProperties
  <2>2. z \in Seq(Byte)
    <3>1. \A i \in Len(p) + 1 .. Len(m) : m[i] \in Byte
      <4>1. \A i \in Len(p) + 1 .. Len(m) : i \in 1 .. Len(m)  BY <2>1, LenProperties
      <4> QED BY <4>1, ElementOfSeq
    <3>2. Len(p) + 1 \in Int /\ Len(m) \in Int  BY <2>1, LenProperties
    <3> QED BY <3>1, <3>2, SubSeqProperties
  <2>3. y = p \o z  BY <1>4 DEF CopyOver, p
  <2> HIDE DEF z
  <2>4. y \in Seq(Byte) /\ Len(p) <= Len(y)
    <3>1. y \in Seq(Byte) /\ Len(y) = Len(p) + Len(z)  BY <1>3, <2>2, <2>3, ConcatProperties
    <3> QED BY <2>1, <2>2, <3>1, LenProperties
  <2>5. SubSeq(y, 1, Len(p)) = p  BY <1>3, <2>2, <2>3, HeadOfConcat
  <2>6. IsPrefix(p, y)  BY <2>4, <2>5 DEF IsPrefix
  <2> QED BY <1>3, <1>4, <2>4, <2>6 DEF Given
<1> QED BY <1>2, <1>4

(* The end of a call that finds a line in the mstream. *)
LEMMA DeliverStep ==
  ASSUME NEW r, Sound(r), r.datano # 0, NEW m \in Seq(Byte), Deliver(r, m),
         NEW e, Cut(Content(r) \o wire', e, Len(got), sent), wire' \in Seq(Byte),
         sent \in Seq(Seq(Byte)), got \in Seq(Seq(Byte)), sent' = sent, toBuffer' = toBuffer,
         \A i \in 1 .. Len(got) : Given(sent[i], got[i])
  PROVE  RInv'
<1> DEFINE t == Content(r)
           u == t \o wire'
           k == e[1]
           q == GetStream(r)
           x == NextLine(r)
           y == IF toBuffer THEN x ELSE CopyOver(Cropped(x), m)
<1>1. LineEnds(t) # {} /\ HasLine(r)  BY LineIsThere
<1>2. r \in Ring /\ t \in Seq(Byte) /\ Open(t)  BY ContentIsSeq DEF Sound
<1>3. Min(LineEnds(t)) = k /\ k \in 1 .. Len(t) /\ Chomp(SubSeq(t, 1, k)) = sent[Len(got) + 1]
  BY <1>1, <1>2, FirstOfArrived
<1>4. x = sent[Len(got) + 1]  BY <1>1, <1>3, LineIsRead
<1>5. Sound(q) /\ Content(q) = SubSeq(t, k + 1, Len(t))  BY <1>1, <1>3, GetIsSound
<1>6. pc' = "idle" /\ ms' = q /\ mesg' = y /\ got' = Append(got, y)
  BY <1>1 DEF Deliver
<1> HIDE DEF q, x, y
<1>7. u \in Seq(Byte) /\ u # <<>>
  <2>1. u \in Seq(Byte) /\ Len(u) = Len(t) + Len(wire')  BY <1>2, ConcatProperties
  <2>2. Len(u) # 0  BY <1>2, <1>3, <2>1, LenProperties
  <2> QED BY <2>1, <2>2, EmptySeq
<1>8. SubSeq(u, k + 1, Len(u)) = Content(q) \o wire'
  <2>1. k \in 0 .. Len(t)  BY <1>3
  <2> HIDE DEF t, k
  <2> QED BY <1>2, <1>5, <2>1, RestOfConcat
<1>9. Cut(u, e, Len(got), sent)  OBVIOUS
<1>10. PICK f : Cut(SubSeq(u, k + 1, Len(u)), f, Len(got) + 1, sent)
  <2> HIDE DEF u
  <2> QED BY <1>7, <1>9, CutTake
<1>11. Len(got) \in Nat /\ Len(got) + 1 \in 1 .. Len(sent)
  <2>1. Len(got) \in Nat /\ Len(got) + 1 <= Len(sent)  BY <1>10, LenProperties DEF Cut
  <2> QED BY <2>1, LenProperties
<1>12. x \in Seq(Byte)  BY <1>4, <1>11, ElementOfSeq
<1>13. y \in Seq(Byte) /\ Given(x, y)  BY <1>12, StoredIsGiven DEF y
<1>14. /\ got' \in Seq(Seq(Byte)) /\ Len(got') = Len(got) + 1 /\ got'[Len(got) + 1] = y
       /\ \A i \in 1 .. Len(got) : got'[i] = got[i]
  BY <1>6, <1>13, AppendProperties
<1>15. ASSUME NEW i \in 1 .. Len(got') PROVE Given(sent'[i], got'[i])
  <2>1. CASE i = Len(got) + 1  BY <1>4, <1>13, <1>14, <2>1
  <2>2. CASE i # Len(got) + 1
    <3>1. i \in 1 .. Len(got)  BY <1>11, <1>14, <2>2
    <3> QED BY <1>14, <3>1
  <2> QED BY <2>1, <2>2
<1>16. Cut(Content(q) \o wire', f, Len(got'), sent')  BY <1>8, <1>10, <1>14
<1> QED BY <1>5, <1>6, <1>13, <1>14, <1>15, <1>16, RInvAgain

LEMMA InitStep == ASSUME ReceiverInit PROVE RInv
<1> DEFINE e == [i \in 0 .. 0 |-> 0]
<1>1. ms = EmptyRing /\ wire = <<>> /\ sent = <<>> /\ mesg = <<>> /\ got = <<>> /\ pc = "idle"
  BY DEF ReceiverInit
<1>2. Sound(ms) /\ Content(ms) = <<>>  BY <1>1, EmptyIsSound
<1>3. <<>> \in Seq(Byte) /\ <<>> \in Seq(Seq(Byte)) /\ Len(<<>>) = 0  BY EmptySeq
<1>4. Content(ms) \o wire = <<>>  BY <1>1, <1>2, <1>3, ConcatEmptySeq
<1>5. Cut(<<>>, e, 0, <<>>)
  <2>1. e \in [0 .. 0 -> Nat] /\ e[0] = 0 /\ 0 - 0 = 0 /\ Len(<<>>) - 0 = 0  BY <1>3
  <2>2. \A i, j \in 0 .. 0 : i < j => e[i] < e[j]  OBVIOUS
  <2>3. \A i \in 1 .. 0 : FALSE  OBVIOUS
  <2> HIDE DEF e
  <2> QED BY <1>3, <2>1, <2>2, <2>3 DEF Cut
<1>6. \A i \in 1 .. Len(got) : FALSE  BY <1>1, <1>3
<1>7. Cut(Content(ms) \o wire, e, Len(got), sent)  BY <1>1, <1>3, <1>4, <1>5
<1> HIDE DEF e
<1> QED BY <1>1, <1>2, <1>3, <1>6, <1>7 DEF RInv

LEMMA SendStep ==
  ASSUME RInv, NEW l \in PeerLine, PeerSend(l)
  PROVE  RInv'
<1> DEFINE t == Content(ms)
<1>1. /\ wire' = wire \o l /\ sent' = Append(sent, Chomp(l)) /\ toBuffer' = toBuffer
      /\ pc' = pc /\ ms' = ms /\ mesg' = mesg /\ got' = got
  BY DEF PeerSend
<1>2. /\ Sound(ms) /\ wire \in Seq(Byte) /\ mesg \in Seq(Byte)
      /\ sent \in Seq(Seq(Byte)) /\ got \in Seq(Seq(Byte)) /\ (pc = "recv" => ms.datano = 0)
      /\ \A i \in 1 .. Len(got) : Given(sent[i], got[i])
  BY DEF RInv
<1>3. PICK e : Cut(t \o wire, e, Len(got), sent)  BY DEF RInv
<1>4. t \in Seq(Byte)  BY <1>2, ContentIsSeq DEF Sound
<1>5. l \in Seq(Byte) /\ Chomp(l) \in Seq(Byte)  BY LineAssumption, TextIsSeq, ChompIsSeq
<1> HIDE DEF t
<1>6. t \o wire \in Seq(Byte) /\ (t \o wire) \o l = t \o wire' /\ wire' \in Seq(Byte)
  <2>1. t \in Seq(Byte) /\ wire \in Seq(Byte) /\ l \in Seq(Byte)  BY <1>2, <1>4, <1>5
  <2>2. (t \o wire) \o l = t \o (wire \o l)  BY <2>1, ConcatAssociative
  <2>3. t \o wire \in Seq(Byte) /\ wire \o l \in Seq(Byte)  BY <2>1, ConcatProperties
  <2> QED BY <1>1, <2>2, <2>3
<1>7. PICK f : Cut(t \o wire', f, Len(got), sent')
  <2>1. \E f : Cut((t \o wire) \o l, f, Len(got), Append(sent, Chomp(l)))
    BY <1>2, <1>3, <1>6, CutSend
  <2> QED BY <1>1, <1>6, <2>1
<1>8. /\ sent' \in Seq(Seq(Byte))
      /\ \A i \in 1 .. Len(sent) : sent'[i] = sent[i]
  BY <1>1, <1>2, <1>5, AppendProperties
<1>9. Len(got) <= Len(sent) /\ Len(got) \in Nat /\ Len(sent) \in Nat
  BY <1>2, <1>3, LenProperties DEF Cut
<1>10. ASSUME NEW i \in 1 .. Len(got') PROVE Given(sent'[i], got'[i])
  <2>1. i \in 1 .. Len(got) /\ i \in 1 .. Len(sent)  BY <1>1, <1>9
  <2> QED BY <1>1, <1>2, <1>8, <2>1
<1>11. Cut(t \o wire', f, Len(got'), sent')  BY <1>1, <1>7
<1> QED BY <1>1, <1>2, <1>6, <1>8, <1>10, <1>11, RInvAgain DEF t

LEMMA CallStep ==
  ASSUME RInv, Call
  PROVE  RInv'
<1>1. /\ Sound(ms) /\ wire \in Seq(Byte) /\ mesg \in Seq(Byte)
      /\ sent \in Seq(Seq(Byte)) /\ got \in Seq(Seq(Byte))
      /\ \A i \in 1 .. Len(got) : Given(sent[i], got[i])
  BY DEF RInv
<1>2. PICK e : Cut(Content(ms) \o wire, e, Len(got), sent)  BY DEF RInv
<1>3. toBuffer' = toBuffer /\ wire' = wire /\ sent' = sent  BY DEF Call
<1>4. PICK m \in {<<>>} \cup (IF toBuffer THEN {} ELSE {mesg}) :
        \/ ms.datano # 0 /\ Deliver(ms, m)
        \/ /\ ms.datano = 0 /\ pc' = "recv" /\ mesg' = m /\ UNCHANGED <<ms, got, res>>
  BY DEF Call
<1>0. m \in Seq(Byte)  BY <1>1, EmptySeq
<1>5. CASE ms.datano # 0 /\ Deliver(ms, m)
  <2>1. Cut(Content(ms) \o wire', e, Len(got), sent) /\ wire' \in Seq(Byte)  BY <1>1, <1>2, <1>3
  <2> QED BY <1>0, <1>1, <1>3, <1>5, <2>1, DeliverStep
<1>6. CASE ms.datano = 0 /\ mesg' = m /\ UNCHANGED <<ms, got, res>>
  BY <1>0, <1>3, <1>6, RInvKept
<1> QED BY <1>4, <1>5, <1>6

(* What recv returns is put behind what is there: there is room for it, and *)
(* what the peer has sent is still cut into its lines.                      *)
LEMMA RecvStep ==
  ASSUME ~CutAnywhere, RInv, NEW n \in 1 .. Sz, RecvSome(n), ~overread'
  PROVE  RInv'
<1> DEFINE t == Content(ms)
           chunk == SubSeq(wire, 1, n)
           rest == SubSeq(wire, n + 1, Len(wire))
           s == PutStream(ms, chunk)
           m == IF toBuffer THEN <<>> ELSE chunk
<1>1. /\ Sound(ms) /\ wire \in Seq(Byte) /\ sent \in Seq(Seq(Byte)) /\ got \in Seq(Seq(Byte))
      /\ pc = "recv" => ms.datano = 0
      /\ \A i \in 1 .. Len(got) : Given(sent[i], got[i])
  BY DEF RInv
<1>2. PICK e : Cut(t \o wire, e, Len(got), sent)  BY DEF RInv
<1>3. /\ pc = "recv" /\ n <= Len(wire) /\ wire' = rest /\ Tame(chunk)
      /\ toBuffer' = toBuffer /\ sent' = sent
  BY DEF RecvSome
<1>0. PICK more \in Behind(n) :
        LET text == chunk \o more
            b    == IF toBuffer THEN <<>> ELSE text
        IN  /\ overread' = (overread \/ more # <<>>)
            /\ \E r \in {PutStream(ms, text)} :
                 \/ r.datano # 0 /\ Deliver(r, b)
                 \/ /\ r.datano = 0
                    /\ ms' = r /\ mesg' = b
                    /\ UNCHANGED <<pc, got, res>>
  BY DEF RecvSome
<1>4. n \in Nat /\ n # 0 /\ Len(wire) \in Nat /\ n \in 1 .. Len(wire)
  BY <1>1, <1>3, SzAssumption, LenProperties
<1>5. ms \in Ring /\ t \in Seq(Byte) /\ Open(t) /\ LineEnds(t) = {} /\ Len(t) = ms.datasz
  BY <1>1, <1>3, LineIsThere, ContentIsSeq DEF Sound
<1>6. chunk \in Seq(Byte) /\ Len(chunk) = n /\ rest \in Seq(Byte)
  <2>1. SubSeq(wire, 0 + 1, n) \in Seq(Byte) /\ Len(SubSeq(wire, 0 + 1, n)) = n - 0
    BY <1>1, <1>4, PartOf
  <2>2. rest \in Seq(Byte)  BY <1>1, <1>4, PartOf
  <2> QED BY <1>4, <2>1, <2>2
<1>7. chunk \o rest = wire
  <2>1. /\ 1 \in 1 .. Len(wire) + 1 /\ n \in 1 - 1 .. Len(wire) /\ Len(wire) \in n .. Len(wire)
    BY <1>4
  <2>2. chunk \o rest = SubSeq(wire, 1, Len(wire))  BY <1>1, <2>1, ConcatAdjacentSubSeq
  <2> QED BY <1>1, <2>2, SubSeqFull
<1>8. m \in Seq(Byte)  BY <1>6, EmptySeq
<1>18. \/ s.datano # 0 /\ Deliver(s, m)
       \/ /\ s.datano = 0 /\ ms' = s /\ mesg' = m /\ UNCHANGED <<pc, got, res>>
  <2>1. more = <<>>  BY <1>0
  <2>2. chunk \o more = chunk  BY <1>6, <2>1, ConcatEmptySeq
  <2> HIDE DEF chunk
  <2> QED BY <1>0, <2>2
<1> HIDE DEF t, chunk, rest, s, m
<1>9. (t \o chunk) \o rest = t \o wire
  <2>1. (t \o chunk) \o rest = t \o (chunk \o rest)  BY <1>5, <1>6, ConcatAssociative
  <2> QED BY <1>7, <2>1
<1>10. /\ t \o chunk \in Seq(Byte) /\ Len(t \o chunk) = Len(t) + n
       /\ \A i \in 1 .. Len(t) + n : (t \o chunk)[i] = IF i <= Len(t) THEN t[i] ELSE chunk[i - Len(t)]
  BY <1>5, <1>6, ConcatProperties
<1>11. Open(t \o chunk)
  <2>1. chunk[n] # CR
    <3>1. chunk # <<>>  BY <1>4, <1>6, EmptySeq
    <3> QED BY <1>3, <1>6, <3>1 DEF Tame
  <2>2. Len(t) \in Nat  BY <1>5, LenProperties
  <2>3. Len(t) + n \in 1 .. Len(t) + n /\ ~(Len(t) + n <= Len(t)) /\ Len(t) + n - Len(t) = n
    BY <1>4, <2>2
  <2>4. (t \o chunk)[Len(t) + n] = chunk[n]  BY <1>10, <2>3
  <2> QED BY <1>10, <2>1, <2>4 DEF Open
<1>12. Near(t \o chunk)
  <2>1. Cut((t \o chunk) \o rest, e, Len(got), sent)  BY <1>2, <1>9
  <2> QED BY <1>1, <1>6, <1>10, <1>11, <2>1, FirstOfArrived
<1>13. Fits(ms, chunk)
  <2>1. t \o wire # <<>>
    <3>1. wire # <<>>  BY <1>4, EmptySeq
    <3> QED BY <1>1, <1>5, <3>1, ConcatEqualIffEmpty
  <2>2. Len(t) + Sz < BufSz  BY <1>1, <1>2, <1>5, <2>1, FirstOfArrived
  <2>3. Len(t) \in Nat /\ n <= Sz  BY <1>5, LenProperties
  <2>4. Len(t) + n <= BufSz  BY <1>4, <2>2, <2>3, SzAssumption, BufSzAssumption
  <2> QED BY <1>5, <1>6, <2>4 DEF Fits
<1>14. Sound(s) /\ Content(s) = t \o chunk
  <2>1. Sound(PutStream(ms, chunk)) /\ Content(PutStream(ms, chunk)) = t \o chunk
    BY <1>1, <1>3, <1>6, <1>12, <1>13, PutIsSound DEF t
  <2> QED BY <2>1 DEF s
<1>15. Cut(Content(s) \o wire', e, Len(got), sent) /\ wire' \in Seq(Byte)
  BY <1>2, <1>3, <1>6, <1>9, <1>14
<1>16. CASE s.datano # 0 /\ Deliver(s, m)
  BY <1>1, <1>3, <1>8, <1>14, <1>15, <1>16, DeliverStep
<1>17. CASE s.datano = 0 /\ ms' = s /\ mesg' = m /\ UNCHANGED <<pc, got, res>>
  <2>1. got' = got /\ Cut(Content(s) \o wire', e, Len(got'), sent')  BY <1>3, <1>15, <1>17
  <2>2. /\ sent' \in Seq(Seq(Byte)) /\ got' \in Seq(Seq(Byte)) /\ mesg' \in Seq(Byte)
        /\ \A i \in 1 .. Len(got') : Given(sent'[i], got'[i])
    BY <1>1, <1>3, <1>8, <1>17, <2>1
  <2> QED BY <1>3, <1>14, <1>15, <1>17, <2>1, <2>2, RInvAgain
<1> QED BY <1>16, <1>17, <1>18

(* A timeout, the end of the connection and its closing change no text. *)
LEMMA QuietStep ==
  ASSUME RInv, PeerClose \/ RecvTimeout \/ RecvEnd \/ UNCHANGED receiverVars
  PROVE  RInv'
<1>1. mesg \in Seq(Byte) /\ (pc = "recv" => ms.datano = 0) /\ <<>> \in Seq(Byte)
  BY EmptySeq DEF RInv
<1>2. CASE PeerClose  BY <1>1, <1>2, RInvKept DEF PeerClose
<1>3. CASE RecvTimeout  BY <1>1, <1>3, RInvKept DEF RecvTimeout
<1>4. CASE RecvEnd  BY <1>1, <1>4, RInvKept DEF RecvEnd
<1>5. CASE UNCHANGED receiverVars  BY <1>1, <1>5, RInvKept DEF receiverVars
<1> QED BY <1>2, <1>3, <1>4, <1>5

LEMMA RInvShowsOrder == ASSUME RInv PROVE LinesInOrder
<1>1. Len(got) <= Len(sent) /\ got \in Seq(Seq(Byte))
  <2>1. PICK e : Cut(Content(ms) \o wire, e, Len(got), sent)  BY DEF RInv
  <2> QED BY <2>1 DEF RInv, Cut
<1>2. \A i \in DOMAIN got : Given(sent[i], got[i])  BY <1>1, LenProperties DEF RInv
<1>3. ASSUME NEW i \in DOMAIN got
      PROVE  IF toBuffer THEN got[i] = sent[i]
             ELSE IsPrefix(SubSeq(sent[i], 1, Min({Sz - 1, Len(sent[i])})), got[i])
  BY <1>2 DEF Given
<1> QED BY <1>1, <1>3 DEF LinesInOrder

(* Whatever lines the peer sends, however many and however TCP cuts them    *)
(* where put_mstream can count, whichever calls time out in between and     *)
(* whenever the peer closes, tcp_recv_mstream and tcp_recv_mstream_Buffer   *)
(* give their caller the lines that were sent, in order and once, as long   *)
(* as no segment has filled a char array with something else than '\0'      *)
(* behind it.                                                               *)
THEOREM LinesComeInOrder ==
  ASSUME ~CutAnywhere
  PROVE  ReceiverSpec => []LinesInOrder
<1> DEFINE Inv == ~overread => RInv
<1>1. ReceiverInit => Inv  BY InitStep
<1>2. Inv /\ [ReceiverNext]_receiverVars => Inv'
  <2> SUFFICES ASSUME Inv, [ReceiverNext]_receiverVars, ~overread' PROVE RInv'
    OBVIOUS
  <2>1. ~overread
    BY DEF ReceiverNext, PeerSend, PeerClose, Call, RecvData, RecvSome, RecvTimeout, RecvEnd,
           receiverVars
  <2> QED BY <2>1, SendStep, CallStep, RecvStep, QuietStep DEF ReceiverNext, RecvData
<1>3. Inv => LinesInOrder
  <2> SUFFICES ASSUME Inv, ~overread PROVE LinesInOrder  BY DEF LinesInOrder
  <2> QED BY RInvShowsOrder
<1> QED BY <1>1, <1>2, <1>3, PTL DEF ReceiverSpec
=============================================================================
