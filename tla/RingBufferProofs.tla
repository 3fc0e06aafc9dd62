-------------------------- MODULE RingBufferProofs --------------------------
(***************************************************************************)
(* Proofs about RingBuffer for every buffer size, every set of bytes and   *)
(* every set of chunks.                                                    *)
(***************************************************************************)
EXTENDS RingBuffer, RingOpsProofs
-----------------------------------------------------------------------------
(* The strengthening under which every action is safe. *)
IInv == TypeOK /\ CursorsAgree

LEMMA OutcomeTyped ==
  ASSUME NEW call \in CallName, NEW arg \in Int
  PROVE  /\ \A data \in Seq(Byte) : Returns(call, arg, data) \in Outcome
         /\ Fails(call, arg) \in Outcome
BY <<>> \in Seq(Byte) DEF Returns, Fails, Outcome

LEMMA InitIInv == Init => IInv
<1> SUFFICES ASSUME Init PROVE IInv
  OBVIOUS
<1>1. out \in Outcome
  <2>1. <<>> \in Seq(Byte) /\ "init" \in CallName /\ 0 \in Int
    BY DEF CallName
  <2> QED
    BY <2>1, OutcomeTyped DEF Init
<1>2. rb \in Ring /\ open \in BOOLEAN
  BY EmptyRingIsRing DEF Init
<1>3. CursorsAgree
  BY BufSzAssumption DEF Init, EmptyRing, CursorsAgree, Wrap
<1> QED
  BY <1>1, <1>2, <1>3 DEF IInv, TypeOK

LEMMA NextIInv == IInv /\ [Next]_vars => IInv'
<1> SUFFICES ASSUME IInv, [Next]_vars PROVE IInv'
  OBVIOUS
<1>e. <<>> \in Seq(Byte)
  OBVIOUS
<1>t. rb \in Ring /\ open \in BOOLEAN /\ out \in Outcome /\ CursorsAgree
  BY DEF IInv, TypeOK
<1>i. ASSUME rb' \in Ring, open' \in BOOLEAN, out' \in Outcome, CursorsAgree'
      PROVE  IInv'
  BY <1>i DEF IInv, TypeOK
<1>0. UNCHANGED rb => CursorsAgree'
  BY <1>t DEF CursorsAgree
<1>1. CASE Make \/ Clear \/ Free
  <2>1. rb' = EmptyRing /\ open' \in BOOLEAN
    BY <1>1, <1>t DEF Make, Clear, Free
  <2>2. out' \in Outcome
    <3>1. {"make", "clear", "free"} \subseteq CallName /\ 0 \in Int
      BY DEF CallName
    <3> QED
      BY <1>1, <1>e, <3>1, OutcomeTyped DEF Make, Clear, Free
  <2>3. CursorsAgree'
    BY <2>1, BufSzAssumption DEF EmptyRing, CursorsAgree, Wrap
  <2> QED
    BY <1>i, <2>1, <2>2, <2>3, EmptyRingIsRing
<1>2. ASSUME NEW s \in Chunk, Put(s) PROVE IInv'
  <2>1. s \in Seq(Byte) /\ Len(s) \in Nat
    BY ChunkAssumption
  <2>2. out' \in Outcome /\ open' \in BOOLEAN
    <3>1. "put" \in CallName /\ Len(s) \in Int
      BY <2>1 DEF CallName
    <3>2. Returns("put", Len(s), <<>>) \in Outcome /\ Fails("put", Len(s)) \in Outcome
      BY <1>e, <3>1, OutcomeTyped
    <3> QED
      BY <1>2, <1>t, <3>2 DEF Put
  <2>3. CASE open
    <3>1. rb' = PutRing(rb, s)
      BY <1>2, <2>3 DEF Put
    <3>2. rb' \in Ring
      BY <2>1, <3>1, <1>t, PutRingIsRing
    <3>3. CASE Fits(rb, s)
      <4>1. /\ rb'.spoint = rb.spoint
            /\ rb'.epoint = Wrap(rb.epoint + Len(s))
            /\ rb'.datasz = rb.datasz + Len(s)
        BY <3>1, <3>3, <1>t DEF PutRing, Ring
      <4>2. rb.spoint \in Index /\ rb.datasz \in 0 .. BufSz /\ rb.datasz + Len(s) \in 0 .. BufSz
        BY <2>1, <3>3, <1>t, BufSzAssumption DEF Ring, Fits
      <4>3. CursorsAgree'
        BY <2>1, <4>1, <4>2, <1>t, WrapTwice DEF CursorsAgree
      <4> QED
        BY <1>i, <2>2, <3>2, <4>3
    <3>4. CASE ~Fits(rb, s)
      <4>1. CursorsAgree'
        BY <3>1, <3>4, <1>t DEF PutRing, CursorsAgree, Ring
      <4> QED
        BY <1>i, <2>2, <3>2, <4>1
    <3> QED
      BY <3>3, <3>4
  <2>4. CASE ~open
    <3>1. rb' = [rb EXCEPT !.state = "NORMAL"]
      BY <1>2, <2>4 DEF Put
    <3>2. rb' \in Ring /\ CursorsAgree'
      BY <3>1, <1>t DEF Ring, RingState, CursorsAgree
    <3> QED
      BY <1>i, <2>2, <3>2
  <2> QED
    BY <2>3, <2>4
<1>3. ASSUME NEW n \in Size, Get(n) PROVE IInv'
  <2>1. n \in Nat
    BY BufSzAssumption DEF Size
  <2>2. CASE n <= rb.datasz /\ rb' = DropRing(rb, n) /\ open' = open
             /\ out' = Returns("get", n, ReadRing(rb, n))
    <3>1. rb' \in Ring
      BY <2>1, <2>2, <1>t, DropRingIsRing, BufSzAssumption DEF Ring
    <3>2. ReadRing(rb, n) \in Seq(Byte)
      BY <2>1, <2>2, <1>t, ReadRingIsSeq, BufSzAssumption DEF Ring
    <3>3. CursorsAgree'
      <4>1. rb.datasz - n \in 0 .. BufSz
        BY <2>1, <2>2, <1>t, BufSzAssumption DEF Ring
      <4> QED
        BY <2>1, <2>2, <4>1, <1>t, DropKeepsCursors DEF CursorsAgree
    <3>4. out' \in Outcome
      BY <2>1, <2>2, <3>2, OutcomeTyped DEF CallName
    <3> QED
      BY <2>2, <1>t, <1>i, <3>1, <3>3, <3>4
  <2>3. CASE out' = Fails("get", n) /\ UNCHANGED <<open, rb>>
    BY <2>1, <2>3, <1>t, <1>i, <1>0, OutcomeTyped DEF CallName
  <2> QED
    BY <1>3, <2>2, <2>3 DEF Get
<1>4. ASSUME NEW n \in -(BufSz + 1) .. BufSz + 1, Seek(n) PROVE IInv'
  <2>1. n \in Int
    BY BufSzAssumption
  <2>2. CASE n <= rb.datasz /\ rb.datasz - n <= BufSz /\ rb' = DropRing(rb, n)
             /\ open' = open /\ out' = Returns("seek", n, <<>>)
    <3>1. rb' \in Ring
      BY <2>1, <2>2, <1>t, DropRingIsRing
    <3>2. CursorsAgree'
      <4>1. rb.datasz - n \in 0 .. BufSz
        BY <2>1, <2>2, <1>t, BufSzAssumption DEF Ring
      <4> QED
        BY <2>1, <2>2, <4>1, <1>t, DropKeepsCursors DEF CursorsAgree
    <3>3. out' \in Outcome
      <4>1. "seek" \in CallName
        BY DEF CallName
      <4> QED
        BY <2>1, <2>2, <4>1, <1>e, OutcomeTyped
    <3> QED
      BY <2>2, <1>t, <1>i, <3>1, <3>2, <3>3
  <2>3. CASE out' = Fails("seek", n) /\ UNCHANGED <<open, rb>>
    BY <2>1, <2>3, <1>t, <1>i, <1>0, OutcomeTyped DEF CallName
  <2> QED
    BY <1>4, <2>2, <2>3 DEF Seek
<1>5. ASSUME NEW pos \in Size, Ref(pos) PROVE IInv'
  <2>1. pos \in Nat
    BY BufSzAssumption DEF Size
  <2>2. CASE pos <= rb.datasz /\ UNCHANGED <<open, rb>>
             /\ out' = Returns("ref", pos, <<rb.buf[Wrap(rb.spoint + pos)]>>)
    <3>1. rb.spoint + pos \in Int /\ -BufSz <= rb.spoint + pos /\ rb.spoint + pos < 2 * BufSz
      BY <2>1, <2>2, <1>t, BufSzAssumption DEF Ring, Index
    <3>2. rb.buf[Wrap(rb.spoint + pos)] \in Byte
      BY <3>1, <1>t, WrapIsIndex DEF Ring
    <3>3. out' \in Outcome
      <4>1. "ref" \in CallName
        BY DEF CallName
      <4>2. <<rb.buf[Wrap(rb.spoint + pos)]>> \in Seq(Byte)
        BY <3>2
      <4> DEFINE d == <<rb.buf[Wrap(rb.spoint + pos)]>>
      <4>3. d \in Seq(Byte) /\ out' = Returns("ref", pos, d) /\ pos \in Int
        BY <2>1, <2>2, <4>2
      <4> HIDE DEF d
      <4> QED
        BY <4>1, <4>3, OutcomeTyped
    <3> QED
      BY <2>2, <1>t, <1>i, <1>0, <3>3
  <2>3. CASE out' = Fails("ref", pos) /\ UNCHANGED <<open, rb>>
    BY <2>1, <2>3, <1>t, <1>i, <1>0, OutcomeTyped DEF CallName
  <2> QED
    BY <1>5, <2>2, <2>3 DEF Ref
<1>6. CASE UNCHANGED vars
  BY <1>6, <1>t, <1>i, <1>0 DEF vars
<1> QED
  BY <1>1, <1>2, <1>3, <1>4, <1>5, <1>6 DEF Next

LEMMA IInvHolds == Spec => []IInv
BY InitIInv, NextIInv, PTL DEF Spec

(* Every cursor stays inside the buffer and every size inside its bounds,   *)
(* whatever is called.                                                      *)
THEOREM TypeCorrect == Spec => []TypeOK
BY IInvHolds, PTL DEF IInv

(* put, get and seek keep epoint datasz bytes after spoint. *)
THEOREM CursorsAlwaysAgree == Spec => []CursorsAgree
BY IInvHolds, PTL DEF IInv
-----------------------------------------------------------------------------
LEMMA InitTape == Init => Tape!Init
BY EmptyTape DEF Init, Tape!Init, Tape!Blank, Returns, Tape!Returns

(* Each call on the ring is the same call on the tape. *)
LEMMA StepTape == IInv /\ IInv' /\ [Next]_vars => [Tape!Next]_(Tape!vars)
<1> SUFFICES ASSUME IInv, IInv', [Next]_vars PROVE [Tape!Next]_(Tape!vars)
  OBVIOUS
<1>t. rb \in Ring /\ open \in BOOLEAN /\ out \in Outcome /\ rb.epoint = Wrap(rb.spoint + rb.datasz)
  BY DEF IInv, TypeOK, CursorsAgree
<1>o. /\ \A c, x, d : Returns(c, x, d) = Tape!Returns(c, x, d)
      /\ \A c, x : Fails(c, x) = Tape!Fails(c, x)
  BY DEF Returns, Fails, Tape!Returns, Tape!Fails
<1>1. CASE Make \/ Clear \/ Free
  BY <1>1, <1>o, EmptyTape
     DEF Make, Clear, Free, Tape!Next, Tape!Make, Tape!Clear, Tape!Free, Tape!Blank
<1>2. ASSUME NEW s \in Chunk, Put(s) PROVE Tape!Next
  <2>1. s \in Seq(Byte) /\ Len(s) \in Nat
    BY ChunkAssumption
  <2>2. CASE open /\ Fits(rb, s)
    <3>1. rb' = PutRing(rb, s) /\ out' = Returns("put", Len(s), <<>>) /\ open' = open
      BY <1>2, <2>2 DEF Put
    <3>2. rb'.datasz = rb.datasz + Len(s)
      BY <2>2, <3>1, <1>t DEF PutRing, Ring
    <3>3. LastBytes(rb') = SubSeq(LastBytes(rb) \o s, Len(s) + 1, BufSz + Len(s))
      BY <2>1, <2>2, <3>1, <1>t, PutIsAppend
    <3>4. Tape!Put(s)
      BY <2>2, <3>1, <3>2, <3>3, <1>o DEF Tape!Put, Fits
    <3> QED
      BY <3>4 DEF Tape!Next
  <2>3. CASE ~(open /\ Fits(rb, s))
    <3>1. out' = Fails("put", Len(s)) /\ open' = open
      BY <1>2, <2>3, <1>t DEF Put
    <3>2. rb'.buf = rb.buf /\ rb'.epoint = rb.epoint /\ rb'.datasz = rb.datasz
      BY <1>2, <2>3, <1>t DEF Put, PutRing, Ring
    <3>3. LastBytes(rb') = LastBytes(rb)
      BY <3>2 DEF LastBytes
    <3>4. ~open \/ rb.datasz + Len(s) > BufSz
      BY <2>1, <2>3, <1>t, BufSzAssumption DEF Fits, Ring
    <3>5. Tape!Put(s)
      BY <3>1, <3>2, <3>3, <3>4, <1>o DEF Tape!Put
    <3> QED
      BY <3>5 DEF Tape!Next
  <2> QED
    BY <2>2, <2>3
<1>3. ASSUME NEW n \in Size, Get(n) PROVE Tape!Next
  <2>1. n \in 0 .. BufSz + 1
    BY DEF Size
  <2>2. CASE open /\ n <= rb.datasz /\ rb' = DropRing(rb, n) /\ open' = open
             /\ out' = Returns("get", n, ReadRing(rb, n))
    <3>1. ReadRing(rb, n) = SubSeq(LastBytes(rb), BufSz - rb.datasz + 1, BufSz - rb.datasz + n)
      BY <2>1, <2>2, <1>t, ReadIsTape, BufSzAssumption DEF Ring
    <3>2. Tape!Get(n)
      BY <2>1, <2>2, <3>1, <1>t, <1>o, DropKeepsTape, BufSzAssumption DEF Tape!Get
    <3> QED
      BY <2>1, <3>2 DEF Tape!Next
  <2>3. CASE out' = Fails("get", n) /\ UNCHANGED <<open, rb>> /\ (~open \/ n > rb.datasz)
    BY <2>1, <2>3, <1>o DEF Tape!Get, Tape!Next
  <2> QED
    BY <1>3, <2>2, <2>3 DEF Get
<1>4. ASSUME NEW n \in -(BufSz + 1) .. BufSz + 1, Seek(n) PROVE Tape!Next
  <2>1. CASE open /\ n <= rb.datasz /\ rb.datasz - n <= BufSz /\ rb' = DropRing(rb, n)
             /\ open' = open /\ out' = Returns("seek", n, <<>>)
    <3>1. Tape!Seek(n)
      BY <2>1, <1>t, <1>o, DropKeepsTape, BufSzAssumption DEF Tape!Seek
    <3> QED
      BY <3>1 DEF Tape!Next
  <2>2. CASE out' = Fails("seek", n) /\ UNCHANGED <<open, rb>> /\ (~open \/ n > rb.datasz)
    BY <2>2, <1>o DEF Tape!Seek, Tape!Next
  <2> QED
    BY <1>4, <2>1, <2>2 DEF Seek
<1>5. ASSUME NEW pos \in Size, Ref(pos) PROVE Tape!Next
  <2>1. pos \in 0 .. BufSz + 1
    BY DEF Size
  <2>2. CASE open /\ pos <= rb.datasz /\ UNCHANGED <<open, rb>>
             /\ out' = Returns("ref", pos, <<rb.buf[Wrap(rb.spoint + pos)]>>)
    <3>1. rb.datasz \in 0 .. BufSz /\ rb.spoint \in 0 .. BufSz - 1
      BY <1>t DEF Ring, Index
    <3>2. rb.buf[Wrap(rb.spoint + pos)] \in Byte
      BY <2>1, <2>2, <3>1, <1>t, WrapIsIndex, BufSzAssumption DEF Ring
    <3>3. pos < rb.datasz =>
            rb.buf[Wrap(rb.spoint + pos)] = LastBytes(rb)[BufSz - rb.datasz + 1 + pos]
      <4>1. SUFFICES ASSUME pos < rb.datasz
                     PROVE  rb.buf[Wrap(rb.spoint + pos)] = LastBytes(rb)[BufSz - rb.datasz + 1 + pos]
        OBVIOUS
      <4>2. Wrap(rb.epoint + (BufSz - rb.datasz + 1 + pos) - 1) = Wrap(rb.spoint + pos)
        BY <2>1, <3>1, <4>1, <1>t, BufSzAssumption DEF Wrap
      <4>3. BufSz - rb.datasz + 1 + pos \in 1 .. BufSz
        BY <2>1, <3>1, <4>1, BufSzAssumption
      <4> QED
        BY <4>2, <4>3, <1>t, LastBytesIsSeq
    <3>4. Tape!Ref(pos)
      BY <2>2, <3>2, <3>3, <1>o DEF Tape!Ref
    <3> QED
      BY <2>1, <3>4 DEF Tape!Next
  <2>3. CASE out' = Fails("ref", pos) /\ UNCHANGED <<open, rb>> /\ (~open \/ pos > rb.datasz)
    BY <2>1, <2>3, <1>o DEF Tape!Ref, Tape!Next
  <2> QED
    BY <1>5, <2>2, <2>3 DEF Ref
<1>6. CASE UNCHANGED vars
  BY <1>6 DEF vars, Tape!vars
<1> QED
  BY <1>1, <1>2, <1>3, <1>4, <1>5, <1>6 DEF Next

(* The ring of bytes, with its two cursors and its two-part copies, returns *)
(* on every call what the tape of ByteTape returns: bytes come out in the   *)
(* order in which they went in, and a refused call disturbs nothing.        *)
THEOREM RingImplementsTape == Spec => ImplementsTape
<1>1. IInv /\ [Next]_vars => IInv'
  BY NextIInv
<1> QED
  BY InitTape, InitIInv, <1>1, StepTape, PTL DEF Spec, ImplementsTape, Tape!Spec
=============================================================================
