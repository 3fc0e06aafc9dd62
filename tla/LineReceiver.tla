---------------------------- MODULE LineReceiver ----------------------------
(***************************************************************************)
(* A program that reads lines from a TCP connection with tcp_recv_mstream  *)
(* (Lib/network.c) or tcp_recv_mstream_Buffer (Lib/xtools.c).  The peer    *)
(* sends whole lines and may close; TCP delivers the bytes in order, cut   *)
(* into segments anywhere; recv_wait times out when nothing arrives.  One  *)
(* mstream is used for the whole connection, as both comments demand.      *)
(***************************************************************************)
EXTENDS StreamOps

CONSTANTS
  PeerLine, (* the lines the peer may send, line end included            *)
  MaxSent,  (* how many lines it sends at most: bounds the model         *)
  Sz,       (* the size of the caller's buffer, one recv returns at most that *)
  Beyond,   (* the strings that may lie in memory behind the caller's buffer *)
  CutAnywhere  (* FALSE: TCP cuts only where put_mstream can count (Tame)   *)

ASSUME SzAssumption == Sz \in Nat \ {0}

(* A line is text and ends in LF or CR LF, which is its only line end.      *)
ASSUME LineAssumption ==
  \A l \in PeerLine : /\ l \in Seq(Byte \ {Nul})
                      /\ LineEnds(l) = {Len(l)} /\ l[Len(l)] = LF

ASSUME BeyondAssumption == Beyond \subseteq Seq(Byte \ {Nul})

(* When recv is called less than a line is waiting, so a segment fits.      *)
ASSUME RoomAssumption == \A l \in PeerLine : Len(l) + Sz <= BufSz

VARIABLES
  toBuffer, (* TRUE: tcp_recv_mstream_Buffer, FALSE: tcp_recv_mstream    *)
  wire,    (* bytes sent and not yet received                          *)
  sent,    (* history: the lines sent, without their line ends         *)
  closed,  (* has the peer closed the connection?                      *)
  pc,      (* "idle": in the caller; "recv": in the loop around recv   *)
  ms,      (* the connection's mstream                                 *)
  mesg,    (* what is in the caller's buffer, up to its first '\0'     *)
  got,     (* history: the lines the caller was given                  *)
  res,     (* what the last call returned; "closed" is the 0 that      *)
           (* stands for the end of the connection                     *)
  overread (* history: was memory behind the buffer read as data?      *)

receiverVars == <<toBuffer, wire, sent, closed, pc, ms, mesg, got, res, overread>>

ReceiverInit == /\ toBuffer \in BOOLEAN
        /\ wire = <<>> /\ sent = <<>> /\ closed = FALSE
        /\ pc = "idle" /\ ms = EmptyRing /\ mesg = <<>>
        /\ got = <<>> /\ res = "none" /\ overread = FALSE
-----------------------------------------------------------------------------
(* The peer and the network. *)
PeerSend(l) == /\ ~closed /\ Len(sent) < MaxSent
               /\ wire' = wire \o l
               /\ sent' = Append(sent, Chomp(l))
               /\ UNCHANGED <<toBuffer, closed, pc, ms, mesg, got, res, overread>>

PeerClose == /\ ~closed
             /\ closed' = TRUE
             /\ UNCHANGED <<toBuffer, wire, sent, pc, ms, mesg, got, res, overread>>
-----------------------------------------------------------------------------
(* memcpy into mesg over what recv left there: nothing writes a '\0' behind *)
(* it.  A line that is too long is cut to the room there is.                *)
Cropped(line) == IF Len(line) >= Sz THEN SubSeq(line, 1, Sz - 1) ELSE line
CopyOver(line, old) == line \o SubSeq(old, Len(line) + 1, Len(old))

(* The end of a call, when a line is counted in stream s and the caller's   *)
(* buffer holds m.                                                          *)
DeliverKeepsOld(s, m) ==  \* a slip: the buffer is not cleared before the line is stored
  LET text == CopyOver(NextLine(s), SubSeq(wire, 1, Min({Sz, Len(wire)})))
  IN  /\ pc' = "idle" /\ ms' = GetStream(s) /\ mesg' = text
      /\ got' = Append(got, text) /\ res' = "line"

(* The length of what is stored is returned: an empty line looks like the   *)
(* end of the connection.                                                   *)
Deliver(s, m) ==
  LET line == NextLine(s)
      text == IF toBuffer THEN line ELSE CopyOver(Cropped(line), m)
  IN  /\ pc' = "idle"
      /\ ms' = GetStream(s)
      /\ IF HasLine(s)
         THEN /\ mesg' = text /\ got' = Append(got, text)
              /\ res' = IF ~toBuffer /\ Len(line) >= Sz THEN "BUFSZ_ERROR"
                        ELSE IF text = <<>> THEN "closed" ELSE "line"
         ELSE mesg' = m /\ got' = got /\ res' = "BUF_ERROR"

CallAlwaysWaits ==  \* a slip: receive first, look for a waiting line afterwards
  /\ pc = "idle" /\ res # "closed"
  /\ pc' = "recv" /\ mesg' = <<>>
  /\ UNCHANGED <<toBuffer, wire, sent, closed, ms, got, res, overread>>

(* A call: the loop is skipped when a line is already there.  The Buffer    *)
(* variant makes its buffer anew, the other one leaves what is in the       *)
(* caller's, who may have cleared it.                                       *)
Call == /\ pc = "idle" /\ res # "closed"
        /\ \E m \in {<<>>} \cup (IF toBuffer THEN {} ELSE {mesg}) :
              \/ ms.datano # 0 /\ Deliver(ms, m)
              \/ /\ ms.datano = 0
                 /\ pc' = "recv" /\ mesg' = m
                 /\ UNCHANGED <<ms, got, res>>
        /\ UNCHANGED <<toBuffer, wire, sent, closed, overread>>

(* What is read as a string when n bytes have arrived.  make_Buffer has a   *)
(* byte more than its size for the '\0'; a char array that recv has filled  *)
(* has none, and the string goes on behind it.                              *)
Behind(n) == IF ~toBuffer /\ n = Sz THEN Beyond ELSE {<<>>}

(* One turn of the loop: n bytes arrive.                                    *)
RecvSome(n) ==
  /\ pc = "recv" /\ n <= Len(wire)
  /\ wire' = SubSeq(wire, n + 1, Len(wire))
  /\ CutAnywhere \/ Tame(SubSeq(wire, 1, n))
  /\ \E more \in Behind(n) :
       LET text == SubSeq(wire, 1, n) \o more
           m    == IF toBuffer THEN <<>> ELSE text
       IN  /\ overread' = (overread \/ more # <<>>)
           /\ \E s \in {PutStream(ms, text)} :
                \/ s.datano # 0 /\ Deliver(s, m)
                \/ /\ s.datano = 0
                   /\ ms' = s /\ mesg' = m
                   /\ UNCHANGED <<pc, got, res>>
  /\ UNCHANGED <<toBuffer, sent, closed>>

(* Nothing came for tm seconds, though it may still be under way; both      *)
(* variants clear the caller's buffer first.                                *)
RecvTimeout == /\ pc = "recv"
               /\ pc' = "idle" /\ mesg' = <<>>
               /\ res' = IF toBuffer THEN "RECV_TIMEOUT" ELSE "RECV_ERROR"
               /\ UNCHANGED <<toBuffer, wire, sent, closed, ms, got, overread>>

RecvEnd == /\ pc = "recv" /\ wire = <<>> /\ closed
           /\ pc' = "idle" /\ mesg' = <<>> /\ res' = "closed"
           /\ UNCHANGED <<toBuffer, wire, sent, closed, ms, got, overread>>

RecvData == \E n \in 1 .. Sz : RecvSome(n)

ReceiverNext == \/ \E l \in PeerLine : PeerSend(l)
        \/ PeerClose \/ Call \/ RecvData \/ RecvTimeout \/ RecvEnd

(* The caller keeps asking for lines; bytes under way do not miss every     *)
(* call, however many of them time out; the peer owes nothing.              *)
Fairness == WF_receiverVars(Call) /\ SF_receiverVars(RecvData) /\ WF_receiverVars(RecvTimeout)

ReceiverSpec == ReceiverInit /\ [][ReceiverNext]_receiverVars /\ Fairness
-----------------------------------------------------------------------------
(* However TCP cuts the stream and whatever calls time out in between, the  *)
(* caller is given the lines the peer sent, in order and once: the Buffer   *)
(* variant as they are, the other one cut to the room there is and followed *)
(* by what its buffer happened to hold.  Only memory behind a filled char   *)
(* array, taken for data, can change that.                                  *)
LinesInOrder ==
  ~overread =>
    /\ Len(got) <= Len(sent)
    /\ \A i \in DOMAIN got :
         IF toBuffer THEN got[i] = sent[i]
         ELSE IsPrefix(SubSeq(sent[i], 1, Min({Sz - 1, Len(sent[i])})), got[i])

(* Every line sent reaches the caller, also when the peer closes after it,  *)
(* up to the first empty one, whose 0 tells the caller to stop.             *)
EveryLineArrives ==
  \A k \in 1 .. MaxSent :
    Len(sent) >= k /\ (\A i \in 1 .. k - 1 : sent[i] # <<>>) ~> Len(got) >= k \/ overread
=============================================================================
