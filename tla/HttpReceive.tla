----------------------------- MODULE HttpReceive -----------------------------
(***************************************************************************)
(* recv_http_Buffer of xLib/http_tool.c (recv_https_Buffer of https_tool.c *)
(* is the same code over SSL) with recv_http_header, recv_http_content,    *)
(* recv_http_chunked and recv_http_closed: one message is received from a  *)
(* TCP stream that may be cut at any place, fall silent, or break.         *)
(*                                                                         *)
(* A number is written with as many digits "D" as it counts, "0" being no  *)
(* digit at all: the first digits of a number are a smaller number.        *)
(***************************************************************************)
EXTENDS HeaderParser, Integers

CONSTANTS
  Messages,  (* what a peer may send: [head, body, content, kind, ends]:   *)
             (* the bytes, what the body carries, and where chunks end     *)
  MaxSegs    (* bound: the segments a stream is cut into                   *)

VARIABLES
  msg,       (* the message that arrives                                   *)
  nochunk,   (* the caller's argument: chunks are left alone               *)
  pos,       (* the bytes received so far                                  *)
  segs,      (* the segments received so far                               *)
  rough,     (* where the stream was cut: see Roughness                    *)
  broken,    (* the connection failed, or ended inside the message         *)
  pc,        (* the recv that comes next: "header", "content", "first",    *)
             (* "remain", "next", "closed"; "body", "go" and "chunk": what  *)
             (* comes next is decided; "done"                              *)
  hdr,       (* the list of the header and the state of its parser         *)
  buf,       (* the contents handed to the caller                          *)
  hs, len,   (* the size of the header and what it says of the contents    *)
  tmp, vldsz,(* recv_http_chunked: its buffer, and the valid part of it    *)
  size, sz,  (* the chunk it is at, [ck, hd, tl], and the sum of the sizes *)
  result, state, hdonly  (* what the caller is told                        *)

peer   == <<msg, nochunk>>
wire   == <<pos, segs, rough, broken>>
chunk  == <<tmp, vldsz, size, sz>>
answer == <<result, state, hdonly>>
vars   == <<peer, wire, pc, hdr, buf, hs, len, chunk, answer>>

RECV_ERROR   == -311  \* JBXL_NET_RECV_ERROR
RECV_TIMEOUT == -392  \* JBXL_NET_RECV_TIMEOUT
NOT_HTTP == -1990  CLOSED_SESSION == -1997  CHUNKED == -1998  UNKNOWN_LEN == -1999

Bytes == msg.head \o msg.body

Init == /\ msg \in Messages /\ nochunk \in BOOLEAN
        /\ pos = 0 /\ segs = 0 /\ rough = {} /\ broken = FALSE
        /\ pc = "header" /\ hdr = NoHeader /\ buf = <<>> /\ hs = 0 /\ len = UNKNOWN_LEN
        /\ tmp = <<>> /\ vldsz = 0 /\ size = [ck |-> 0, hd |-> 0, tl |-> 0] /\ sz = 0
        /\ result = 0 /\ state = TRUE /\ hdonly = FALSE
-----------------------------------------------------------------------------
(* The stream.  A cut behind byte p of the header is                       *)
(*   "end"    when the rest of the line holds no ":" and is not a line end *)
(*            of its own: the parser may run over the end of the header;   *)
(*   "field"  when it goes through the key of a field;                     *)
(* and "chunk" when it is in a chunked body and not behind a chunk.        *)
Roughness(p) ==
  IF p < Len(msg.head)
  THEN LET rest == SubSeq(msg.head, p + 1, Find(msg.head, p + 1, {"LF"}))
       IN IF msg.head[p] = "LF" \/ rest = <<"CR", "LF">> THEN {}
          ELSE IF ":" \in Range(rest) THEN {"field"} ELSE {"end"}
  ELSE IF msg.kind = "chunked" /\ p - Len(msg.head) \notin msg.ends THEN {"chunk"} ELSE {}

(* recv returns the bytes up to q. *)
Segment(q) == SubSeq(Bytes, pos + 1, q)
Arrives(q) ==
  /\ q \in pos + 1 .. Len(Bytes) /\ (segs + 1 = MaxSegs => q = Len(Bytes))
  /\ pos' = q /\ segs' = segs + 1 /\ rough' = rough \cup Roughness(q)
  /\ UNCHANGED <<peer, broken>>

(* recv returns cc: nothing within tm seconds, an error, or the end. *)
Fails(cc) ==
  /\ cc \in {RECV_TIMEOUT, RECV_ERROR, 0}
  /\ broken' = (cc = RECV_ERROR \/ (cc = 0 /\ pos < Len(Bytes)))
  /\ UNCHANGED <<peer, pos, segs, rough>>

Return(cc, st, ho) ==
  pc' = "done" /\ result' = cc /\ state' = st /\ hdonly' = ho
Goes(where) == pc' = where /\ UNCHANGED answer
-----------------------------------------------------------------------------
(* recv_http_header. *)
Method(seg) ==
  IF Len(seg) < 2 THEN "unknown"
  ELSE IF SubSeq(seg, 1, 2) = <<"HT", "TP/">> THEN "response"
  ELSE IF SubSeq(seg, 1, 2) = <<"GE", "T">> THEN "get" ELSE "unknown"

Digits(s) ==  \* the digits s begins with
  LET e == CHOOSE j \in 1 .. Len(s) + 1 :
             /\ j = Len(s) + 1 \/ s[j] # "D"
             /\ \A k \in 1 .. j - 1 : s[k] = "D"
  IN e - 1
Atoi(s) ==    \* leading white space is skipped
  LET b == CHOOSE j \in 1 .. Len(s) + 1 :
             /\ j = Len(s) + 1 \/ s[j] \notin {"SP", "CR", "LF"}
             /\ \A k \in 1 .. j - 1 : s[k] \in {"SP", "CR", "LF"}
  IN Digits(SubSeq(s, b, Len(s)))

(* A slip: the length is believed before the coding. *)
LengthBefore(list) ==
  IF Method(list[1].val) = "get" THEN 0
  ELSE IF Has(list, <<"CL">>) THEN Atoi(Search(list, <<"CL">>))
  ELSE IF IsField(list, <<"TE">>, <<"chunked">>) THEN CHUNKED ELSE UNKNOWN_LEN
(* What the header says of the contents. *)
LengthOf(list) ==
  LET first  == list[1].val
      old    == "v1.1" \notin Range(first)
      status == Method(first) = "response" /\ "s200" \in Range(first)
  IN IF Method(first) = "get" THEN 0
     ELSE IF IsField(list, <<"TE">>, <<"chunked">>) THEN CHUNKED
     ELSE IF Has(list, <<"CL">>) THEN Atoi(Search(list, <<"CL">>))
     ELSE IF old /\ status /\ IsField(list, <<"CO">>, <<"close">>) THEN CLOSED_SESSION
     ELSE UNKNOWN_LEN

(* The method is looked for in the first segment alone. *)
NotHttp(q) ==
  /\ pc = "header" /\ pos = 0 /\ Arrives(q) /\ Method(Segment(q)) = "unknown"
  /\ buf' = Segment(q) /\ len' = NOT_HTTP /\ Return(q, FALSE, FALSE)
  /\ UNCHANGED <<hdr, hs, chunk>>

RecvHeader(q) ==
  /\ pc = "header" /\ Arrives(q) /\ (pos = 0 => Method(Segment(q)) # "unknown")
  /\ hdr' = Parse(hdr, Segment(q)) /\ hs' = q
  /\ Goes(IF Has(hdr'.list, END) THEN "body" ELSE "header")
  /\ UNCHANGED <<buf, len, chunk>>

NothingCame(cc) ==
  /\ pc = "header" /\ pos = 0 /\ Fails(cc)
  /\ Return(IF cc = 0 THEN 0 ELSE RECV_ERROR, FALSE, FALSE)
  /\ UNCHANGED <<hdr, buf, hs, len, chunk>>

(* What there is of the header is gone on with. *)
HeaderFails(cc) ==
  /\ pc = "header" /\ pos > 0 /\ Fails(cc)
  /\ pc' = "body" /\ state' = FALSE
  /\ UNCHANGED <<hdr, buf, hs, len, chunk, result, hdonly>>
-----------------------------------------------------------------------------
(* recv_http_Buffer behind the header; the contents that came with it. *)
NoContents ==
  /\ pc = "body" /\ LengthOf(hdr.list) \in {0, UNKNOWN_LEN}
  /\ Return(hs, state, TRUE)
  /\ UNCHANGED <<peer, wire, hdr, buf, hs, len, chunk>>

TakeContents ==
  /\ pc = "body" /\ LengthOf(hdr.list) \notin {0, UNKNOWN_LEN}
  /\ len' = LengthOf(hdr.list)
  /\ buf' = IF Has(hdr.list, CONTENTS) THEN Search(hdr.list, CONTENTS) ELSE <<>>
  /\ hs' = hs - Len(buf') /\ Goes("go")
  /\ UNCHANGED <<peer, wire, hdr, chunk>>

Finish(cc, st) == Return(IF cc > 0 THEN cc + hs ELSE cc, st, FALSE)

HungUp ==
  /\ pc = "go" /\ ~state /\ Finish(Len(buf), FALSE)
  /\ UNCHANGED <<peer, wire, hdr, buf, hs, len, chunk>>

(* HTTP_HEADER_CHUNKED, the state of this case, is not FALSE either. *)
LeaveChunks ==
  /\ pc = "go" /\ state /\ len = CHUNKED /\ nochunk /\ Finish(Len(buf), TRUE)
  /\ UNCHANGED <<peer, wire, hdr, buf, hs, len, chunk>>

StartContent ==
  /\ pc = "go" /\ state /\ len > 0 /\ Goes("content")
  /\ UNCHANGED <<peer, wire, hdr, buf, hs, len, chunk>>

StartClosed ==
  /\ pc = "go" /\ state /\ len = CLOSED_SESSION /\ Goes("closed")
  /\ UNCHANGED <<peer, wire, hdr, buf, hs, len, chunk>>
-----------------------------------------------------------------------------
(* recv_http_content. *)
ContentDone ==
  /\ pc = "content" /\ Len(buf) >= len /\ Finish(Len(buf), TRUE)
  /\ UNCHANGED <<peer, wire, hdr, buf, hs, len, chunk>>

RecvContent(q) ==
  /\ pc = "content" /\ Len(buf) < len /\ Arrives(q)
  /\ buf' = buf \o Segment(q)
  /\ UNCHANGED <<pc, hdr, hs, len, chunk, answer>>

ContentFails(cc) ==
  /\ pc = "content" /\ Len(buf) < len /\ Fails(cc) /\ Finish(cc, FALSE)
  /\ UNCHANGED <<hdr, buf, hs, len, chunk>>

(* recv_http_closed: an error ends it as the close does. *)
RecvClosed(q) ==
  /\ pc = "closed" /\ Arrives(q)
  /\ buf' = buf \o Segment(q)
  /\ UNCHANGED <<pc, hdr, hs, len, chunk, answer>>

(* A slip: silence ends the contents. *)
ClosedEndsQuietly(cc) ==
  /\ pc = "closed" /\ Fails(cc) /\ Finish(Len(buf), FALSE)
  /\ UNCHANGED <<hdr, buf, hs, len, chunk>>
ClosedEnds(cc) ==
  /\ pc = "closed" /\ Fails(cc)
  /\ Finish(IF cc = RECV_TIMEOUT THEN RECV_TIMEOUT ELSE Len(buf), FALSE)
  /\ UNCHANGED <<hdr, buf, hs, len, chunk>>
-----------------------------------------------------------------------------
(* recv_http_chunked.  tmp is the memory of its buffer: behind the valid   *)
(* part lies what was there before, and behind that zeros.                 *)
At(mem, i) == IF i \in DOMAIN mem THEN mem[i] ELSE "NUL"

(* get_chunked_size: the size ck, and the bytes hd before and tl behind the data. *)
ChunkedSize(mem) ==
  LET i  == Find(mem, 1, {"CR"})
      hd == IF At(mem, i + 1) = "LF" THEN i + 1 ELSE i
      ck == Digits(SubSeq(mem, 1, i - 1))
      tl == IF At(mem, hd + ck + 1) # "CR" THEN 0
            ELSE IF At(mem, hd + ck + 2) # "LF" THEN 1 ELSE 2
  IN IF i > Len(mem) THEN [ck |-> -1, hd |-> 0, tl |-> 0] ELSE [ck |-> ck, hd |-> hd, tl |-> tl]

Need == size.ck + size.hd + size.tl

Begin(mem, n, sum) ==
  /\ tmp' = mem /\ vldsz' = n /\ size' = ChunkedSize(mem) /\ sz' = sum + size'.ck
  /\ Goes("chunk")

StartChunked ==
  /\ pc = "go" /\ state /\ len = CHUNKED /\ ~nochunk
  /\ IF buf = <<>> THEN Goes("first") /\ UNCHANGED chunk ELSE Begin(buf, Len(buf), 0)
  /\ buf' = <<>>
  /\ UNCHANGED <<peer, wire, hdr, hs, len>>

RecvFirst(q) ==
  /\ pc = "first" /\ Arrives(q) /\ Begin(Segment(q), q - pos, 0)
  /\ UNCHANGED <<hdr, buf, hs, len>>

FirstFails(cc) ==
  /\ pc = "first" /\ Fails(cc) /\ Finish(cc, FALSE)
  /\ UNCHANGED <<hdr, buf, hs, len, chunk>>

LastChunk ==
  /\ pc = "chunk" /\ size.ck <= 0 /\ Finish(sz, TRUE)
  /\ UNCHANGED <<peer, wire, hdr, buf, hs, len, chunk>>

(* recv_http_chunked_remain appends, with a NUL; the sizes stay as they are. *)
RecvRemain(q) ==
  /\ pc = "chunk" /\ size.ck > 0 /\ Need > vldsz /\ Arrives(q)
  /\ vldsz' = vldsz + q - pos
  /\ tmp' = SubSeq(tmp, 1, vldsz) \o Segment(q) \o <<"NUL">> \o SubSeq(tmp, vldsz' + 2, Len(tmp))
  /\ UNCHANGED <<pc, hdr, buf, hs, len, size, sz, answer>>

(* state keeps the TRUE of the first recv. *)
RemainFails(cc) ==
  /\ pc = "chunk" /\ size.ck > 0 /\ Need > vldsz /\ Fails(cc) /\ Finish(cc, TRUE)
  /\ UNCHANGED <<hdr, buf, hs, len, chunk>>

(* The chunk goes to the caller; what is behind it moves to the front. *)
Moved(n) == [i \in DOMAIN tmp |-> IF i <= n THEN tmp[i + Need] ELSE tmp[i]]

TakeChunk ==
  /\ pc = "chunk" /\ size.ck > 0 /\ Need <= vldsz
  /\ buf' = buf \o SubSeq(tmp, size.hd + 1, size.hd + size.ck)
  /\ IF vldsz = Need THEN Goes("next") /\ UNCHANGED chunk
     ELSE Begin(Moved(vldsz - Need), vldsz - Need, sz)
  /\ UNCHANGED <<peer, wire, hdr, hs, len>>

RecvNext(q) ==
  /\ pc = "next" /\ Arrives(q) /\ Begin(Segment(q), q - pos, sz)
  /\ UNCHANGED <<hdr, buf, hs, len>>

NextFails(cc) ==
  /\ pc = "next" /\ Fails(cc) /\ Finish(cc, TRUE)
  /\ UNCHANGED <<hdr, buf, hs, len, chunk>>
-----------------------------------------------------------------------------
Receives == \E q \in 1 .. Len(Bytes) :
              \/ NotHttp(q) \/ RecvHeader(q) \/ RecvContent(q) \/ RecvClosed(q)
              \/ RecvFirst(q) \/ RecvRemain(q) \/ RecvNext(q)
Loses    == \E cc \in {RECV_TIMEOUT, RECV_ERROR, 0} :
              \/ NothingCame(cc) \/ HeaderFails(cc) \/ ContentFails(cc) \/ ClosedEnds(cc)
              \/ FirstFails(cc) \/ RemainFails(cc) \/ NextFails(cc)
Decides  == \/ NoContents \/ TakeContents \/ HungUp \/ LeaveChunks \/ StartContent
            \/ StartClosed \/ ContentDone \/ StartChunked \/ LastChunk \/ TakeChunk
Next == Receives \/ Loses \/ Decides
Spec == Init /\ [][Next]_vars
-----------------------------------------------------------------------------
(* The end of the header is found when the empty line has arrived, never   *)
(* before it and once, and what arrived behind it is the contents: unless  *)
(* a cut lets a line run over the empty one (get_protocol_header_list_seq).*)
EndIsFound ==
  rough \cap {"end"} = {} /\ hdr.list # <<>> =>
    LET ends == SelectSeq(hdr.list, LAMBDA n : n.key = END)
        rest == SelectSeq(hdr.list, LAMBDA n : n.key = CONTENTS)
    IN /\ Len(ends) = (IF pos >= Len(msg.head) THEN 1 ELSE 0)
       /\ pc \in {"header", "body"} =>
            FlattenSeq([i \in DOMAIN rest |-> rest[i].val]) = SubSeq(Bytes, Len(msg.head) + 1, pos)

(* A size above 0 with the connection up means that the message is whole,  *)
(* and is the size of the header and the contents without their coding.    *)
(* It holds for the cuts that the parsers bear, and for contents that the  *)
(* caller wants decoded (retval and state of recv_http_Buffer).            *)
SuccessIsWhole ==
  pc = "done" /\ result > 0 /\ state /\ rough = {} /\ ~(nochunk /\ len = CHUNKED) =>
    /\ hdonly = (msg.kind \in {"none", "get"})
    /\ IF hdonly THEN result = Len(msg.head)
       ELSE IsPrefix(msg.content, buf) /\ result = Len(msg.head) + Len(buf)
    /\ msg.kind = "chunked" => buf = msg.content

(* Contents that end with the connection are handed over whole, and the    *)
(* caller learns that it is down; only an error of recv, which the loop    *)
(* takes for the end, makes recv_http_closed return less.                  *)
ClosedIsWhole ==
  pc = "done" /\ rough = {} /\ msg.kind = "closed" /\ result > 0 /\ ~hdonly /\ ~broken =>
    buf = msg.content /\ ~state
=============================================================================
