-------------------------------- MODULE Relay --------------------------------
(***************************************************************************)
(* A session of the relays: trans of Samples/comm_relay/tcp_relay.c,       *)
(* ssl_relay of ssl_relay.c and of ssl_relay_rev.c, and tcp_relay of       *)
(* xLib/http_tool.c.  One process copies bytes between two sockets: sofd   *)
(* leads to the client, cofd to the server.  It sleeps in select, then     *)
(* looks at cofd and at sofd, and blocks in recv and in send.              *)
(*                                                                         *)
(* A unit stands for BUFSZ / 2 bytes, more or less one: a buffer takes     *)
(* BUFSZ = 2 units.  ssl_recv asks for BUFSZ - 1 bytes while a TLS record  *)
(* carries up to BUFSZ, so it leaves a unit of a full record in the SSL    *)
(* object, where select does not see it.                                   *)
(***************************************************************************)
EXTENDS Naturals, SequencesExt

CONSTANTS
  Kinds,    (* the programs: "tcp", "ssl", "ssl_rev" and "web"            *)
  MaxSent,  (* bound: the units that each side sends                      *)
  Room,     (* units that fit between the relay's send and a side's recv  *)
  Tickets   (* do TLS peers send records without data?                    *)

ASSUME KindsAssumption == Kinds \subseteq {"tcp", "ssl", "ssl_rev", "web"}
ASSUME RoomAssumption  == Room \in Nat \ {0}

BUFSZ == 2
Sides == {"client", "server"}
Other == [s \in Sides |-> IF s = "client" THEN "server" ELSE "client"]

VARIABLES
  kind,    (* the program                                                 *)
  sent,    (* units sent by each side                                     *)
  net,     (* what each side sent and the relay has not received: TCP     *)
           (* units, or TLS records, each a sequence of units             *)
  link,    (* "open"; "half": will not send; "gone": closed; "reset"      *)
  pend,    (* what is decrypted, but not read from the SSL object         *)
  out,     (* sent by the relay and not yet received by the side          *)
  got,     (* received by the side                                        *)
  pc,      (* "select", "server" and "client": which socket is looked at, *)
           (* "ended"                                                     *)
  mask,    (* the sockets that select reported                            *)
  msg      (* the caller's buffer: what is still to be sent on            *)

vars == <<kind, sent, net, link, pend, out, got, pc, mask, msg>>
relay == <<pc, mask, msg>>
sides == <<sent, net, link, got>>

Secure(s) == <<kind, s>> \in {<<"ssl", "server">>, <<"ssl_rev", "client">>}

Init == /\ kind \in Kinds
        /\ sent = [s \in Sides |-> 0] /\ net = [s \in Sides |-> <<>>]
        /\ link = [s \in Sides |-> "open"] /\ pend = <<>>
        /\ out = [s \in Sides |-> <<>>] /\ got = [s \in Sides |-> <<>>]
        /\ pc = "select" /\ mask = {} /\ msg = <<>>
-----------------------------------------------------------------------------
(* The two sides.  They do as they like, but they read what they are sent. *)
Units(s, n) == [i \in 1 .. n |-> sent[s] + i]

Send(s, n) ==
  /\ pc # "ended" /\ link[s] = "open" /\ sent[s] + n <= MaxSent[s]
  /\ sent' = [sent EXCEPT ![s] = @ + n]
  /\ net' = [net EXCEPT ![s] = @ \o IF Secure(s) THEN <<Units(s, n)>>
                                    ELSE [i \in 1 .. n |-> <<sent[s] + i>>]]
  /\ UNCHANGED <<kind, link, pend, out, got, relay>>

(* A TLS 1.3 server sends session tickets behind the handshake. *)
SendTicket(s) ==
  /\ Tickets /\ Secure(s) /\ sent[s] = 0 /\ net[s] = <<>> /\ pc = "select" /\ link[s] = "open"
  /\ net' = [net EXCEPT ![s] = << <<>> >>]
  /\ UNCHANGED <<kind, sent, link, pend, out, got, relay>>

Shutdown(s) ==
  /\ pc # "ended" /\ link[s] = "open"
  /\ link' = [link EXCEPT ![s] = "half"]
  /\ UNCHANGED <<kind, sent, net, pend, out, got, relay>>

(* Closing a socket with unread data resets the connection. *)
Close(s) ==
  /\ pc # "ended" /\ link[s] \in {"open", "half"}
  /\ link' = [link EXCEPT ![s] = IF out[s] = <<>> THEN "gone" ELSE "reset"]
  /\ out' = [out EXCEPT ![s] = <<>>]
  /\ UNCHANGED <<kind, sent, net, pend, got, relay>>

Read(s) ==
  /\ out[s] # <<>>
  /\ got' = [got EXCEPT ![s] = Append(@, Head(out[s]))]
  /\ out' = [out EXCEPT ![s] = Tail(@)]
  /\ UNCHANGED <<kind, sent, net, link, pend, relay>>
-----------------------------------------------------------------------------
Readable(s) == net[s] # <<>> \/ link[s] # "open"

Select ==
  /\ pc = "select" /\ \E s \in Sides : Readable(s)
  /\ mask' = {s \in Sides : Readable(s)} /\ pc' = "server"
  /\ UNCHANGED <<kind, sides, pend, out, msg>>

(* Nothing for TIME_OUT seconds: the loops end, except the while(1) of ssl_relay_rev. *)
Timeout ==
  /\ pc = "select" /\ \A s \in Sides : ~Readable(s) /\ kind # "ssl_rev"
  /\ pc' = "ended"
  /\ UNCHANGED <<kind, sides, pend, out, mask, msg>>

NextOfServer(s) == "select"  \* a slip: select is called behind each socket
NextOf(s) == IF s = "server" THEN "client" ELSE "select"

NotReady(s) ==
  /\ pc = s /\ msg = <<>> /\ s \notin mask
  /\ pc' = NextOf(s)
  /\ UNCHANGED <<kind, sides, pend, out, mask, msg>>

(* A slip: the units behind the first one are received again. *)
RecvTcpAgain(s, n) ==
  /\ pc = s /\ msg = <<>> /\ s \in mask /\ ~Secure(s) /\ link[s] # "reset"
  /\ n \in 1 .. BUFSZ /\ n <= Len(net[s])
  /\ msg' = [i \in 1 .. n |-> Head(net[s][i])]
  /\ net' = [net EXCEPT ![s] = Tail(@)]
  /\ UNCHANGED <<kind, sent, link, pend, out, got, pc, mask>>

(* tcp_recv takes what is there, up to the size of the buffer. *)
RecvTcp(s, n) ==
  /\ pc = s /\ msg = <<>> /\ s \in mask /\ ~Secure(s) /\ link[s] # "reset"
  /\ n \in 1 .. BUFSZ /\ n <= Len(net[s])
  /\ msg' = [i \in 1 .. n |-> Head(net[s][i])]
  /\ net' = [net EXCEPT ![s] = SubSeq(@, n + 1, Len(@))]
  /\ UNCHANGED <<kind, sent, link, pend, out, got, pc, mask>>

(* What ssl_recv takes of a record: it keeps a byte of the buffer for a NUL. *)
Fits(record) == SubSeq(record, 1, IF Len(record) < BUFSZ THEN Len(record) ELSE BUFSZ - 1)

(* A slip: what one read leaves of a record is dropped. *)
RecvSslDrops(s) ==
  /\ pc = s /\ msg = <<>> /\ s \in mask /\ Secure(s) /\ link[s] # "reset"
  /\ net[s] # <<>>
  /\ msg' = Fits(Head(net[s])) /\ pend' = <<>>
  /\ net' = [net EXCEPT ![s] = Tail(@)]
  /\ UNCHANGED <<kind, sent, link, out, got, pc, mask>>

(* SSL_read gives what it has, or waits for a record that carries data. *)
RecvSsl(s) ==
  /\ pc = s /\ msg = <<>> /\ s \in mask /\ Secure(s) /\ link[s] # "reset"
  /\ IF pend # <<>>
     THEN msg' = pend /\ pend' = <<>> /\ UNCHANGED net
     ELSE /\ net[s] # <<>>
          /\ msg' = Fits(Head(net[s]))
          /\ pend' = SubSeq(Head(net[s]), Len(Fits(Head(net[s]))) + 1, Len(Head(net[s])))
          /\ net' = [net EXCEPT ![s] = Tail(@)]
  /\ UNCHANGED <<kind, sent, link, out, got, pc, mask>>
-----------------------------------------------------------------------------
(* The end of the data: trans of tcp_relay looks for bytes and for errors   *)
(* only and goes on, the others break out of the loop.                      *)
RecvEndGoesOn(s) ==  \* a slip: every loop goes on
  /\ pc = s /\ msg = <<>> /\ s \in mask /\ link[s] \in {"half", "gone"}
  /\ net[s] = <<>> /\ (Secure(s) => pend = <<>>)
  /\ pc' = NextOf(s)
  /\ UNCHANGED <<kind, sides, pend, out, mask, msg>>
RecvEnd(s) ==
  /\ pc = s /\ msg = <<>> /\ s \in mask /\ link[s] \in {"half", "gone"}
  /\ net[s] = <<>> /\ (Secure(s) => pend = <<>>)
  /\ pc' = IF kind = "tcp" THEN NextOf(s) ELSE "ended"
  /\ UNCHANGED <<kind, sides, pend, out, mask, msg>>

RecvError(s) ==
  /\ pc = s /\ msg = <<>> /\ s \in mask /\ link[s] = "reset"
  /\ pc' = "ended"
  /\ UNCHANGED <<kind, sides, pend, out, mask, msg>>

(* send blocks while there is no room. *)
Forward(s) ==
  /\ pc = s /\ msg # <<>> /\ link[Other[s]] \in {"open", "half"}
  /\ Len(out[Other[s]]) < Room
  /\ out' = [out EXCEPT ![Other[s]] = Append(@, Head(msg))]
  /\ msg' = Tail(msg)
  /\ pc' = IF Len(msg) = 1 THEN NextOf(s) ELSE pc
  /\ UNCHANGED <<kind, sides, pend, mask>>

ForwardToHalf(s) ==  \* a slip: a side that has shut down is taken for one that is gone
  /\ pc = s /\ msg # <<>> /\ link[Other[s]] \in {"half", "gone", "reset"}
  /\ IF link[Other[s]] \in {"half", "gone"}
     THEN /\ msg' = <<>> /\ pc' = NextOf(s)
          /\ link' = [link EXCEPT ![Other[s]] = IF @ = "half" THEN @ ELSE "reset"]
     ELSE msg' = msg /\ pc' = "ended" /\ link' = link
  /\ UNCHANGED <<kind, sent, net, pend, out, got, mask>>

(* The first send to a socket that is gone succeeds and draws a reset, the  *)
(* next one fails, and raises SIGPIPE.                                      *)
ForwardToGone(s) ==
  /\ pc = s /\ msg # <<>> /\ link[Other[s]] \in {"gone", "reset"}
  /\ IF link[Other[s]] = "gone"
     THEN msg' = <<>> /\ pc' = NextOf(s) /\ link' = [link EXCEPT ![Other[s]] = "reset"]
     ELSE msg' = msg /\ pc' = "ended" /\ link' = link
  /\ UNCHANGED <<kind, sent, net, pend, out, got, mask>>

Looks(s) == \/ NotReady(s) \/ RecvSsl(s) \/ RecvEnd(s) \/ RecvError(s)
            \/ Forward(s) \/ ForwardToGone(s)
            \/ \E n \in 1 .. BUFSZ : RecvTcp(s, n)

Relays == Select \/ \E s \in Sides : Looks(s)

Next == \/ Relays \/ Timeout
        \/ \E s \in Sides : \/ \E n \in 1 .. BUFSZ : Send(s, n)
                            \/ SendTicket(s) \/ Shutdown(s) \/ Close(s) \/ Read(s)

(* The relay runs, silence is noticed in the end, and both sides read. *)
Fairness == /\ WF_vars(Relays) /\ WF_vars(Timeout)
            /\ \A s \in Sides : WF_vars(Read(s))

Spec == Init /\ [][Next]_vars /\ Fairness
-----------------------------------------------------------------------------
(* What a side receives is what the other one sent: the session is two pipes. *)
TwoPipes == INSTANCE Pipes
ImplementsPipes == TwoPipes!Spec

Passed(s) == got[Other[s]] \o out[Other[s]]

(* A session that is over has passed on all that was sent to a side that    *)
(* was still open, but for what SSL holds of a full record: the end of one  *)
(* side, or a silence, is not noticed before its data.                      *)
LosesOnlyHeldByte ==
  pc = "ended" =>
    \A s \in Sides : link[Other[s]] = "open" /\ link[s] # "reset" =>
      Len(Passed(s)) + (IF Secure(s) THEN Len(pend) ELSE 0) = sent[s]

(* The relay waits in SSL_read, although select reported the socket.       *)
BlockedInSsl == \E s \in Sides :
  pc = s /\ msg = <<>> /\ s \in mask /\ Secure(s) /\ pend = <<>> /\ net[s] = <<>> /\ link[s] = "open"

(* Everything arrives, or the session ends.  Two things only stand in the   *)
(* way: a byte of a full record that select does not see, and a record      *)
(* without data, behind which SSL_read waits.                               *)
Arrives == \A s \in Sides : \A n \in 1 .. MaxSent[s] :
  sent[s] >= n ~> \/ Len(got[Other[s]]) >= n \/ pc = "ended" \/ BlockedInSsl
                  \/ Secure(s) /\ pend = <<n>>
                  \/ link[Other[s]] \in {"gone", "reset"}

(* When a side closes the session ends, unless it is a session of tcp_relay *)
(* or stuck in SSL_read.                                                    *)
EndReaches == \A s \in Sides :
  link[s] # "open" ~> pc = "ended" \/ kind = "tcp" \/ BlockedInSsl

(* tcp_relay keeps a session up behind the end of one side: however late    *)
(* the answer of the other side is sent, it reaches the side that has shut  *)
(* down, and so does everything else, unless a side closes for good.        *)
HalfClosedIsServed == \A s \in Sides : \A n \in 1 .. MaxSent[s] :
  kind = "tcp" /\ sent[s] >= n ~> \/ Len(got[Other[s]]) >= n
                                   \/ link[Other[s]] \in {"gone", "reset"} \/ link[s] = "reset"
=============================================================================
