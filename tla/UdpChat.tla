------------------------------ MODULE UdpChat ------------------------------
(***************************************************************************)
(* The UDP chat server, Samples/udp_chat/udp_chat_server.c.  It handles    *)
(* one datagram after the other and keeps a linked list of the clients     *)
(* that are logged in.  Any client may have sent any command: UDP loses,   *)
(* repeats and reorders datagrams, so every command may be handled in      *)
(* every state of the list.                                                *)
(***************************************************************************)
EXTENDS Integers, SequencesExt

CONSTANTS
  Addr,     (* the addresses [ip, port] clients send from                  *)
  RPort,    (* the receive ports a client may ask for, 0: where it sends   *)
  MaxTimes  (* MAX_TIMESOUT, how many messages a client may stay silent    *)

ASSUME MaxTimesAssumption == MaxTimes \in Nat

VARIABLES
  hosts,  (* the list: struct host_list without its head, in order         *)
  out,    (* what the server sent in answer to the last datagram           *)
  silent, (* history: messages of the chat since the client's last command *)
          (* that counts as one: S, M with a text, C                       *)
  told,   (* history: who is in the chat, as far as each member was told   *)
  displaced  (* history: who was deleted by a command of another client    *)
             (* and has not logged in since                                *)

vars == <<hosts, out, silent, told, displaced>>

Entry == [addr : Addr, rport : RPort, times : 0 .. MaxTimes]
Kinds == {"welcome", "already", "unknown", "text", "dropped", "user", "bye", "error"}

Entries(hl) == {hl[i] : i \in DOMAIN hl}

(* The list of the entries at the positions I, in order: the k-th of them is *)
(* the one with k positions of I up to it.                                   *)
Kept(hl, I) == [k \in 1 .. Cardinality(I) |->
                  hl[CHOOSE i \in I : Cardinality({j \in I : j <= i}) = k]]

(* Where udp_send_message sends to, and udp_send_all to a list. *)
To(h) == IF h.rport = 0 THEN h.addr ELSE [ip |-> h.addr.ip, port |-> h.rport]
SendAll(hl, kind, about) == {[to |-> To(h), kind |-> kind, about |-> about] : h \in Entries(hl)}

(* get_host: a client is known by its address and port. *)
Registered(c) == \E h \in Entries(hosts) : h.addr = c
Host(c)       == CHOOSE h \in Entries(hosts) : h.addr = c

(* get_host_port: the first entry with the caller's IP and receive port. *)
SamePortAnywhere(hl, c, r) == SelectInSeq(hl, LAMBDA h : h.rport = r)  \* a slip: no IP test
SamePort(hl, c, r) == SelectInSeq(hl, LAMBDA h : h.addr.ip = c.ip /\ h.rport = r)

(* del_list: the first entry with that IP, its port is not compared. *)
DelList(hl, c) == LET i == SelectInSeq(hl, LAMBDA h : h.addr.ip = c.ip)
                  IN  Kept(hl, DOMAIN hl \ {i})

(* The list with the fields of one client changed. *)
Update(c, f(_)) == [i \in DOMAIN hosts |-> IF hosts[i].addr = c THEN f(hosts[i]) ELSE hosts[i]]

Init == /\ hosts = <<>> /\ out = {} /\ silent = [c \in Addr |-> 0]
        /\ told = [c \in Addr |-> {}] /\ displaced = {}
-----------------------------------------------------------------------------
LoginUnseen(c, r) ==  \* a slip: a second S of a client is a login too
  LET new == [addr |-> c, rport |-> r, times |-> 0]
      i   == SamePort(hosts, c, r)
  IN  /\ hosts'  = Append(IF i = 0 THEN hosts ELSE DelList(hosts, hosts[i].addr), new)
      /\ out'    = SendAll(hosts', "welcome", c)
      /\ silent' = [silent EXCEPT ![c] = 0]

(* S of a client that is not in the list.  An entry with the same IP and    *)
(* receive port is taken for an earlier login and deleted.                  *)
Login(c, r) ==
  /\ ~Registered(c)
  /\ LET new == [addr |-> c, rport |-> r, times |-> 0]
         i   == SamePort(hosts, c, r)
     IN  hosts' = Append(IF i = 0 THEN hosts ELSE DelList(hosts, hosts[i].addr), new)
  /\ out'    = SendAll(hosts', "welcome", c)
  /\ silent' = [silent EXCEPT ![c] = 0]

LoginAgain(c) ==
  /\ Registered(c)
  /\ hosts'  = Update(c, LAMBDA h : [h EXCEPT !.times = 0])
  /\ out'    = {[to |-> To(Host(c)), kind |-> "already", about |-> c]}
  /\ silent' = [silent EXCEPT ![c] = 0]

(* Any other command of a client that is not in the list. *)
NotYetLogin(c) ==
  /\ ~Registered(c)
  /\ out' = {[to |-> c, kind |-> "unknown", about |-> c]}
  /\ UNCHANGED <<hosts, silent>>
-----------------------------------------------------------------------------
(* del_host: everybody has been silent for one message more, and who has    *)
(* been so for more than MaxTimes is dropped.  Each drop is announced to    *)
(* the list as it is before the unlinking.                                  *)
Aged(hl)     == [i \in DOMAIN hl |-> [hl[i] EXCEPT !.times = @ + 1]]
Survives(h)  == h.times <= MaxTimes
Surviving(hl) == {i \in DOMAIN hl : Survives(hl[i])}

FarewellLate(hl) ==  \* a slip: announced after the unlinking
  UNION {SendAll(Kept(hl, Surviving(hl)), "dropped", hl[i].addr) : i \in DOMAIN hl \ Surviving(hl)}
Farewell(hl) ==
  UNION {SendAll(Kept(hl, {j \in DOMAIN hl : j >= i} \cup Surviving(hl)), "dropped", hl[i].addr) :
           i \in DOMAIN hl \ Surviving(hl)}

(* M with a text, which goes to everybody, or without one. *)
Say(c, text) ==
  /\ Registered(c)
  /\ LET aged == Aged(IF text THEN Update(c, LAMBDA h : [h EXCEPT !.times = -1]) ELSE hosts)
     IN  /\ hosts' = Kept(aged, Surviving(aged))
         /\ out'   = (IF text THEN SendAll(hosts, "text", c) ELSE {}) \cup Farewell(aged)
  /\ silent' = [d \in Addr |-> IF ~Registered(d) \/ (text /\ d = c) THEN 0
                               ELSE IF silent[d] < MaxTimes THEN silent[d] + 1 ELSE silent[d]]

(* L: one answer for each entry. *)
List(c) ==
  /\ Registered(c)
  /\ out' = {[to |-> To(Host(c)), kind |-> "user", about |-> h.addr] : h \in Entries(hosts)}
  /\ UNCHANGED <<hosts, silent>>

(* P: another receive port. *)
Port(c, r) ==
  /\ Registered(c) /\ r > 0
  /\ hosts' = Update(c, LAMBDA h : [h EXCEPT !.rport = r])
  /\ out' = {} /\ UNCHANGED silent

(* C: the client is still there. *)
Keep(c) ==
  /\ Registered(c)
  /\ hosts'  = Update(c, LAMBDA h : [h EXCEPT !.times = 0])
  /\ out'    = {}
  /\ silent' = [silent EXCEPT ![c] = 0]

LeaveOnce(c) ==  \* a slip: del_list is called once
  /\ Registered(c)
  /\ out'   = SendAll(hosts, "bye", c)
  /\ hosts' = DelList(hosts, c)
  /\ UNCHANGED silent

(* E: del_list until it finds nothing more. *)
Leave(c) ==
  /\ Registered(c)
  /\ out'   = SendAll(hosts, "bye", c)
  /\ hosts' = Kept(hosts, {i \in DOMAIN hosts : hosts[i].addr.ip # c.ip})
  /\ UNCHANGED silent

(* A letter that is no command. *)
BadCommand(c) ==
  /\ Registered(c)
  /\ out' = {[to |-> To(Host(c)), kind |-> "error", about |-> c]}
  /\ UNCHANGED <<hosts, silent>>

Command(c) == \/ \E r \in RPort : Login(c, r) \/ Port(c, r)
              \/ \E text \in BOOLEAN : Say(c, text)
              \/ LoginAgain(c) \/ NotYetLogin(c) \/ List(c)
              \/ Keep(c) \/ Leave(c) \/ BadCommand(c)

(* The histories.  A member knows of who is in the chat by what is sent to  *)
(* where it receives, a newcomer of nobody before its own welcome.          *)
Heard(c, kinds) == {m.about : m \in {a \in out' : a.to = To(Host(c))' /\ a.kind \in kinds}}

Listen ==
  /\ told' = [c \in Addr |->
                IF ~Registered(c)' THEN {}
                ELSE ((IF Registered(c) THEN told[c] ELSE {}) \cup Heard(c, {"welcome", "user"}))
                       \ Heard(c, {"bye", "dropped"})]
  /\ displaced' = {d \in Addr : /\ ~Registered(d)'
                                /\ \/ d \in displaced
                                   \/ /\ Registered(d)
                                      /\ \E c \in Addr \ {d} :
                                            Leave(c) \/ \E r \in RPort : Login(c, r)}

Next == (\E c \in Addr : Command(c)) /\ Listen

Spec == Init /\ [][Next]_vars
-----------------------------------------------------------------------------
(* A client is in the list once, however often its datagrams are repeated:  *)
(* get_host finds all there is of it.                                       *)
OneEntryEach == \A i, j \in DOMAIN hosts : hosts[i].addr = hosts[j].addr => i = j

Gone(c) == Registered(c) /\ ~Registered(c)'

(* Nobody is dropped for idleness who has spoken, logged in or sent C       *)
(* within the last MaxTimes messages, and the rest of the list never        *)
(* decides over it: otherwise an entry goes by a command from its own IP.   *)
DropsAreDeserved ==
  [][\A c \in Addr : Gone(c) =>
       \/ silent[c] = MaxTimes
       \/ \E d \in Addr : d.ip = c.ip /\ (Leave(d) \/ \E r \in RPort : Login(d, r))]_vars

(* What the members were told is the list as it is: each knows of all who   *)
(* came after it and are still there, and of nobody who has gone, unless    *)
(* another client has displaced that one.  So E takes who is said to leave, *)
(* and whoever goes by himself is taken leave of.                           *)
MembersAreInformed ==
  /\ \A i, j \in DOMAIN hosts : i < j => hosts[j].addr \in told[hosts[i].addr]
  /\ \A c, d \in Addr : d \in told[c] => Registered(d) \/ d \in displaced

(* Who is dropped for idleness is told so, and so is everybody who stays.   *)
DropsAreAnnounced ==
  [][\A c, d \in Addr : (Gone(c) /\ \E text \in BOOLEAN : Say(d, text)) =>
       \A h \in {Host(c)} \cup Entries(hosts') :
         [to |-> To(h), kind |-> "dropped", about |-> c] \in out']_vars
=============================================================================
