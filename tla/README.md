# JunkBox_Lib in TLA+

JunkBox_Lib is a static library of C and C++ code: `Lib` (strings, buffers,
lists, trees, sockets), `xLib` (protocols on top of external libraries such as
OpenSSL and LDAP), `gLib` (pictures), `C++Lib` (geometry, meshes, graphics),
and the programs in `Samples`, `Devel`, `Tools` and `Testing` that use them.
This directory holds specifications of the parts whose behaviour over many
calls, messages or processes is hard to see from a test: the rings and streams
that carry network data, the functions that wait for it, the lists and trees that
most of the library is built from, the parsers that read messages in pieces,
and the relays, servers and protocols above.

The modules are read together with the code. `PROJECT.json` names the lines
that each definition stands for; the comments in the modules use the names of
the functions in the source.

1. [The system](#1-the-system)
2. [The modules](#2-the-modules)
3. [What is checked](#3-what-is-checked)
4. [What is proved](#4-what-is-proved)
5. [Where code and comments part](#5-where-code-and-comments-part)
6. [What is left out, and the plan](#6-what-is-left-out-and-the-plan)

## 1. The system

No part of the library starts a thread. Concurrency comes from the network
(peers that send, close and stay silent), from the clock, from signals, and
from the processes that the servers in `Samples` fork.
The parts call each other like this (arrows from caller to callee):

    isnet (xLib)  udp_chat  comm_relay (Samples)   http, sip, mime ... (xLib)
       |              |           |                   |
       v              v           v                   v
    ssl_tool       udp_send    recv_wait_twin   protocol headers
       |              |           |                   |
       v              v           v                   v
    tcp_recv_wait -> recv_wait -> select         tTree, tXML, tJson
                                                      |
    tcp_recv_mstream -> mstream -> ringBuffer         v
                                                    tList -> Buffer

### Components with state

| Component | State | Operations | Where it is hard | What makes it correct |
|---|---|---|---|---|
| Byte ring, `ringBuffer` (Lib/tools.c) | buffer, `spoint`, `epoint`, `datasz`, `state` | make, clear, free, put, get, seek, ref | wrap-around, exactly full, seeking back | bytes come out in the order they were put; a refused call changes nothing |
| Message stream, `mstream` (Lib/tools.c) | a ring, `datano` (lines in it), `npoint` (end of the first) | put, get, fgets | the two redundant fields are kept by two different scans | every line once, in order; the count is right |
| Line reception (Lib/network.c, Lib/xtools.c) | the connection's `mstream`, the caller's buffer | tcp_recv_mstream, tcp_recv_mstream_Buffer | TCP cuts anywhere, timeouts inside a line, close | the caller gets the lines the peer sent |
| Waiting (Lib/network.c) | the wait's start, select's mask | recv_wait, recv_wait_twin, send_wait | clock of whole seconds, signals | the wait is bounded; what is reported is readable |
| Tiny List (Lib/tlist.c) | nodes with next, prev and data | add, move, swap, delete, insert, append, copy, update, delete by key | pointer surgery through any node of a list | links agree, lists end, each call does to the list what it says |
| Tiny Tree (Lib/ttree.c) | nodes with parent, eldest and youngest child, sisters, count and depth | add, insert, move, delete, join, divide, search, merge | as above, with three generations of nodes in one call | links, counts and depths agree; each call does to the trees what it says |
| Tiny XML (Lib/txml.c) | a tree whose nodes are open, closed or failed; altp | parse, parse_seq, close, inverse_parse | documents in pieces, errors inside elements | altp and the states tell what is open; what is printed can be read back |
| Buffer (Lib/buffer.c) | bytes, capacity, length | make, copy, cat, ins, expand, get_line | sizes against capacities | contents are what was put; length within capacity |
| Protocol headers (xLib/protocol.c) | static counters that survive between calls | get_protocol_header_list_seq, restore | a header cut anywhere, two streams | the header ends at the first blank line, wherever it was cut |
| HTTP reception (xLib/http_tool.c) | header list, contents, the chunk it is at | recv_http_header, content, chunked, closed | cuts, silence, errors and close at any byte | a success is a whole message |
| isnet (xLib/isnet_client.c, isnet_server.c) | client: step, key, modes; server: key, cipher, user, modes | check_auth; one handler per command | negotiation with fallbacks, answers read together, a server that closes | both sides use the same cipher and mode; success means accepted |
| UDP chat server (Samples/udp_chat) | list of clients with address, receive port and idle count | S, M, L, P, C, E | any command in any state, repeated datagrams, drops while announcing | one entry each, fair drops, everybody hears |
| Relays (Samples/comm_relay) | two sockets and a process per client | relay loops, port search | ends of data on one side, idle timeouts | bytes arrive in order, the end of a side ends the session |
| Cell map servers (Devel/chbmap_svr) | one client at a time | accept, answer | a client that sends nothing | every client is served |
| C++ rings (C++Lib/BasicLib, ExtendLib) | entries, start, end, counts | put, get, clear | overwriting when full | entries are read in the order they were put |

Text and numeric components without a protocol of their own (MIME, ASN.1, base64, matrices, pictures, meshes, databases) are listed in
`PROJECT.json` with the reason they are not modelled.

## 2. The modules

| Component | Abstract specification | Detailed specification | Proofs |
|---|---|---|---|
| Byte ring | `ByteTape` | `RingOps`, `RingBuffer` | `RingOpsProofs`, `RingBufferProofs` |
| Message stream | `LineStream` | `StreamOps` (extends `RingOps`), `MessageStream` | `StreamProofs` |
| Line reception | the history variables `sent`, `got` | `LineReceiver` (extends `StreamOps`) | `StreamProofs` |
| Waiting | | `RecvWait` | `RecvWaitProofs` |
| UDP chat server | | `UdpChat` | `UdpChatProofs` |
| isnet | | `Isnet` | |
| Tiny List | `NodeLists` | `TList` | `TListProofs` |
| Tiny Tree | `Forest` | `TTree` | |
| Tiny XML | the grammar in `IsDocument` | `TinyXml` | `TinyXmlProofs` |
| Protocol headers, HTTP reception | the message that was sent | `HeaderParser`, `HttpReceive` (extends it) | |
| Relays | `Pipes` | `Relay` | `RelayProofs` |

`MC*` modules and their `.cfg` files are the instances for TLC. A definition
marked "a slip" is a faulty form of the definition behind it; no specification
uses it. The runs are repeated with each of them in place to see that the
property it belongs to finds the fault.

**RingOps / RingBuffer.** The struct is a record, each library call an operator
from the old record to the new one. `RingBuffer` lets one owner make any call
with any size, up to one more than fits, and remembers in `out` what the last
call returned. `memcpy` in one or two pieces is one function over the slots
(`PutRing`); cursors are wrapped by adding or subtracting the size once
(`Wrap`), as the code does. Allocation that fails leaves things as they are.
`seek_ringBuffer` does not check that a backward seek stays within the buffer;
its comment asks this of the caller, so the model only makes such calls.

**StreamOps / MessageStream.** `PutStream` and `GetStream` keep both scans of
the code apart: put counts line ends in the string it is given (`LineEnds`,
`FirstEnd`), get looks for the next end in the ring (`ScanEnds`), including the
byte behind the data that a CR makes it look at. `fgets_mstream` is put and get
in one call with its rules on which of the two states survives. The stream is
allocated; `fgets_mstream` would do so at its first call.

**LineReceiver.** The peer appends whole lines to `wire` and may close; a turn
of the receiving loop takes any number of bytes off it, up to all `Sz` that the
caller's buffer has. `toBuffer`, chosen at the
start, says which of the two variants of the function the program uses; they
differ in the codes they return for a timeout, in the end of the string they
write and in what is left in the caller's buffer. A char array that is filled to its end
has no `'\0'`, and what is read as a string goes on in the memory behind it: `Beyond` are the
texts that may lie there, `overread` remembers that one was taken for data. An empty
line is reported as "closed", since both functions return its length. `CutAnywhere` is FALSE when
TCP cuts only where `put_mstream` can count: every segment is `Tame`, that is, it does not
end between CR and LF, and if it begins with a line end it has no other. A line ends in LF
or CR LF and has no other line end (`LineAssumption`).

**RecvWait.** The clock ticks T times per second; the code sees full seconds
only. `Returned` is the loop's condition: call select again, with the whole
timeout, while nothing is set and the seconds are not more than `Tm`. A signal
makes select fail and leave the mask with every socket set. `Tick` lets select
sleep one tick past its timeout at most.

**UdpChat.** One action per command, taken at any time by any client that is,
or is not, in the list, which is what loss, repetition and reordering of
datagrams come to. `del_list` with its address test (the port is not compared),
`get_host_port`, and the two steps of `del_host` (count, unlink and announce) are
operators on the list. `Kept(hl, I)` is what unlinking leaves of a list: the entries at
the positions I, in their order. Two histories stand for the clients: `told` is whom each
member takes for present, going by what the server sent to where it receives (`Listen`), and
`displaced` who went by a command of another client.

**Isnet.** `check_auth` is a state machine over `Steps`; `send_command_recv_ans`
is `Send` followed by `Receive`, `Timeout`, `Closed` or `Reset`. Every command
handler of the server is an action. A handler that sends two answers puts both
into `down`; one `recv` of the client may take several, of which only the first
is looked at (`Coalesce`). A wait may time out although the answer is under way, and
the client then meets it behind its next command (`late`). The server may close at
any time (`ServerDies`).
Passwords, salts and keys are abstracted to whether they fit. The loop that
reads commands and calls the handlers belongs to the embedding program, is
taken to be the obvious one, and no such program is part of the library.

**NodeLists / TList.** `TList` works on pointers: `heap` is what is allocated,
`next`, `prev` and `key` are the fields. `Reach` is what can be reached along a
field, defined as the least closed set, so that the definition also makes sense
for a list that runs in a circle. `NodeLists` has no pointers, only sequences.
`Update` looks for one key and may put in data with another.
`del_tList_key` is a loop in the model too, with the caller's pointer `*pl`.

**Forest / TTree.** `t` holds the fields of all nodes, `live` those allocated;
each call is one action. `Forest` is the same without pointers: each node has its
children in order, and trees without a parent may be sisters in a line. Some calls
that the comments allow leave links that do not fit (adding an anchor, moving a
node that has children, inserting into a node without any, exchanging sisters,
copying a node that has children, json_insert_child of several members or of an object that
hangs somewhere; section 5). They set `torn` and the behaviour ends there, so the properties speak of every sequence of
the other calls. `json_insert_child` of tjson.c is there because it hangs
members over with `add_tTree` in a loop and frees their parent.

**TinyXml.** A document is a sequence of tokens: start, empty and end tags with a
name, text, asides (comments, data and processing instructions, which the loop
treats alike), tags that their own parser refuses, and white space at the beginning
of a piece. `Step` is a turn of the loop of `xml_main_parse`; `Turn` chooses the
token, so every document and every way of cutting it between tokens is covered.
`xml` is the node the loop is at, which the anchor's `altp` keeps between calls of
`xml_parse_seq`; the caller hands that on, as Testing/xml/xml_seq.c does.

**HeaderParser / HttpReceive.** `Parse` is one call of
`get_protocol_header_list_seq` on one segment, with the list and the two static
variables as its state. `HttpReceive` has one action for each `recv` with each
outcome, and one for each decision between them. A stream is cut at any byte into
up to `MaxSegs` segments; a word counts as one symbol, and a number has as many
digits as it counts, so a number that is cut is a smaller one. `rough` remembers
which kinds of cuts the stream had. `tmp` keeps what lies behind the valid part of
the buffer for chunks, since `get_chunked_size` looks there.

**Pipes / Relay.** One process looks at both sockets in turn. `pc` is where it is,
`mask` what select said, `msg` what it holds; the sides send, shut down, close and
read at any moment, also between select and the calls after it. The four programs
differ in `Timeout`, in `RecvEnd` and in the side that speaks SSL. A unit is half
a buffer, which is what it takes for `ssl_recv` to leave a part of a full TLS record
in the SSL object (`pend`).

## 3. What is checked

| Run | Distinct states | Question |
|---|---|---|
| `ring_buffer` | 17976 | Does the ring return what a tape of bytes returns, on any calls? |
| `message_stream` | 5446 | Do lines come out whole, in order and once, is the count right, are refused strings reported? |
| `line_receiver` | 56817 | Does the caller of either function get every line, through timeouts, close and full buffers? |
| `recv_wait` | 9920 | How long may a wait take, and when may it misreport? |
| `udp_chat` | 44724 | Who is in the list, who is dropped, and does everybody know? |
| `isnet` | 49649 | Do client and server agree, and does check_auth end? |
| `tlist` | 4127 | Do the links stay consistent, and does each call do what it promises? |
| `ttree` | 34446 | The same of the trees, their counts and depths. |
| `tiny_xml` | 204613 | Do altp and the states tell what was read, and can a printed tree be read back? |
| `http_receive` | 89884 | Is what recv_http_Buffer calls a success the message that was sent? |
| `relay` | 74017 | Do sessions pass on everything, in order, also to a side that has shut down, and do they end? |
| `line_receiver_cut` | | A comment of the code that the code does not keep, see section 5. |

### Bounds, and why they are enough

- *ring_buffer*: 4 slots, two byte values besides NUL, strings of up to 5
  bytes. Each call depends only on the cursor, the count and whether data runs
  over the end, and four slots give every combination of these with empty, full
  and one-too-many. The proofs remove the bound.
- *message_stream*: 5 slots and lines of up to 4 bytes with their end, so a line
  and the beginning of the next one fit, do not fit, or fill the ring but for a
  byte. The strings contain LF and CR LF ends, several lines, and parts of lines; none
  splits a CR LF, and one that begins with LF has no other line end (`ChunkAssumption`;
  section 5). The proofs remove the other bounds.
- *line_receiver*: 3 lines (`MaxSent`), segments of up to 3 bytes, which is the whole
  buffer (`Sz`), 7 slots. Three lines let one be delivered while one waits in the stream and one
  is on the wire. One line is empty and one is longer than the buffer; behind it lies a `'\0'` or
  a text with a line end. The ring has room for a line and a segment (`RoomAssumption`), as the
  streams of the library (RECVBUFSZ against the lines of its protocols) have. The proof of
  `LinesInOrder` removes the other bounds.
- *recv_wait*: two sockets, a timeout of 2 s and 4 ticks per second, so that a
  wait can begin anywhere within a second. The proofs remove the bounds.
- *udp_chat*: three clients on two hosts, so two share an address; two receive
  ports, one of them 0; at most two silent messages. `silent` stops at that. The proofs
  remove the bounds.
- *isnet*: every configuration of both sides and every kind of user entry; the
  conversation itself is finite.
- *tlist*: four nodes in up to four lists, two keys. Four nodes are a list with
  a middle of two, or two lists of two. Nodes are interchangeable: the runs use
  their symmetry, and check no liveness. All five properties are proved for any number.
- *ttree*: four nodes, symmetric: a node with a parent, a child and a sister, or
  one between two sisters, or a tree of four generations, or two trees.
- *tiny_xml*: two names and documents of up to 6 tokens (`MaxTokens`) for `xml_parse`,
  so elements nest three deep, cross, repeat, and stand at the root together;
  for `xml_parse_seq` any number of pieces, until the tree has 6 nodes (`MaxNodes`).
  The chain of open nodes and the verdict are proved for any length.
- *http_receive*: seven messages, one for each way of saying where the contents end
  and for what may deceive (a folded field, a length beside a chunked coding, bytes
  behind the length, two chunks), in up to four segments: a cut in each of header,
  contents and between them at once.
- *relay*: 2 units from the client and 3 from the server, so a full record and one
  more, or one buffer and one more; room for one unit towards each side, so that
  send blocks; records without data (`Tickets`) before the first one. The proofs of the
  three safety properties remove the bounds.

### Fairness

Only `LineReceiver`, `Isnet` and `Relay` state fairness, and only for what the program or
the network owes.

- `LineReceiver`: the caller calls again (`WF(Call)`): it is a program that reads
  until the end. Select ends after its timeout (`WF(RecvTimeout)`). Bytes that are
  under way do not miss every one of infinitely many calls (`SF(RecvData)`): TCP
  delivers within a bounded time, while timeouts may come first any finite number
  of times. The peer owes nothing.
- `Relay`: the process runs whenever select, recv or send can go on (`WF(Relays)`), a
  silence is noticed in the end (`WF(Timeout)`), and both sides read what they are sent
  (`WF(Read)`): without that send blocks for good. No side has to send or to close.
- `Isnet`: the server handles what it is sent, the client sends, and a wait ends,
  be it by its timeout. No fairness is assumed of the server's closing.

### What the properties say

- `ImplementsTape`, `ImplementsLines`: refinement of the abstract specification,
  with the content of the ring read off the buffer and its cursors. `CursorsAgree`,
  `CountMatches` and `LineReady` say why it holds: the redundant fields agree.
- `RefusalReported`: a string that did not fit is reported also when the same call
  returned a line.
- `LinesInOrder`, `EveryLineArrives`: the caller gets the lines that were sent, in
  order and once, with all of their text (with a char buffer: cut to the room there
  is, and followed by what the buffer held), and every line arrives in the end. Two
  exceptions, both of the code (section 5): once text behind a filled char array has been read as
  data nothing is promised (`overread`), and a caller stops at the first empty line, so the lines
  behind it need not arrive.
- `BoundedWait`: a wait takes at most 2 tm + 1 seconds. (The comment says it times
  out after tm; the loop gives each select all of tm again.) `MisreportsOnlyLate`:
  a signal misleads only a wait that is already over time.
- `OneEntryEach`, `DropsAreDeserved`: a client is in the chat's list once, and leaves it for a
  reason. `MembersAreInformed` ties the list to all messages sent so far: each member was sent
  word of everyone who came after it and is still there, and whom it takes for present is in
  the list, unless a client of the same host displaced that one. It speaks of what the server sends;
  UDP may lose it. `DropsAreAnnounced`: who is dropped for silence is told, and so is who stays.
- `SameCipher`, `AnswersMatch`, `ModesAgree`, `SuccessIsAccepted`: client and server never
  part about the cipher, about which answer belongs to which command, about
  what PASSWD carries, and about whether it was accepted, however late answers come;
  the exception is a client with `cont` that goes on behind a timeout (`Misled`).
  `Returns`: check_auth ends, whatever happens.
- `LinksAgree`, `NoCircle`, `KeyDeleted`, `CallsKeepPromises`: the pointers are a list,
  and every function does to it what `NodeLists` says.
- `LinksAgree` and `CallsKeepPromises` of `TTree`: eldest and youngest child, sisters,
  parents, counts and depths are one tree, nothing leads to a freed node, and every call
  does what `Forest` says.
- `AltpTells`: a caller of `xml_parse_seq` that finds the anchor in `altp` has nothing
  open and no error inside an element. `RoundTrip`: what `xml_inverse_parse` prints, also
  of a tree half read, is read back as the same tree. `Verdict`: of what has no tag that its
  parser refuses, `xml_parse` says PARSED exactly if it is a document of the grammar, and NOT_CLOSED
  if only end tags are missing. With a refused tag it says PARSED only if a whole document stands
  before it; that it says so at all goes against its comment (section 5).
- `EndIsFound`: the empty line ends the header when it arrives, once, wherever the stream
  was cut, but for a cut that leaves the rest of a line without a colon.
  `SuccessIsWhole`: a positive size with state TRUE is the size of the whole message, and
  the contents are decoded. `ClosedIsWhole`: so are contents that end with the connection.
  The two are stated for the cuts that the parsers bear; section 5 says what others do.
- `ImplementsPipes`: each side receives what the other sent, in order and without gaps.
  `LosesOnlyHeldByte`: a session that ends has passed on all that was sent to a side still
  open, but for what SSL holds. `Arrives`: everything arrives or the session ends;
  `EndReaches`: a side that closes ends it. Both name the two ways in which SSL
  sessions get stuck. `HalfClosedIsServed`: in tcp_relay all that is sent arrives, without the
  session ending first, also while the other side has shut down its sending and every select finds it
  readable; only a side that is gone, or a reset, is an excuse.

## 4. What is proved

All theorems are proved for every value of the constants, from the assumptions
on the constants in the modules and nothing else. Those assumptions are checked
by TLC on every instance. Before it was proved, each inductive invariant was checked by
TLC on the states of its run.

| Module | Theorems | Properties that stay with TLC |
|---|---|---|
| `RingBufferProofs` | `TypeCorrect`, `CursorsAlwaysAgree`, `RingImplementsTape` | none |
| `StreamProofs` | `LinesAreCounted`, `CountedLineIsReady`, `RefusalIsReported`, `StreamIsLines`, `LinesComeInOrder` | `EveryLineArrives` |
| `RecvWaitProofs` | `TypeCorrect`, `WaitIsBounded`, `MisreportsAreLate` | none |
| `UdpChatProofs` | `OneEntry`, `NobodyIsDroppedEarly`, `DropsAreTold`, `MembersKnowTheList` | none |
| `RelayProofs` | `NothingIsLost`, `SessionIsTwoPipes` | `Arrives`, `EndReaches`, `HalfClosedIsServed` |
| `TListProofs` | `TypeCorrect`, `LinksAlwaysAgree`, `ListsNeverCircle`, `KeyIsDeleted`, `FunctionsKeepPromises` | none |
| `TinyXmlProofs` | `TypeCorrect`, `OpenNodesAreChain`, `AltpTellsAll`, `VerdictIsRight` | `RoundTrip` |

**RingOpsProofs** holds the lemmas on the struct that ring and stream share: every call
stays inside the buffer, `epoint` stays `datasz` behind `spoint`, and what a put, a
get and a seek do to the bytes of the buffer.

**RingBufferProofs**: `TypeCorrect`, `CursorsAlwaysAgree`, `RingImplementsTape`. The
inductive invariant is `TypeOK /\ CursorsAgree`. Cursors that are only in range are
not enough: a get computes how much lies before the end of the buffer from
`spoint`, and a put from `epoint`, and only their distance `datasz` ties the two.
The refinement is by lemmas on the tape (`LastBytes`): what a put, a get and a seek
do to the buffer read once round, and one lemma for each action.

**StreamProofs**: `LinesAreCounted`, `CountedLineIsReady`, `RefusalIsReported`,
`StreamIsLines` of the stream, `LinesComeInOrder` of the receiver. Neither `CountMatches` nor `LineReady` is inductive: what a get counts down
depends on where `npoint` is. The invariant `Sound` says that `npoint` is behind the first
line end of the unread bytes (`FirstLine`), which is less than a round ahead, and that they
do not end in CR (`Open`), so that the byte behind them is never looked at in vain. The
text lemmas say where lines end in a text put together of two (`EndsOfConcat`,
`EndsAddUp`) and behind a position (`EndsOfRest`, `EndsBehindFirst`); `ScanFindsEnds` that the
scan of the buffer, wrap-around and all, finds the ends of the text. Three assumptions carry
the proof, and each is needed: a string may not end between CR and LF, and one that begins with a line
end may have no other (`ChunkAssumption`; what happens otherwise is the run
`line_receiver_cut`), and lines are shorter than the buffer (`MaxLineAssumption` and `Sendable`;
with one that fills it `npoint = spoint` reads as "none"). The code enforces none of them:
they are what it needs of its callers.

`LinesComeInOrder` is in the same module because both components own an mstream and share
these lemmas: the put lemma `PutIsSound` asks for a `Tame` string and a first line end
less than a round ahead (`Near`), whoever puts. `LinesInOrder` relates two histories and is not
inductive. The invariant `RInv` says of the text under way, what is unread in the stream
and then what is on the wire, that it is cut at some positions `e` into exactly the lines sent and not
yet given (`Cut`), that the stream is `Sound`, and that inside the loop no line is waiting. From
it follows what a turn of the loop needs: the first line that arrives ends where the cut says
(`FirstOfCut`, `FirstOfArrived`), and while none has arrived there is room for a whole
segment (`RoomAssumption`), so put never refuses. A line sent appends a position
(`CutSend`), a line given takes the first one away and shifts the others (`CutTake`). That get
finds no line it counted, JBXL_NET_BUF_ERROR, is excluded on the way (`DeliverStep`). The theorem
is about `overread = FALSE`: until then every string that is put is a piece of the wire, a segment of
all `Sz` bytes included. It
has the hypothesis `~CutAnywhere`, which is needed: of a CR LF cut in the middle the LF is given
as a line of its own (TLC shows it with the lines of `BothLine`).

**RecvWaitProofs**: `TypeCorrect`, `WaitIsBounded`, `MisreportsAreLate`. The bound is not
inductive. The invariant adds that the clock keeps up with the time that passed
(`ClockKeepsUp`), that the last select began within Tm + 1 seconds (`SelectBegun`),
and that it ends in time (`SelectExpires`). Products of constants are handled in
lemmas of their own, as the provers know linear arithmetic only.

**TListProofs**: `TypeCorrect`, `LinksAlwaysAgree`, `ListsNeverCircle`, `KeyIsDeleted`,
`FunctionsKeepPromises`.
`LinksAgree` is inductive with the types: it also says
that nothing leads from or to a node that is not allocated. Each way the actions
change the fields (put in behind a node, take out, cut off, splice, join, copy)
has a lemma. Facts on `Reach` are proved from its being the least closed set, which
takes the place of induction.

`ListsNeverCircle`: `NoCircle` speaks of what can be reached, which
changes with every link. The inductive form is `Open`: every nonempty set of nodes has one
whose next is not in the set. Applied to what is reachable from a node it gives
the end. For the way back to the top the set of predecessors is finite
(`NodeAssumption`), and prev, being one-to-one on it, would be onto.

`KeyIsDeleted`: the loop invariant of `del_tList_key` (`InLoop`) says what the list from `*pl` will be
when the victims that are still ahead (`AheadIn`) have gone: it has the nodes and the order that
were wanted when the call began (`Leaving`). One turn takes at most the node it is at out of what is
ahead (`Turn`), and taking a node out of a list takes it out of whatever it can be reached
from and changes nothing else of who comes behind whom (`UnlinkReach`). `TypeCorrect` needs the
loop too: `nn` and the nodes not yet passed are together no more than there are nodes (`Counting`).

**TinyXmlProofs**: `TypeCorrect`, `OpenNodesAreChain`, `AltpTellsAll`, `VerdictIsRight`. The
invariant of the first three is that
every node but the anchor is below an earlier one (`Typed`) and that the open or failed
nodes are a chain to the current one (`Chain`). `AltpTells` alone is not inductive: it
says nothing while an element is open, and an end tag makes it speak. There is a lemma for
each thing a turn does to the tree (leaf, enter, fail, end). That nothing is open when the
anchor is current follows from the chain: the parent of the earliest open node would be
open and earlier, or the anchor with no open child.

`VerdictIsRight`: what `xml_parse` says of a document without a refused tag is right, for every such
document of any length, and with a refused tag PARSED is said only behind a whole document.
The grammar (`IsDocument`) and the tree are brought together by counting:

- `Height(d, k)` is how many elements are open behind k tokens when names are not looked at. A
  stretch is `Balanced` if it never falls below the height in front of it, ends there, and
  the tags that meet have the same name.
- Which stretches are the content of an element is defined by recursion over their
  ends, which is a function chosen to solve one equation (`Solves`). Balance solves it
  (`BalanceDerives`: a stretch that begins with a start tag is cut where the height first falls,
  `FirstBelow`), and two solutions do not differ: a shortest stretch of which they differ
  would be derived from shorter ones (`OneSolution`). A least number stands in for
  the induction. So the documents of the grammar are those that
  are read well, leave nothing open and have one root (`Whole`).
- `ReadInv`: while xml_parse reads, the tree is what was read of the text (`Reads`). There are
  as many open nodes as the height says, each has the name of the element that
  is open at its height (`Rank`), and there are as many roots in the tree as in the text. Each turn
  keeps that (`LeafReads`, `EnterReads`, `EndReads`), or fails where no document could go on with this
  token (`Misread`), or refuses a tag (`StepReads`).
- End tags can complete a text just where it is read well and has one root: the
  names they need are those of what is open, the last first (`Completion`).

**UdpChatProofs**: `OneEntry`, `NobodyIsDroppedEarly`, `DropsAreTold`, `MembersKnowTheList`.
The invariant is `OneEntryEach` with the types and `Counted`: an entry's `times` is at most the
number of messages its client was silent for, so an entry over the limit has a client that was
silent to the limit. The lists that unlinking leaves are reasoned about by counting: the entry
at position i of a list is at the place in `Kept` that the positions kept up to i number, and every
place is hit once (`HasPlace`, `KeptEntries`).

`MembersKnowTheList` is inductive with these, and its two halves go their own ways. Who comes
later in the list stays later: unlinking keeps the order (`KeptInOrder`), a login puts the newcomer last and
welcomes it to all (`OrderIsTold`). Whom a member was told of is there: a
welcome or an answer to L is about an entry (`NewsAreTrue`), and who goes is said to have gone to all
that stay, or was displaced (`LossIsTold`).

`FunctionsKeepPromises`: what each call does to the lists, seen as sequences of nodes, is
what `NodeLists` promises. `Lists` reads the sequences off the fields: for each top, the sequence as long as what the top
reaches that begins there and goes along next (`Along`), a definition without
recursion, so that the provers can use it. Most of the argument is that there is exactly one such sequence:

- A sequence of nodes where each is the next of the one before it (`Path`), from a
  top to an end, is what its first node reaches (`PathIsReach`), and the sequence `Along` gives,
  and the other way round (`AlongIsPath`, `PathIsAlong`). A node's place in it is the count of what it leaves behind
  (`CountIsPlace`, `EachCount`); a least element takes the place of the induction along
  the list (`Climb`).
- Every allocated node is in exactly one list (`TopOf`, `OneTop`, `ListsAreLined`).
- So sequences that are lists of the new fields and have all nodes between them are all the
  lists there are (`ListsBecome`).

A call then only needs to show that what it promises are lists of the fields it left: put in
behind a node (`BehindLined`), taken out (`WithoutLined`), cut off (`CutLined`), freed
(`FewerLined`), hung behind another list (`ListGoesBehind`), or not touched (`StillList`). One
lemma for each call says so (`NewNodeKeeps` to `DupKeeps`). The invariants `LinksAgree` and `Open` are needed
for all of it: without them a path may never end, or a node have two places.

**RelayProofs**: `NothingIsLost`, `SessionIsTwoPipes`. What a side has sent is
counted through the places it can be: passed on, in the relay's buffer, held by the SSL object, on the
wire. The invariant says that these, in this order, are all the units that were sent
(`Passing`, `Flowing`), as long as somebody receives them, which gives both pipes, and that a
loop that has ended left nothing of an open side on the wire (`Drained`). A record on the wire
may hold several units; `Numbered` says that they count on over the ends of records, by naming
what comes before each record instead of summing lengths.

Only model-checked are:

- liveness (`EveryLineArrives`, `Returns`, `Arrives`, `EndReaches`, `HalfClosedIsServed`): the provers have no ENABLED;
- `Isnet`: it has no parameters but two flags, both of which only add behaviours and are set in the
  run, and a finite conversation, so TLC sees every state there is;
- `LinksAgree` and `CallsKeepPromises` of `TTree`,
  `RoundTrip` of `TinyXml`, and the properties of HTTP reception: what they compare the state
  with is computed by a recursive definition or a filter over a sequence, and what such a definition
  yields for every input needs induction over data, which is out of the provers' reach. `Verdict`
  gets by without it, its grammar read as an equation and the least counterexample taken; for the
  folds and filters of these no such way has been worked out.

## 5. Where code and comments part

One is a run that TLC ends with a counterexample:

- `line_receiver_cut`: a segment that begins with LF and has another line end sets
  `npoint` wrongly, because index 0 also means "not found" (tools.c:3503). From then on
  get_mstream returns nothing and the receiver reports JBXL_NET_BUF_ERROR for ever.

Met while modelling, without a run of their own. The models behave as the code does;
the properties are stated so that they say what still holds.

Streams and waiting:

- network.c:1425: tcp_recv_mstream copies the line over what recv left in the
  buffer and does not end it; of a line that is too long it stores sz-1 bytes and leaves the
  last byte as it was. The comment above it ends every line with a `'\0'` (行末には必ず '@\0' が入る).
- network.c:1409, 1323: tcp_recv_mstream gives recv all sz bytes of the buffer. A
  segment that fills it leaves no `'\0'`, and put_mstream's strlen reads on behind the
  buffer: what it finds there becomes part of the stream.
- xtools.c:620, network.c:1428: the length of the line is returned, which is 0 for an empty
  one; the comments (xtools.c:585, network.c:1387) give 0 to a connection that was closed.
- network.c:1462: when select is interrupted after tm seconds, the mask is as FD_SET
  left it and the wait reports data.
- tools.c:3561: a CR at the very end of the data is judged by the byte behind the
  data, which an earlier lap of the ring left there; tools.c:3543: a line that fills
  the ring exactly cannot be taken, as `npoint = spoint` reads as "none". The instances
  of `message_stream` have neither, by their choice of strings and line lengths.
- CR and LF in two segments count as two line ends, so an empty line appears.
- network.c:1460: the wait may take 2 tm + 1 seconds, not tm; with tm = 0 it polls
  until the clock moves; a negative tm makes select fail and the wait report data.

Chat and isnet:

- udp_chat_server.c:246: del_list compares the address only, so E of one client deletes
  all clients behind the same address.
- isnet_client.c:39: a connection that is closed instead of an answer to PASSWD makes
  check_auth return 0, which is also "OK".
- udp_chat_server.c:85: a client that logs in from a second port with a receive port
  already in use at that address deletes the older entry of another client.
- isnet_client.c:251: a client with `cont` goes on when an answer of the key exchange
  is late, takes it for that of the next command, and so on to PASSWD: check_auth may
  return 0 although the server refuses the password, or has not looked at it yet.
- When OK and the salt are read by one recv the salt is lost and the right password
  refused. CRYPT RESET does not reset the cipher on either side (isnet_server.c:501,
  isnet_client.c:436).

HTTP and relays:

- http_tool.c:1004: the trailer of a chunk is looked up before it has arrived, and counts
  as zero bytes then. Cut inside a chunk, chunked contents come back short with a
  positive size and state TRUE; the comment at http_tool.c:407 promises the whole size.
- protocol.c:225: cut between the CR and LF that end a line, or in a line behind its colon,
  the parser takes the rest up to the next colon, across the empty line, for a key.
- tcp_relay.c:94: a side that has closed stays readable, and its end is not looked at:
  the session spins. ssl_relay.c:93: SSL_read waits behind a record without data, and the
  last byte of a full record stays in the SSL object (ssl_tool.c:1178).

Lists and trees:

- tlist.c:329: move_tList_node of a node behind itself makes it its own next. tlist.c:817:
  del_tList_key called with a node that is not the top leaves the caller's pointer
  to freed memory. tlist.c:616: update_tList_node takes the data of the wrong node.
- ttree.c:234: insert_tTree_node into a node without children leaves `yngr`, so the next
  child added is the only one. A node with children that is moved keeps its links to
  them although they took its place. ttree.h:92 has the parameters in another order than
  ttree.c.
- ttree.c:865: the copy of a node has its count already when copies of its children are
  hung below it, and counts them twice. ttree.c:976: exchanging neighbours makes them
  sisters of themselves. ttree.c:566: after deleting a marked node the loop goes on with
  the pointer to the freed one.
- tjson.c:1036: json_insert_child with two members or more closes them to a circle and
  follows it for ever. tjson.c:1042: the child is freed without being taken out of its
  tree: the parent, or the anchor it was given by (line 1026), and its sisters still lead to it.

XML:

- txml.c:63: a tag refused at root level ends the reading, and a whole document before it is
  called PARSED, where the comment at line 41 promises that an error leaves another state, 0 or
  less. `Verdict` says what holds instead (`Refused`, `Taken`). Nor are the states of
  other errors 0 or less: NOT_CLOSED and MULTI_ROOT are positive.
- txml.c:157: xml_parse_seq never makes the anchor PARSED, and sets MULTI_ROOT or DEFAULT
  over an error; the test `xml->state<0` of Testing/xml/xml_seq.c misses errors of inner
  nodes. close_xml erases them. A piece that begins with white space at root level
  is an error (txml.c:314) and thrown away. Cut inside a tag, text is lost silently.
- txml.c:1051, 1075: xml_inverse_parse drops the attributes of processing instructions, and
  looks in front of its buffer when a comment comes first in the modes with line ends.

## 6. What is left out, and the plan

Inside the modelled components: nodes carry a key and no other data; texts of the
chat, passwords and keys are what the code compares of them; the isnet server's
own wait of 20 seconds for the client's key does not time out; RSA key exchange, which the client
does not support, is not modelled. `send_wait` is the loop of `recv_wait` on the
other mask.

Of Tiny Tree, keys and marks are left out, and with them merging, deletion by marks
and searching; of Tiny XML, attributes, the characters of tags and texts, building a tree by calls,
and searching, replacing and merging. Pieces are cut between tokens, and
xml_parse_seq is called with the node in `altp`, not with any other. Of HTTP, sending,
unpacking and writing files are left out, and the static variables of the parser
begin as a finished header leaves them. udp_relay, tcp_direct and the parsing of
requests by web_proxy are not modelled, nor the fork per client: sessions share nothing.

Not modelled because there is nothing for a model checker in it: text handling (MIME,
ASN.1, character codes), numeric code (matrices, graphics, geometry, hashes), wrappers of
external libraries, and command line tools. They are most of the repository's lines.
`PROJECT.json` lists them one by one.

Planned, in this order:

1. `GrowBuffer`: sizes and capacities of Buffer over make, copy, cat, ins, expand and
   get_line; type correctness and the bound on the length as theorems.
2. `ObjectRing`: the C++ rings, against a tape that forgets its oldest entries.
3. Tiny JSON: its parser, as Tiny XML's, with the functions that merge trees of TTree.
4. The run-length code and the port search, as functions checked against what they
   should compute; two receptions that share the static variables of the header parser.
5. Proofs: the part of the links of `TTree` that can be stated without walking them.

The order is by what other parts depend on and how far a test is from reaching the
behaviour.
