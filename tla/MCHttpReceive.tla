--------------------------- MODULE MCHttpReceive ---------------------------
EXTENDS HttpReceive
CRLF == <<"CR", "LF">>
Line(words) == words \o CRLF
Header(first, fields) == Line(first) \o FlattenSeq([i \in DOMAIN fields |-> Line(fields[i])]) \o CRLF
Ds(n) == [i \in 1 .. n |-> "D"]
Chunk(c) == Ds(Len(c)) \o CRLF \o c \o CRLF
Chunked(cs) == FlattenSeq([i \in DOMAIN cs |-> Chunk(cs[i])]) \o <<"0">> \o CRLF \o CRLF
Ends(cs) == {Len(FlattenSeq([i \in 1 .. n |-> Chunk(cs[i])])) : n \in 0 .. Len(cs)}
Ok(v) == <<"HT", "TP/", v, "s200">>
Plain(kind, head, content) ==
  [kind |-> kind, head |-> head, body |-> content, content |-> content, ends |-> {}]

Two == << <<"a", "b">>, <<"c">> >>
MCMessages ==
  { Plain("get", Header(<<"GE", "T">>, << <<"CO", ":", "SP", "close">> >>), <<>>),
    Plain("none", Header(Ok("v1.1"), << <<"CO", ":", "close">> >>), <<>>),
    Plain("length", Header(Ok("v1.1"), << <<"CL", ":", "SP", "D", "D">>, <<"CO", ":", "x">> >>), <<"a", "b">>),
    [Plain("length", Header(Ok("v1.0"), << <<"XX", ":", "x">>, <<"SP", "y">>, <<"CL", ":", "D">> >>), <<"a", "HT", "TP/">>)
       EXCEPT !.content = <<"a">>],
    Plain("closed", Header(Ok("v1.0"), << <<"CO", ":", "close">> >>), <<"a", "b", "c">>),
    [kind |-> "chunked", head |-> Header(Ok("v1.1"), << <<"TE", ":", "chunked">> >>),
     body |-> Chunked(Two), content |-> FlattenSeq(Two), ends |-> Ends(Two)],
    [kind |-> "chunked", head |-> Header(Ok("v1.1"), << <<"CL", ":", "D">>, <<"TE", ":", "SP", "chunked">> >>),
     body |-> Chunked(<< <<"a">> >>), content |-> <<"a">>, ends |-> Ends(<< <<"a">> >>)] }
=============================================================================
