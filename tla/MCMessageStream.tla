-------------------------- MODULE MCMessageStream --------------------------
(* An instance for TLC: the strings the peer's segments are cut into.       *)
EXTENDS MessageStream

CONSTANTS a, b

MCByte == {Nul, CR, LF, a, b}

(* Lines end in LF or CR LF, no string splits a CR LF, and a string that    *)
(* begins with LF has no other line end.                                    *)
TameChunk == {<<a>>, <<LF>>, <<b, LF>>, <<a, CR, LF>>, <<b, LF, a>>, <<a, LF, b, LF>>}
=============================================================================
