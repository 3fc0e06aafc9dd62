--------------------------- MODULE MCLineReceiver ---------------------------
(* Instances for TLC: lines that end in LF or CR LF, with an empty one and  *)
(* one that is too long for the caller's buffer among them.  Behind that    *)
(* buffer is a '\0', or the rest of some text.                              *)
EXTENDS LineReceiver

CONSTANTS a, b

MCByte == {Nul, CR, LF, a, b}
BothLine == {<<LF>>, <<b, CR, LF>>, <<a, b, a, LF>>}
NulOrText == {<<>>, <<b, LF>>}
OnlyNul == {<<>>}
TextLine == {<<a, LF>>, <<b, a, LF>>}
=============================================================================
