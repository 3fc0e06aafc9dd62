---------------------------- MODULE MCRingBuffer ----------------------------
(* Instance for TLC: a ring of four bytes, puts of nothing up to one byte   *)
(* more than fits.                                                          *)
EXTENDS RingBuffer, SequencesExt

CONSTANTS a, b

MCByte  == {Nul, a, b}
MCChunk == SeqOf({a, b}, 2) \cup {<<a, b, a>>, <<b, a, b, a>>, <<a, a, b, b, a>>}
=============================================================================
