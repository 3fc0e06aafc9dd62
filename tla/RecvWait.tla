------------------------------ MODULE RecvWait ------------------------------
(***************************************************************************)
(* recv_wait and recv_wait_twin of Lib/network.c: wait until one of Socks  *)
(* is readable or Tm seconds have passed, by calling select in a loop.     *)
(* The wait is measured with time(), which shows whole seconds only, each  *)
(* select is given all of Tm again, and a signal may interrupt it.  After  *)
(* the wait the caller reads a socket that was reported readable, as       *)
(* tcp_recv_wait does, and may wait again.                                 *)
(***************************************************************************)
EXTENDS Integers

CONSTANTS
  Socks,   (* one socket for recv_wait, two for recv_wait_twin            *)
  Tm,      (* the timeout in seconds                                      *)
  T,       (* clock ticks per second, the time the model can tell apart   *)
  Signals  (* can a signal handler interrupt select?                      *)

ASSUME TmAssumption == Tm \in Nat
ASSUME TAssumption  == T \in Nat \ {0}

VARIABLES
  pc,     (* "out": in the caller; "select": waiting; "back": the wait is over *)
  ready,  (* the sockets that have data                                   *)
  frac,   (* the ticks the clock is past its last full second             *)
  sec,    (* ntm - otm: how far time() has moved since the wait began     *)
  el,     (* ticks since the wait began                                   *)
  begun,  (* el when the running select was called                        *)
  ret     (* the sockets the wait reported, FALSE or 0 is the empty set   *)

vars == <<pc, ready, frac, sec, el, begun, ret>>

Init == /\ pc = "out" /\ ready = {} /\ frac \in 0 .. T - 1
        /\ sec = 0 /\ el = 0 /\ begun = 0 /\ ret = {}
-----------------------------------------------------------------------------
Arrive(s) == /\ s \notin ready
             /\ ready' = ready \cup {s}
             /\ UNCHANGED <<pc, frac, sec, el, begun, ret>>

(* Time passes in select, at most one tick past its timeout. *)
Tick == /\ pc = "select" /\ el <= begun + Tm * T
        /\ el' = el + 1
        /\ frac' = IF frac = T - 1 THEN 0 ELSE frac + 1
        /\ sec'  = IF frac = T - 1 THEN sec + 1 ELSE sec
        /\ UNCHANGED <<pc, ready, begun, ret>>

CallKeepsBegun ==  \* a slip: the timeout is not set anew
  /\ pc = "out"
  /\ pc' = "select" /\ sec' = 0 /\ el' = 0 /\ begun' = begun /\ ret' = {}
  /\ frac' \in 0 .. T - 1
  /\ UNCHANGED ready

(* The clock is read anew only when the next wait begins. *)
Call == /\ pc = "out"
        /\ pc' = "select" /\ sec' = 0 /\ el' = 0 /\ begun' = 0 /\ ret' = {}
        /\ frac' \in 0 .. T - 1
        /\ UNCHANGED ready
-----------------------------------------------------------------------------
(* Slips: the clock is not looked at; that select returned is reported,     *)
(* without a look at the mask.                                              *)
ReturnedUnclocked(nd, mask) == IF nd < 0 \/ mask = {}
  THEN pc' = "select" /\ begun' = el /\ ret' = ret
  ELSE pc' = "back" /\ ret' = mask /\ begun' = begun
ReturnedAll(nd, mask) == IF (nd < 0 \/ mask = {}) /\ sec <= Tm
  THEN pc' = "select" /\ begun' = el /\ ret' = ret
  ELSE pc' = "back" /\ ret' = Socks /\ begun' = begun

(* select returned nd and left mask: call it again, or end the wait. *)
Returned(nd, mask) == IF (nd < 0 \/ mask = {}) /\ sec <= Tm
  THEN pc' = "select" /\ begun' = el /\ ret' = ret
  ELSE pc' = "back" /\ ret' = mask /\ begun' = begun

Readable == /\ pc = "select" /\ ready # {}
            /\ Returned(1, ready)
            /\ UNCHANGED <<ready, frac, sec, el>>

Expired == /\ pc = "select" /\ ready = {} /\ el >= begun + Tm * T
           /\ Returned(0, {})
           /\ UNCHANGED <<ready, frac, sec, el>>

(* On EINTR select leaves the mask as it was given: every socket set. *)
Interrupted == /\ Signals /\ pc = "select"
               /\ Returned(-1, Socks)
               /\ UNCHANGED <<ready, frac, sec, el>>

(* The caller reads what was reported; recv blocks on a socket without data. *)
Read == /\ pc = "back" /\ ret \subseteq ready
        /\ pc' = "out" /\ ready' = ready \ ret
        /\ UNCHANGED <<frac, sec, el, begun, ret>>

Next == \/ \E s \in Socks : Arrive(s)
        \/ Tick \/ Call \/ Readable \/ Expired \/ Interrupted \/ Read

Spec == Init /\ [][Next]_vars
-----------------------------------------------------------------------------
TypeOK == /\ pc \in {"out", "select", "back"}
          /\ ready \subseteq Socks /\ ret \subseteq Socks
          /\ frac \in 0 .. T - 1
          /\ sec \in Nat /\ el \in Nat /\ begun \in 0 .. el

(* The wait is bounded whatever signals arrive: the last select begins      *)
(* within Tm + 1 seconds of the first and is given Tm seconds of its own.   *)
BoundedWait == pc = "select" => el <= (2 * Tm + 1) * T

(* What is reported is readable while the clock is within tm seconds: what  *)
(* a signal does to the mask then never gets out of the loop.               *)
MisreportsOnlyLate == pc = "back" /\ sec <= Tm => ret \subseteq ready

=============================================================================
