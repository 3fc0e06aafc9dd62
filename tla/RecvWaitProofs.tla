--------------------------- MODULE RecvWaitProofs ---------------------------
(***************************************************************************)
(* How long recv_wait may wait, for every timeout, every resolution of the *)
(* clock and every set of sockets, signals or not.                         *)
(***************************************************************************)
EXTENDS RecvWait, TLAPS

(* time() never runs behind: the seconds it has moved, and the part of the  *)
(* running second, are at least the time the wait has taken.                *)
ClockKeepsUp == el <= sec * T + frac

(* A select is called only while time() has moved by at most Tm, and time   *)
(* passes in it until its timeout.                                          *)
SelectBegun   == begun <= Tm * T + T - 1
SelectExpires == pc = "select" => el <= begun + Tm * T + 1

IInv == TypeOK /\ ClockKeepsUp /\ SelectBegun /\ SelectExpires

(* Products of two parameters are beyond the provers unless they are named. *)
LEMMA TimesNat == ASSUME NEW m \in Nat, NEW n \in Nat PROVE m * n \in Nat
  BY SMT

LEMMA OneMore == ASSUME NEW m \in Nat, NEW n \in Nat PROVE (m + 1) * n = m * n + n
  BY SMT

LEMMA TimesMonotone ==
  ASSUME NEW m \in Nat, NEW n \in Nat, NEW k \in Nat, m <= k
  PROVE  m * n <= k * n
<1>1. PICK d \in Nat : k = m + d
  <2>1. k - m \in Nat /\ k = m + (k - m)  BY SMT
  <2> QED BY <2>1
<1>2. (m + d) * n = m * n + d * n  BY SMT
<1>3. d * n \in Nat /\ m * n \in Nat  BY TimesNat
<1> QED BY <1>1, <1>2, <1>3, SMT

LEMMA InitIInv == Init => IInv
<1> SUFFICES ASSUME Init PROVE IInv
  OBVIOUS
<1> USE TmAssumption, TAssumption DEF Init
<1>1. Tm * T \in Nat  BY TimesNat
<1>2. 0 * T = 0  BY SMT
<1>3. TypeOK  BY DEF TypeOK
<1>4. ClockKeepsUp  BY <1>2 DEF ClockKeepsUp
<1>5. SelectBegun /\ SelectExpires  BY <1>1 DEF SelectBegun, SelectExpires
<1> QED BY <1>3, <1>4, <1>5 DEF IInv

(* What the loop does keeps the invariant, whatever select returned: a new  *)
(* select begins only while sec <= Tm.                                      *)
LEMMA ReturnedStep ==
  ASSUME IInv, pc = "select",
         NEW nd \in Int, NEW mask \in SUBSET Socks, Returned(nd, mask),
         UNCHANGED <<frac, sec, el>>, ready' \subseteq Socks
  PROVE  IInv'
<1> USE TmAssumption, TAssumption
<1>1. Tm * T \in Nat /\ sec * T \in Nat  BY TimesNat DEF IInv, TypeOK
<1>2. sec <= Tm => sec * T <= Tm * T  BY TimesMonotone DEF IInv, TypeOK
<1>3. TypeOK'
  BY DEF IInv, TypeOK, Returned
<1>4. ClockKeepsUp'  BY DEF IInv, ClockKeepsUp
<1>5. SelectBegun' /\ SelectExpires'
  BY <1>1, <1>2 DEF IInv, TypeOK, ClockKeepsUp, SelectBegun, SelectExpires, Returned
<1> QED BY <1>3, <1>4, <1>5 DEF IInv

LEMMA NextIInv == IInv /\ [Next]_vars => IInv'
<1> SUFFICES ASSUME IInv, [Next]_vars PROVE IInv'
  OBVIOUS
<1> USE TmAssumption, TAssumption
<1>0. Tm * T \in Nat /\ sec * T \in Nat /\ 0 * T = 0
  <2>1. 0 * T = 0  BY SMT
  <2> QED BY <2>1, TimesNat DEF IInv, TypeOK
<1>1. ASSUME NEW s \in Socks, Arrive(s) PROVE IInv'
  BY <1>1 DEF IInv, TypeOK, ClockKeepsUp, SelectBegun, SelectExpires, Arrive
<1>2. CASE Tick
  <2>1. (sec + 1) * T = sec * T + T  BY OneMore DEF IInv, TypeOK
  <2>2. TypeOK'  BY <1>2 DEF IInv, TypeOK, Tick
  <2>3. ClockKeepsUp'  BY <1>2, <1>0, <2>1 DEF IInv, TypeOK, ClockKeepsUp, Tick
  <2>4. SelectBegun' /\ SelectExpires'
    BY <1>2, <1>0 DEF IInv, TypeOK, SelectBegun, SelectExpires, Tick
  <2> QED BY <2>2, <2>3, <2>4 DEF IInv
<1>3. CASE Call
  <2>1. TypeOK'  BY <1>3 DEF IInv, TypeOK, Call
  <2>2. frac' \in Nat  BY <1>3 DEF Call
  <2>3. ClockKeepsUp'
    <3>1. el' = 0 /\ sec' = 0  BY <1>3 DEF Call
    <3>2. ASSUME NEW f \in Nat PROVE 0 <= 0 * T + f  BY SMT
    <3> QED BY <3>1, <3>2, <2>2 DEF ClockKeepsUp
  <2>4. SelectBegun' /\ SelectExpires'
    BY <1>3, <1>0 DEF IInv, TypeOK, SelectBegun, SelectExpires, Call
  <2> QED BY <2>1, <2>3, <2>4 DEF IInv
<1>4. CASE Readable
  BY <1>4, ReturnedStep DEF Readable, IInv, TypeOK
<1>5. CASE Expired
  BY <1>5, ReturnedStep DEF Expired, IInv, TypeOK
<1>6. CASE Interrupted
  BY <1>6, ReturnedStep DEF Interrupted, IInv, TypeOK
<1>7. CASE Read
  BY <1>7 DEF IInv, TypeOK, ClockKeepsUp, SelectBegun, SelectExpires, Read
<1>8. CASE UNCHANGED vars
  BY <1>8 DEF IInv, TypeOK, ClockKeepsUp, SelectBegun, SelectExpires, vars
<1> QED BY <1>1, <1>2, <1>3, <1>4, <1>5, <1>6, <1>7, <1>8 DEF Next

LEMMA IInvBounds == IInv => BoundedWait
<1> SUFFICES ASSUME IInv, pc = "select" PROVE el <= (2 * Tm + 1) * T
  BY DEF BoundedWait
<1>1. (2 * Tm + 1) * T = 2 * (Tm * T) + T  BY TmAssumption, TAssumption, SMT
<1>2. Tm * T \in Nat  BY TmAssumption, TAssumption, TimesNat
<1> QED BY <1>1, <1>2, TAssumption DEF IInv, TypeOK, SelectBegun, SelectExpires

(* For every timeout and every clock: a wait ends its last select less than *)
(* 2 * Tm + 1 seconds after the call, however many signals interrupt it.    *)
THEOREM WaitIsBounded == Spec => []BoundedWait
<1>1. Spec => []IInv
  BY InitIInv, NextIInv, PTL DEF Spec
<1> QED BY <1>1, IInvBounds, PTL

(* What is reported while the clock is within tm seconds is readable, for   *)
(* any number of sockets, whatever signals interrupt select.                *)
LEMMA ReturnedReportsReady ==
  ASSUME NEW nd \in Int, NEW mask \in SUBSET Socks, nd >= 0 => mask \subseteq ready,
         MisreportsOnlyLate, pc = "select", Returned(nd, mask), UNCHANGED <<ready, sec>>
  PROVE  MisreportsOnlyLate'
BY DEF MisreportsOnlyLate, Returned

THEOREM MisreportsAreLate == Spec => []MisreportsOnlyLate
<1>1. Init => MisreportsOnlyLate  BY DEF Init, MisreportsOnlyLate
<1>2. TypeOK /\ MisreportsOnlyLate /\ [Next]_vars => MisreportsOnlyLate'
  <2> SUFFICES ASSUME TypeOK, MisreportsOnlyLate, [Next]_vars
               PROVE  MisreportsOnlyLate'
    OBVIOUS
  <2>1. ASSUME NEW s \in Socks, Arrive(s) PROVE MisreportsOnlyLate'
    BY <2>1 DEF MisreportsOnlyLate, Arrive
  <2>2. CASE Tick  BY <2>2 DEF MisreportsOnlyLate, Tick
  <2>3. CASE Call  BY <2>3 DEF MisreportsOnlyLate, Call
  <2>4. CASE Readable
    BY <2>4, ReturnedReportsReady DEF Readable, TypeOK
  <2>5. CASE Expired
    BY <2>5, ReturnedReportsReady DEF Expired
  <2>6. CASE Interrupted
    BY <2>6, ReturnedReportsReady DEF Interrupted
  <2>7. CASE Read  BY <2>7 DEF MisreportsOnlyLate, Read
  <2>8. CASE UNCHANGED vars  BY <2>8 DEF MisreportsOnlyLate, vars
  <2> QED BY <2>1, <2>2, <2>3, <2>4, <2>5, <2>6, <2>7, <2>8 DEF Next
<1>3. Spec => []TypeOK
  <2>1. IInv => TypeOK  BY DEF IInv
  <2> QED BY <2>1, InitIInv, NextIInv, PTL DEF Spec
<1> QED BY <1>1, <1>2, <1>3, PTL DEF Spec

(* The variables keep their types; the wait only ever reports sockets the   *)
(* caller asked about, and no select begins before the wait did.            *)
THEOREM TypeCorrect == Spec => []TypeOK
<1>1. IInv => TypeOK  BY DEF IInv
<1> QED BY <1>1, InitIInv, NextIInv, PTL DEF Spec
=============================================================================
