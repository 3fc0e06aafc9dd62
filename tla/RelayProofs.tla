----------------------------- MODULE RelayProofs -----------------------------
(***************************************************************************)
(* What the relays pass on is what was sent, in order and from the first   *)
(* unit on, whatever the two sides send and close, for any room in the     *)
(* socket buffers and any number of units: a session is two pipes, and one *)
(* that is over has lost nothing but what SSL holds of a full record.      *)
(***************************************************************************)
EXTENDS Relay, SequenceTheorems, TLAPS

(* The units count on behind "from". *)
Counts(units, from) == \A i \in 1 .. Len(units) : units[i] = from + i

(* The units of the records do, over the ends of records, and the last one  *)
(* is "to": f tells what comes before each record.                          *)
Chained(records, f, from, to) ==
  /\ f \in [1 .. Len(records) + 1 -> Nat] /\ f[1] = from /\ f[Len(records) + 1] = to
  /\ \A i, j \in 1 .. Len(records) + 1 : i <= j => f[i] <= f[j]
  /\ \A i \in 1 .. Len(records) :
       f[i + 1] = f[i] + Len(records[i]) /\ Counts(records[i], f[i])

Numbered(records, from, to) ==
  \E f \in [1 .. Len(records) + 1 -> Nat] : Chained(records, f, from, to)

Typed ==
  /\ kind \in Kinds
  /\ sent \in [Sides -> Nat] /\ net \in [Sides -> Seq(Seq(Nat))]
  /\ link \in [Sides -> {"open", "half", "gone", "reset"}]
  /\ pend \in Seq(Nat) /\ out \in [Sides -> Seq(Nat)] /\ got \in [Sides -> Seq(Nat)]
  /\ pc \in {"select", "server", "client", "ended"} /\ mask \in SUBSET Sides /\ msg \in Seq(Nat)
  /\ pc = "select" => msg = <<>>
  /\ \A s \in Sides : ~Secure(s) => \A i \in 1 .. Len(net[s]) : Len(net[s][i]) = 1

(* Where the units of s are: passed on, in the caller's buffer, in the SSL  *)
(* object.                                                                  *)
On(s)      == Len(got[Other[s]]) + Len(out[Other[s]])
Carried(s) == IF pc = s THEN Len(msg) ELSE 0
Held(s)    == IF Secure(s) THEN Len(pend) ELSE 0

Passing(s) == On(s) <= sent[s] /\ Counts(out[Other[s]], Len(got[Other[s]]))

(* As long as somebody receives them, they follow each other in this order; *)
(* what is sent to a socket that is gone is lost.                           *)
Heard(s)   == link[Other[s]] \in {"open", "half"}
Flowing(s) ==
  /\ pc = s => Counts(msg, On(s))
  /\ Secure(s) => Counts(pend, On(s) + Carried(s))
  /\ Numbered(net[s], On(s) + Carried(s) + Held(s), sent[s])

(* A loop that has ended has received what was sent to an open side. *)
Drained(s) == pc = "ended" /\ link[Other[s]] = "open" /\ link[s] # "reset" => net[s] = <<>>

IInv == /\ Typed
        /\ \A s \in Sides : Passing(s) /\ (Heard(s) => Flowing(s)) /\ Drained(s)
-----------------------------------------------------------------------------
(* Nothing, and a stream that has ended. *)
LEMMA NumberedEmpty == ASSUME NEW a \in Nat PROVE Numbered(<<>>, a, a)
<1> DEFINE f == [i \in 1 .. 1 |-> a]
<1>1. Chained(<<>>, f, a, a)  BY DEF Chained
<1>2. f \in [1 .. Len(<<>>) + 1 -> Nat]  OBVIOUS
<1> QED BY <1>1, <1>2 DEF Numbered

LEMMA NothingLeft ==
  ASSUME NEW a \in Nat, NEW b \in Nat, Numbered(<<>>, a, b)
  PROVE  a = b
BY DEF Numbered, Chained

LEMMA NumberedGrows ==
  ASSUME NEW records \in Seq(Seq(Nat)), NEW a \in Nat, NEW b \in Nat,
         Numbered(records, a, b)
  PROVE  a <= b
<1>1. PICK f \in [1 .. Len(records) + 1 -> Nat] : Chained(records, f, a, b)  BY DEF Numbered
<1>2. 1 \in 1 .. Len(records) + 1 /\ Len(records) + 1 \in 1 .. Len(records) + 1
      /\ 1 <= Len(records) + 1  OBVIOUS
<1> QED BY <1>1, <1>2 DEF Chained

(* One more record is sent. *)
LEMMA NumberedAppend ==
  ASSUME NEW records \in Seq(Seq(Nat)), NEW r \in Seq(Nat), NEW a \in Nat, NEW b \in Nat,
         Numbered(records, a, b), Counts(r, b)
  PROVE  Numbered(Append(records, r), a, b + Len(r))
<1> DEFINE n == Len(records)  more == Append(records, r)
<1>1. PICK f \in [1 .. n + 1 -> Nat] : Chained(records, f, a, b)  BY DEF Numbered
<1> DEFINE g == [i \in 1 .. n + 2 |-> IF i = n + 2 THEN b + Len(r) ELSE f[i]]
<1>2. n \in Nat /\ Len(r) \in Nat /\ Len(more) = n + 1
      /\ more[n + 1] = r /\ \A i \in 1 .. n : more[i] = records[i]  OBVIOUS
<1>3. /\ f[1] = a /\ f[n + 1] = b
      /\ \A i, j \in 1 .. n + 1 : i <= j => f[i] <= f[j]
      /\ \A i \in 1 .. n : f[i + 1] = f[i] + Len(records[i]) /\ Counts(records[i], f[i])
  BY <1>1 DEF Chained
<1>n. n \in Nat  OBVIOUS
<1> HIDE DEF n, more
<1>g. /\ g[n + 2] = b + Len(r)
      /\ \A i \in 1 .. n + 1 : g[i] = f[i] /\ f[i] \in Nat
  <2>1. n + 2 \in 1 .. n + 2 /\ \A i \in 1 .. n + 1 : i \in 1 .. n + 2 /\ i # n + 2  BY <1>n
  <2> QED BY <2>1
<1>4. g \in [1 .. n + 2 -> Nat]
  <2>1. ASSUME NEW i \in 1 .. n + 2 PROVE (IF i = n + 2 THEN b + Len(r) ELSE f[i]) \in Nat
    <3>1. i # n + 2 => i \in 1 .. n + 1  BY <1>n
    <3> QED BY <3>1, <1>2
  <2> QED BY <2>1
<1> HIDE DEF g
<1>5. g[1] = a /\ g[n + 2] = b + Len(r)  BY <1>n, <1>g, <1>3
<1>6. ASSUME NEW i \in 1 .. n + 2, NEW j \in 1 .. n + 2, i <= j PROVE g[i] <= g[j]
  <2>1. CASE j = n + 2
    <3>1. f[n + 1] = b /\ n + 1 \in 1 .. n + 1  BY <1>2, <1>3
    <3>2. CASE i = n + 2  BY <2>1, <3>2, <1>g, <1>2
    <3>3. CASE i # n + 2
      <4>1. i \in 1 .. n + 1 /\ i <= n + 1  BY <3>3, <1>n
      <4>2. f[i] <= b /\ g[i] = f[i] /\ f[i] \in Nat  BY <4>1, <3>1, <1>3, <1>g
      <4> QED BY <4>2, <2>1, <1>g, <1>2
    <3> QED BY <3>2, <3>3
  <2>2. CASE j # n + 2
    <3>1. i \in 1 .. n + 1 /\ j \in 1 .. n + 1  BY <2>2, <1>6, <1>n
    <3> QED BY <3>1, <1>6, <1>3, <1>g
  <2> QED BY <2>1, <2>2
<1>7. ASSUME NEW i \in 1 .. n + 1
      PROVE  g[i + 1] = g[i] + Len(more[i]) /\ Counts(more[i], g[i])
  <2>1. CASE i = n + 1
    <3>1. g[i] = b /\ g[i + 1] = b + Len(r) /\ more[i] = r  BY <2>1, <1>n, <1>2, <1>3, <1>g
    <3> QED BY <3>1
  <2>2. CASE i # n + 1
    <3>1. i \in 1 .. n /\ i \in 1 .. n + 1 /\ i + 1 \in 1 .. n + 1  BY <2>2, <1>n
    <3>2. g[i] = f[i] /\ g[i + 1] = f[i + 1] /\ more[i] = records[i]  BY <3>1, <1>g, <1>2
    <3> QED BY <3>1, <3>2, <1>3
  <2> QED BY <2>1, <2>2
<1>8. n + 1 + 1 = n + 2  BY <1>n
<1>9. Chained(more, g, a, b + Len(r))  BY <1>2, <1>4, <1>5, <1>6, <1>7, <1>8 DEF Chained
<1> QED BY <1>2, <1>4, <1>8, <1>9 DEF Numbered, more

(* The first k records are received. *)
LEMMA NumberedDrop ==
  ASSUME NEW records \in Seq(Seq(Nat)), NEW a \in Nat, NEW b \in Nat,
         Numbered(records, a, b), NEW k \in 1 .. 2, k <= Len(records)
  PROVE  LET c == a + Len(records[1]) + IF k = 2 THEN Len(records[2]) ELSE 0
         IN  /\ Counts(records[1], a)
             /\ k = 2 => Counts(records[2], a + Len(records[1]))
             /\ Numbered(SubSeq(records, k + 1, Len(records)), c, b)
<1> DEFINE n == Len(records)  rest == SubSeq(records, k + 1, n)
           c == a + Len(records[1]) + IF k = 2 THEN Len(records[2]) ELSE 0
<1>1. PICK f \in [1 .. n + 1 -> Nat] : Chained(records, f, a, b)  BY DEF Numbered
<1> DEFINE g == [i \in 1 .. n - k + 1 |-> f[i + k]]
<1>2. n \in Nat /\ n >= k /\ k \in Nat /\ rest \in Seq(Seq(Nat)) /\ Len(rest) = n - k
      /\ \A i \in 1 .. n - k : rest[i] = records[i + k]  OBVIOUS
<1>3. /\ f[1] = a /\ f[n + 1] = b
      /\ \A i, j \in 1 .. n + 1 : i <= j => f[i] <= f[j]
      /\ \A i \in 1 .. n : f[i + 1] = f[i] + Len(records[i]) /\ Counts(records[i], f[i])
  BY <1>1 DEF Chained
<1> HIDE DEF n
<1>4. f[k + 1] = c /\ Counts(records[1], a) /\ (k = 2 => Counts(records[2], a + Len(records[1])))
  <2>1. 1 \in 1 .. n /\ 1 + 1 = 2  BY <1>2
  <2>2. f[2] = a + Len(records[1]) /\ Counts(records[1], a)  BY <2>1, <1>3
  <2>3. Len(records[1]) \in Nat  BY <2>1
  <2>4. CASE k = 1  BY <2>2, <2>3, <2>4
  <2>5. CASE k = 2
    <3>1. 2 \in 1 .. n /\ 2 + 1 = 3  BY <2>5, <1>2
    <3>2. f[3] = f[2] + Len(records[2]) /\ Counts(records[2], f[2])  BY <3>1, <1>3
    <3> QED BY <3>1, <3>2, <2>2, <2>5
  <2>6. k = 1 \/ k = 2  OBVIOUS
  <2> QED BY <2>4, <2>5, <2>6
<1>5. g \in [1 .. n - k + 1 -> Nat]  BY <1>2
<1>6. g[1] = c /\ g[n - k + 1] = b
  <2>1. 1 \in 1 .. n - k + 1 /\ n - k + 1 \in 1 .. n - k + 1 /\ (n - k + 1) + k = n + 1 /\ 1 + k = k + 1
    BY <1>2
  <2>2. g[1] = f[k + 1] /\ g[n - k + 1] = f[n + 1]  BY <2>1
  <2> QED BY <2>2, <1>3, <1>4
<1>7. \A i, j \in 1 .. n - k + 1 : i <= j => g[i] <= g[j]  BY <1>2, <1>3
<1>8. \A i \in 1 .. n - k : g[i + 1] = g[i] + Len(rest[i]) /\ Counts(rest[i], g[i])
  BY <1>2, <1>3
<1> HIDE DEF g, c, rest
<1>9. Chained(rest, g, c, b)  BY <1>2, <1>5, <1>6, <1>7, <1>8 DEF Chained
<1>10. Numbered(rest, c, b)  BY <1>2, <1>5, <1>9 DEF Numbered
<1> QED BY <1>4, <1>10 DEF c, rest, n

(* TCP knows no records: every unit is one of its own. *)
LEMMA NumberedUnits ==
  ASSUME NEW records \in Seq(Seq(Nat)), NEW a \in Nat, NEW b \in Nat,
         Numbered(records, a, b), NEW n \in 1 .. 2
  PROVE  /\ Numbered(records \o [i \in 1 .. n |-> <<b + i>>], a, b + n)
         /\ records \o [i \in 1 .. n |-> <<b + i>>] \in Seq(Seq(Nat))
<1> DEFINE one == Append(records, <<b + 1>>)  two == Append(one, <<b + 1 + 1>>)
<1>1. one \in Seq(Seq(Nat)) /\ two \in Seq(Seq(Nat))  OBVIOUS
<1>2. Counts(<<b + 1>>, b) /\ Counts(<<b + 1 + 1>>, b + 1)
      /\ Len(<<b + 1>>) = 1 /\ Len(<<b + 1 + 1>>) = 1  BY DEF Counts
<1>3. Numbered(one, a, b + 1)
  <2>1. <<b + 1>> \in Seq(Nat)  OBVIOUS
  <2>2. Numbered(one, a, b + Len(<<b + 1>>))  BY <2>1, <1>2, NumberedAppend
  <2> QED BY <2>2, <1>2
<1>4. Numbered(two, a, b + 1 + 1)
  <2>1. <<b + 1 + 1>> \in Seq(Nat) /\ b + 1 \in Nat  OBVIOUS
  <2> HIDE DEF one
  <2>2. Numbered(two, a, b + 1 + Len(<<b + 1 + 1>>))  BY <2>1, <1>1, <1>2, <1>3, NumberedAppend
  <2> QED BY <2>2, <1>2
<1>5. CASE n = 1
  <2>1. [i \in 1 .. n |-> <<b + i>>] = << <<b + 1>> >>  BY <1>5
  <2>2. records \o << <<b + 1>> >> = one  OBVIOUS
  <2> QED BY <2>1, <2>2, <1>1, <1>3, <1>5
<1>6. CASE n = 2
  <2>1. [i \in 1 .. n |-> <<b + i>>] = << <<b + 1>>, <<b + 1 + 1>> >>  BY <1>6
  <2>2. records \o << <<b + 1>>, <<b + 1 + 1>> >> = two  OBVIOUS
  <2>3. b + 1 + 1 = b + n  BY <1>6
  <2> QED BY <2>1, <2>2, <2>3, <1>1, <1>4
<1> QED BY <1>5, <1>6
-----------------------------------------------------------------------------
LEMMA Opposite ==
  ASSUME NEW s \in Sides
  PROVE  /\ Other[s] \in Sides /\ Other[s] # s /\ Other[Other[s]] = s
         /\ \A t \in Sides : t # s => t = Other[s]
         /\ s \in {"server", "client"} /\ s # "select" /\ s # "ended"
BY DEF Sides, Other

LEMMA InitIInv == Init => IInv
<1> SUFFICES ASSUME Init PROVE IInv
  OBVIOUS
<1>1. Typed  BY DEF Init, Typed, Sides
<1>2. ASSUME NEW s \in Sides PROVE Passing(s) /\ Flowing(s) /\ Drained(s)
  <2>1. On(s) = 0 /\ Carried(s) = 0 /\ Held(s) = 0 /\ sent[s] = 0 /\ net[s] = <<>>
    BY Opposite DEF Init, On, Carried, Held
  <2>2. Passing(s)  BY <2>1, Opposite DEF Init, Passing, Counts
  <2>3. Numbered(<<>>, 0, 0)  BY NumberedEmpty
  <2>4. Flowing(s)  BY <2>1, <2>3 DEF Init, Flowing, Counts
  <2>5. Drained(s)  BY <2>1 DEF Drained
  <2> QED BY <2>2, <2>4, <2>5
<1> QED BY <1>1, <1>2 DEF IInv

LEMMA Naturals ==
  ASSUME Typed, NEW s \in Sides
  PROVE  On(s) \in Nat /\ Carried(s) \in Nat /\ Held(s) \in Nat /\ sent[s] \in Nat
         /\ net[s] \in Seq(Seq(Nat))
BY Opposite DEF Typed, On, Carried, Held

(* A step of the relay that moves no unit. *)
LEMMA LooksOn ==
  ASSUME IInv, msg = <<>>, UNCHANGED <<kind, sides, pend, out, msg>>,
         pc' \in {"select", "server", "client", "ended"}, mask' \in SUBSET Sides,
         \A s \in Sides : Drained(s)'
  PROVE  IInv'
<1>1. UNCHANGED <<kind, sent, net, link, got, pend, out, msg>>  BY DEF sides
<1>2. Typed'  BY <1>1 DEF IInv, Typed, Secure
<1>3. ASSUME NEW s \in Sides PROVE Passing(s)' /\ (Heard(s)' => Flowing(s)')
  <2>1. On(s)' = On(s) /\ Held(s)' = Held(s)  BY <1>1 DEF On, Held, Secure
  <2>2. Carried(s) = 0 /\ Carried(s)' = 0  BY <1>1 DEF Carried
  <2>3. Passing(s)'  BY <1>1, <2>1 DEF IInv, Passing
  <2>4. ASSUME Heard(s)' PROVE Flowing(s)'
    <3>1. Flowing(s)  BY <2>4, <1>1 DEF IInv, Heard
    <3>2. Counts(msg', On(s)')  BY <1>1 DEF Counts
    <3> QED BY <3>1, <3>2, <1>1, <2>1, <2>2 DEF Flowing, Secure
  <2> QED BY <2>3, <2>4
<1> QED BY <1>2, <1>3 DEF IInv

(* The two sides send and close. *)
LEMMA SendStep ==
  ASSUME IInv, NEW t \in Sides, NEW n \in 1 .. BUFSZ, Send(t, n)
  PROVE  IInv'
<1> USE DEF BUFSZ
<1>1. /\ pc # "ended" /\ UNCHANGED <<kind, link, pend, out, got, pc, mask, msg>>
      /\ sent' = [sent EXCEPT ![t] = @ + n]
  BY DEF Send, relay
<1> DEFINE added == IF Secure(t) THEN <<Units(t, n)>> ELSE [i \in 1 .. n |-> <<sent[t] + i>>]
<1>2. net' = [net EXCEPT ![t] = @ \o added]  BY DEF Send
<1>3. /\ Typed /\ sent[t] \in Nat /\ net[t] \in Seq(Seq(Nat))
      /\ sent \in [Sides -> Nat] /\ net \in [Sides -> Seq(Seq(Nat))]
  BY DEF IInv, Typed
<1>4. Units(t, n) \in Seq(Nat) /\ Len(Units(t, n)) = n /\ Counts(Units(t, n), sent[t])
  BY <1>3 DEF Units, Counts
<1>5. net[t] \o added \in Seq(Seq(Nat))
  <2>1. CASE Secure(t)  BY <2>1, <1>3, <1>4
  <2>2. CASE ~Secure(t)
    <3>1. added \in Seq(Seq(Nat))  BY <2>2, <1>3
    <3> QED BY <3>1, <1>3
  <2> QED BY <2>1, <2>2
<1>6. ~Secure(t) => \A i \in 1 .. Len(net[t] \o added) : Len((net[t] \o added)[i]) = 1
  <2> SUFFICES ASSUME ~Secure(t), NEW i \in 1 .. Len(net[t] \o added)
               PROVE  Len((net[t] \o added)[i]) = 1
    OBVIOUS
  <2>1. \A j \in 1 .. Len(net[t]) : Len(net[t][j]) = 1  BY <1>3 DEF Typed
  <2>2. Len(added) = n /\ added \in Seq(Seq(Nat)) /\ \A j \in 1 .. n : added[j] = <<sent[t] + j>>
    BY <1>3
  <2> HIDE DEF added
  <2>3. CASE i <= Len(net[t])  BY <2>1, <2>2, <2>3, <1>3
  <2>4. CASE i > Len(net[t])
    <3>1. i - Len(net[t]) \in 1 .. n /\ (net[t] \o added)[i] = added[i - Len(net[t])]
      BY <2>2, <2>4, <1>3
    <3> DEFINE j == i - Len(net[t])
    <3>2. added[j] = <<sent[t] + j>> /\ Len(<<sent[t] + j>>) = 1  BY <3>1, <2>2
    <3> QED BY <3>1, <3>2
  <2> QED BY <2>3, <2>4, <1>3, <2>2
<1>7. /\ sent'[t] = sent[t] + n /\ net'[t] = net[t] \o added
      /\ \A s \in Sides : s # t => sent'[s] = sent[s] /\ net'[s] = net[s]
  BY <1>1, <1>2, <1>3
<1> HIDE DEF added
<1>8. Typed'
  <2>1. sent' \in [Sides -> Nat]  BY <1>1, <1>3
  <2>2. net' \in [Sides -> Seq(Seq(Nat))]  BY <1>2, <1>3, <1>5
  <2>3. \A s \in Sides : ~Secure(s)' => \A i \in 1 .. Len(net'[s]) : Len(net'[s][i]) = 1
    <3> SUFFICES ASSUME NEW s \in Sides, ~Secure(s)', NEW i \in 1 .. Len(net'[s])
                 PROVE  Len(net'[s][i]) = 1
      OBVIOUS
    <3>1. ~Secure(s)  BY <1>1 DEF Secure
    <3>2. CASE s = t  BY <3>1, <3>2, <1>6, <1>7
    <3>3. CASE s # t  BY <3>1, <3>3, <1>3, <1>7 DEF Typed
    <3> QED BY <3>2, <3>3
  <2> QED BY <1>1, <1>3, <2>1, <2>2, <2>3 DEF Typed
<1>9. ASSUME NEW s \in Sides PROVE Passing(s)' /\ (Heard(s)' => Flowing(s)') /\ Drained(s)'
  <2>1. On(s)' = On(s) /\ Held(s)' = Held(s) /\ Carried(s)' = Carried(s) /\ Heard(s)' = Heard(s)
    BY <1>1 DEF On, Held, Carried, Secure, Heard
  <2>2. /\ On(s) \in Nat /\ Carried(s) \in Nat /\ Held(s) \in Nat /\ sent[s] \in Nat
        /\ net[s] \in Seq(Seq(Nat))
    BY <1>3, Naturals
  <2>3. Passing(s)'  BY <1>1, <1>7, <2>1, <2>2 DEF IInv, Passing
  <2>4. ASSUME Heard(s) PROVE Flowing(s)'
    <3> DEFINE a == On(s) + Carried(s) + Held(s)
    <3>1. Flowing(s) /\ a \in Nat  BY <2>2, <2>4 DEF IInv
    <3>2. Numbered(net[s], a, sent[s])  BY <3>1 DEF Flowing
    <3> HIDE DEF a
    <3>3. Numbered(net'[s], a, sent'[s])
      <4>1. CASE s # t  BY <4>1, <3>2, <1>7
      <4>2. CASE s = t /\ Secure(t)
        <5>1. net[t] \o <<Units(t, n)>> = Append(net[t], Units(t, n))  BY <1>3, <1>4
        <5>2. Numbered(Append(net[t], Units(t, n)), a, sent[t] + n)
          BY <1>3, <1>4, <3>1, <3>2, <4>2, NumberedAppend
        <5> QED BY <5>1, <5>2, <4>2, <1>7 DEF added
      <4>3. CASE s = t /\ ~Secure(t)
        BY <4>3, <1>3, <1>7, <3>1, <3>2, NumberedUnits DEF added
      <4> QED BY <4>1, <4>2, <4>3
    <3> QED BY <3>1, <3>3, <2>1, <1>1 DEF Flowing, Secure, a
  <2>5. Drained(s)'  BY <1>1 DEF Drained
  <2> QED BY <2>1, <2>3, <2>4, <2>5
<1> QED BY <1>8, <1>9 DEF IInv

LEMMA SendTicketStep ==
  ASSUME IInv, NEW t \in Sides, SendTicket(t)
  PROVE  IInv'
<1>1. /\ pc = "select" /\ UNCHANGED <<kind, sent, link, pend, out, got, pc, mask, msg>>
      /\ Secure(t) /\ sent[t] = 0 /\ net[t] = <<>> /\ net' = [net EXCEPT ![t] = << <<>> >>]
  BY DEF SendTicket, relay
<1>2. Typed /\ net \in [Sides -> Seq(Seq(Nat))]  BY DEF IInv, Typed
<1>3. << <<>> >> \in Seq(Seq(Nat)) /\ << <<>> >> = Append(<<>>, <<>>) /\ <<>> \in Seq(Seq(Nat))
      /\ <<>> \in Seq(Nat) /\ Len(<<>>) = 0
  OBVIOUS
<1>4. net' \in [Sides -> Seq(Seq(Nat))] /\ net'[t] = << <<>> >>
      /\ \A s \in Sides : s # t => net'[s] = net[s]
  BY <1>1, <1>2, <1>3
<1>5. Typed'
  <2>1. \A s \in Sides : ~Secure(s)' => \A i \in 1 .. Len(net'[s]) : Len(net'[s][i]) = 1
    BY <1>1, <1>2, <1>4 DEF Typed, Secure
  <2> QED BY <1>1, <1>2, <1>4, <2>1 DEF Typed
<1>6. ASSUME NEW s \in Sides PROVE Passing(s)' /\ (Heard(s)' => Flowing(s)') /\ Drained(s)'
  <2>1. On(s)' = On(s) /\ Held(s)' = Held(s) /\ Carried(s)' = Carried(s) /\ Heard(s)' = Heard(s)
    BY <1>1 DEF On, Held, Carried, Secure, Heard
  <2>2. On(s) \in Nat /\ Carried(s) \in Nat /\ Held(s) \in Nat /\ sent[s] \in Nat
    BY <1>2, Naturals
  <2>3. Passing(s)'  BY <1>1, <2>1 DEF IInv, Passing
  <2>4. ASSUME Heard(s) PROVE Flowing(s)'
    <3> DEFINE a == On(s) + Carried(s) + Held(s)
    <3>1. Flowing(s) /\ a \in Nat  BY <2>2, <2>4 DEF IInv
    <3>2. Numbered(net[s], a, sent[s])  BY <3>1 DEF Flowing
    <3> HIDE DEF a
    <3>3. Numbered(net'[s], a, sent[s])
      <4>1. CASE s # t  BY <4>1, <3>2, <1>4
      <4>2. CASE s = t
        <5>1. Counts(<<>>, sent[t])  BY DEF Counts
        <5>2. Numbered(Append(<<>>, <<>>), a, sent[t] + Len(<<>>))
          BY <1>1, <1>3, <2>2, <3>1, <3>2, <4>2, <5>1, NumberedAppend
        <5> QED BY <5>2, <4>2, <1>1, <1>3, <1>4
      <4> QED BY <4>1, <4>2
    <3> QED BY <3>1, <3>3, <2>1, <1>1 DEF Flowing, Secure, a
  <2>5. Drained(s)'  BY <1>1 DEF Drained
  <2> QED BY <2>1, <2>3, <2>4, <2>5
<1> QED BY <1>5, <1>6 DEF IInv

LEMMA ShutdownStep ==
  ASSUME IInv, NEW t \in Sides, Shutdown(t)
  PROVE  IInv'
<1>1. /\ pc # "ended" /\ UNCHANGED <<kind, sent, net, pend, out, got, pc, mask, msg>>
      /\ link[t] = "open" /\ link' = [link EXCEPT ![t] = "half"]
  BY DEF Shutdown, relay
<1>2. Typed /\ link \in [Sides -> {"open", "half", "gone", "reset"}]  BY DEF IInv, Typed
<1>3. Typed'  BY <1>1, <1>2 DEF Typed, Secure
<1>4. ASSUME NEW s \in Sides PROVE Passing(s)' /\ (Heard(s)' => Flowing(s)') /\ Drained(s)'
  <2>1. On(s)' = On(s) /\ Held(s)' = Held(s) /\ Carried(s)' = Carried(s)
    BY <1>1 DEF On, Held, Carried, Secure
  <2>2. Heard(s)' => Heard(s)  BY <1>1, <1>2, Opposite DEF Heard
  <2>3. Passing(s)'  BY <1>1, <2>1 DEF IInv, Passing
  <2>4. Heard(s) => Flowing(s)'  BY <1>1, <2>1 DEF IInv, Flowing, Secure
  <2>5. Drained(s)'  BY <1>1 DEF Drained
  <2> QED BY <2>2, <2>3, <2>4, <2>5
<1> QED BY <1>3, <1>4 DEF IInv

LEMMA CloseStep ==
  ASSUME IInv, NEW t \in Sides, Close(t)
  PROVE  IInv'
<1>1. /\ pc # "ended" /\ UNCHANGED <<kind, sent, net, pend, got, pc, mask, msg>>
      /\ link' = [link EXCEPT ![t] = IF out[t] = <<>> THEN "gone" ELSE "reset"]
      /\ out' = [out EXCEPT ![t] = <<>>]
  BY DEF Close, relay
<1>2. /\ Typed /\ link \in [Sides -> {"open", "half", "gone", "reset"}]
      /\ out \in [Sides -> Seq(Nat)] /\ got \in [Sides -> Seq(Nat)] /\ sent \in [Sides -> Nat]
  BY DEF IInv, Typed
<1>3. /\ out'[t] = <<>> /\ link'[t] \in {"gone", "reset"}
      /\ \A s \in Sides : s # t => out'[s] = out[s] /\ link'[s] = link[s]
  BY <1>1, <1>2
<1>4. Typed'
  <2>1. out' \in [Sides -> Seq(Nat)] /\ link' \in [Sides -> {"open", "half", "gone", "reset"}]
    BY <1>1, <1>2
  <2> QED BY <1>1, <1>2, <2>1 DEF Typed, Secure
<1>5. ASSUME NEW s \in Sides PROVE Passing(s)' /\ (Heard(s)' => Flowing(s)') /\ Drained(s)'
  <2>1. Drained(s)'  BY <1>1 DEF Drained
  <2>2. CASE s = t
    <3>1. Other[s] # t /\ Other[s] \in Sides  BY <2>2, Opposite
    <3>2. out'[Other[s]] = out[Other[s]] /\ link'[Other[s]] = link[Other[s]]  BY <3>1, <1>3
    <3>3. On(s)' = On(s) /\ Held(s)' = Held(s) /\ Carried(s)' = Carried(s) /\ Heard(s)' = Heard(s)
      BY <1>1, <3>2 DEF On, Held, Carried, Secure, Heard
    <3>4. Passing(s)'  BY <1>1, <3>2, <3>3 DEF IInv, Passing
    <3>5. Heard(s) => Flowing(s)'  BY <1>1, <3>3 DEF IInv, Flowing, Secure
    <3> QED BY <2>1, <3>3, <3>4, <3>5
  <2>3. CASE s # t
    <3>1. Other[s] = t  BY <2>3, Opposite
    <3>2. ~Heard(s)'  BY <3>1, <1>3 DEF Heard
    <3>3. On(s)' <= On(s) /\ On(s) <= sent[s] /\ On(s)' \in Nat /\ On(s) \in Nat /\ sent[s] \in Nat
      <4>1. On(s) <= sent[s]  BY DEF IInv, Passing
      <4> QED BY <3>1, <4>1, <1>1, <1>2, <1>3 DEF On
    <3>4. Passing(s)'  BY <1>1, <1>3, <3>1, <3>3 DEF Passing, Counts
    <3> QED BY <2>1, <3>2, <3>4
  <2> QED BY <2>2, <2>3
<1> QED BY <1>4, <1>5 DEF IInv

LEMMA ReadStep ==
  ASSUME IInv, NEW t \in Sides, Read(t)
  PROVE  IInv'
<1>1. /\ out[t] # <<>> /\ UNCHANGED <<kind, sent, net, link, pend, pc, mask, msg>>
      /\ got' = [got EXCEPT ![t] = Append(@, Head(out[t]))]
      /\ out' = [out EXCEPT ![t] = Tail(@)]
  BY DEF Read, relay
<1>2. /\ Typed /\ out \in [Sides -> Seq(Nat)] /\ got \in [Sides -> Seq(Nat)]
      /\ out[t] \in Seq(Nat) /\ got[t] \in Seq(Nat)
  BY DEF IInv, Typed
<1>3. /\ Head(out[t]) \in Nat /\ Tail(out[t]) \in Seq(Nat) /\ Append(got[t], Head(out[t])) \in Seq(Nat)
      /\ Len(Tail(out[t])) = Len(out[t]) - 1 /\ Len(Append(got[t], Head(out[t]))) = Len(got[t]) + 1
      /\ \A i \in 1 .. Len(out[t]) - 1 : Tail(out[t])[i] = out[t][i + 1]
  BY <1>1, <1>2
<1>4. /\ out'[t] = Tail(out[t]) /\ got'[t] = Append(got[t], Head(out[t]))
      /\ \A s \in Sides : s # t => out'[s] = out[s] /\ got'[s] = got[s]
  BY <1>1, <1>2
<1>5. Typed'
  <2>1. out' \in [Sides -> Seq(Nat)] /\ got' \in [Sides -> Seq(Nat)]  BY <1>1, <1>2, <1>3
  <2> QED BY <1>1, <1>2, <2>1 DEF Typed, Secure
<1>6. ASSUME NEW s \in Sides PROVE Passing(s)' /\ (Heard(s)' => Flowing(s)') /\ Drained(s)'
  <2>1. On(s)' = On(s)
    <3>1. Other[s] \in Sides  BY Opposite
    <3>2. CASE Other[s] = t
      <4>1. Len(got[t]) \in Nat /\ Len(out[t]) \in Nat  BY <1>2
      <4>2. Len(got'[t]) = Len(got[t]) + 1 /\ Len(out'[t]) = Len(out[t]) - 1  BY <1>3, <1>4
      <4>3. Len(got'[t]) + Len(out'[t]) = Len(got[t]) + Len(out[t])
        <5> DEFINE g == Len(got[t])  o == Len(out[t])
        <5>1. g \in Nat /\ o \in Nat  BY <4>1
        <5>2. Len(got'[t]) = g + 1 /\ Len(out'[t]) = o - 1  BY <4>2
        <5> HIDE DEF g, o
        <5>3. (g + 1) + (o - 1) = g + o  BY <5>1
        <5>4. Len(got'[t]) + Len(out'[t]) = g + o  BY <5>2, <5>3
        <5> QED BY <5>4 DEF g, o
      <4> QED BY <3>2, <4>3 DEF On
    <3>3. CASE Other[s] # t  BY <3>1, <3>3, <1>4 DEF On
    <3> QED BY <3>2, <3>3
  <2>2. Held(s)' = Held(s) /\ Carried(s)' = Carried(s) /\ Heard(s)' = Heard(s)
    BY <1>1 DEF Held, Carried, Secure, Heard
  <2>3. Counts(out'[Other[s]], Len(got'[Other[s]]))
    <3>1. Counts(out[Other[s]], Len(got[Other[s]])) /\ Other[s] \in Sides
      BY Opposite DEF IInv, Passing
    <3>2. CASE Other[s] = t
      <4>1. Len(got[t]) \in Nat /\ Len(out[t]) \in Nat  BY <1>2
      <4>2. ASSUME NEW i \in 1 .. Len(out[t]) - 1 PROVE out'[t][i] = Len(got'[t]) + i
        <5>1. i + 1 \in 1 .. Len(out[t])  BY <4>1
        <5>2. out[t][i + 1] = Len(got[t]) + (i + 1)  BY <5>1, <3>1, <3>2 DEF Counts
        <5>3. out'[t][i] = out[t][i + 1] /\ Len(got'[t]) = Len(got[t]) + 1  BY <1>3, <1>4
        <5>4. \A g, h \in Nat : h = g + 1 => g + (i + 1) = h + i  OBVIOUS
        <5>5. Len(got'[t]) \in Nat  BY <4>1, <5>3
        <5> QED BY <4>1, <5>2, <5>3, <5>4, <5>5
      <4>3. Len(out'[t]) = Len(out[t]) - 1  BY <1>3, <1>4
      <4> QED BY <3>2, <4>2, <4>3 DEF Counts
    <3>3. CASE Other[s] # t  BY <3>1, <3>3, <1>4
    <3> QED BY <3>2, <3>3
  <2>4. Passing(s)'  BY <1>1, <2>1, <2>3 DEF IInv, Passing
  <2>5. Heard(s) => Flowing(s)'  BY <1>1, <2>1, <2>2 DEF IInv, Flowing, Secure
  <2>6. Drained(s)'  BY <1>1 DEF IInv, Drained
  <2> QED BY <2>2, <2>4, <2>5, <2>6
<1> QED BY <1>5, <1>6 DEF IInv
-----------------------------------------------------------------------------
(* The relay: what it does without moving a unit. *)
LEMMA IdleStep ==
  ASSUME IInv, Select \/ Timeout \/ \E t \in Sides : NotReady(t) \/ RecvEnd(t) \/ RecvError(t)
  PROVE  IInv'
<1>0. Typed /\ link \in [Sides -> {"open", "half", "gone", "reset"}]  BY DEF IInv, Typed
<1>1. CASE Select
  <2>1. msg = <<>>  BY <1>0, <1>1 DEF Select, Typed
  <2>2. mask' \in SUBSET Sides /\ pc' = "server"  BY <1>1 DEF Select
  <2>3. \A s \in Sides : Drained(s)'  BY <2>2 DEF Drained
  <2>4. UNCHANGED <<kind, sides, pend, out, msg>>  BY <1>1 DEF Select
  <2> QED BY <2>1, <2>2, <2>3, <2>4, LooksOn
<1>2. CASE Timeout
  <2>1. msg = <<>>  BY <1>0, <1>2 DEF Timeout, Typed
  <2>2. mask' \in SUBSET Sides /\ pc' = "ended"  BY <1>0, <1>2 DEF Timeout, Typed
  <2>3. UNCHANGED <<kind, sides, pend, out, msg>>  BY <1>2 DEF Timeout
  <2>4. \A s \in Sides : Drained(s)'  BY <1>2, <2>3 DEF Timeout, Readable, Drained, sides
  <2> QED BY <2>1, <2>2, <2>3, <2>4, LooksOn
<1>3. ASSUME NEW t \in Sides, NotReady(t) PROVE IInv'
  <2>1. msg = <<>> /\ UNCHANGED <<kind, sides, pend, out, mask, msg>> /\ pc' \in {"client", "select"}
    BY <1>3 DEF NotReady, NextOf
  <2>2. mask' \in SUBSET Sides  BY <1>0, <2>1 DEF Typed
  <2>3. \A s \in Sides : Drained(s)'  BY <2>1 DEF Drained
  <2> QED BY <2>1, <2>2, <2>3, LooksOn
<1>4. ASSUME NEW t \in Sides, RecvEnd(t) PROVE IInv'
  <2>1. /\ msg = <<>> /\ UNCHANGED <<kind, sides, pend, out, mask, msg>>
        /\ pc' \in {"client", "select", "ended"}
        /\ net[t] = <<>> /\ link[t] \in {"half", "gone"}
    BY <1>4 DEF RecvEnd, NextOf
  <2>2. mask' \in SUBSET Sides  BY <1>0, <2>1 DEF Typed
  <2>3. ASSUME NEW s \in Sides PROVE Drained(s)'
    <3>1. CASE s = t  BY <2>1, <3>1 DEF Drained, sides
    <3>2. CASE s # t
      <4>1. Other[s] = t  BY <3>2, Opposite
      <4> QED BY <2>1, <4>1 DEF Drained, sides
    <3> QED BY <3>1, <3>2
  <2> QED BY <2>1, <2>2, <2>3, LooksOn
<1>5. ASSUME NEW t \in Sides, RecvError(t) PROVE IInv'
  <2>1. /\ msg = <<>> /\ UNCHANGED <<kind, sides, pend, out, mask, msg>>
        /\ pc' = "ended" /\ link[t] = "reset"
    BY <1>5 DEF RecvError
  <2>2. mask' \in SUBSET Sides  BY <1>0, <2>1 DEF Typed
  <2>3. ASSUME NEW s \in Sides PROVE Drained(s)'
    <3>1. CASE s = t  BY <2>1, <3>1 DEF Drained, sides
    <3>2. CASE s # t
      <4>1. Other[s] = t  BY <3>2, Opposite
      <4> QED BY <2>1, <4>1 DEF Drained, sides
    <3> QED BY <3>1, <3>2
  <2> QED BY <2>1, <2>2, <2>3, LooksOn
<1> QED BY <1>1, <1>2, <1>3, <1>4, <1>5

(* A step that receives for t: what it takes counts on. *)
LEMMA ReceivedStep ==
  ASSUME IInv, NEW t \in Sides, pc = t, msg = <<>>,
         UNCHANGED <<kind, sent, link, out, got, pc, mask>>,
         msg' \in Seq(Nat), pend' \in Seq(Nat),
         net' \in [Sides -> Seq(Seq(Nat))], \A s \in Sides : s # t => net'[s] = net[s],
         ~Secure(t) => pend' = pend /\ \A i \in 1 .. Len(net'[t]) : Len(net'[t][i]) = 1,
         Heard(t) => /\ Counts(msg', On(t))
                     /\ Secure(t) => Counts(pend', On(t) + Len(msg'))
                     /\ Numbered(net'[t], On(t) + Len(msg') + Held(t)', sent[t])
  PROVE  IInv'
<1>0. Typed  BY DEF IInv
<1>1. Typed'
  <2>1. \A s \in Sides : ~Secure(s)' => \A i \in 1 .. Len(net'[s]) : Len(net'[s][i]) = 1
    BY <1>0 DEF Typed, Secure
  <2>2. pc' # "select"  BY Opposite
  <2> QED BY <1>0, <2>1, <2>2 DEF Typed
<1>2. ASSUME NEW s \in Sides PROVE Passing(s)' /\ (Heard(s)' => Flowing(s)') /\ Drained(s)'
  <2>1. On(s)' = On(s) /\ Heard(s)' = Heard(s) /\ Secure(s)' = Secure(s)
    BY DEF On, Heard, Secure
  <2>2. Passing(s)'  BY <2>1 DEF IInv, Passing
  <2>3. Drained(s)'  BY Opposite DEF Drained
  <2>4. ASSUME Heard(s) PROVE Flowing(s)'
    <3>1. CASE s = t
      <4>1. Carried(s)' = Len(msg')  BY <3>1 DEF Carried
      <4> QED BY <2>1, <2>4, <3>1, <4>1 DEF Flowing
    <3>2. CASE s # t
      <4>1. Carried(s) = 0 /\ Carried(s)' = 0  BY <3>2 DEF Carried
      <4>2. Secure(s) => pend' = pend
        <5>1. ~(Secure(s) /\ Secure(t))  BY <3>2 DEF Secure
        <5> QED BY <5>1
      <4>3. Held(s)' = Held(s)  BY <2>1, <4>2 DEF Held
      <4>4. Flowing(s)  BY <2>4 DEF IInv
      <4> QED BY <2>1, <3>2, <4>1, <4>2, <4>3, <4>4 DEF Flowing
    <3> QED BY <3>1, <3>2
  <2> QED BY <2>1, <2>2, <2>3, <2>4
<1> QED BY <1>1, <1>2 DEF IInv

LEMMA RecvTcpStep ==
  ASSUME IInv, NEW t \in Sides, NEW n \in 1 .. BUFSZ, RecvTcp(t, n)
  PROVE  IInv'
<1> USE DEF BUFSZ
<1>1. /\ pc = t /\ msg = <<>> /\ ~Secure(t) /\ n <= Len(net[t])
      /\ msg' = [i \in 1 .. n |-> Head(net[t][i])]
      /\ net' = [net EXCEPT ![t] = SubSeq(@, n + 1, Len(@))]
      /\ UNCHANGED <<kind, sent, link, pend, out, got, pc, mask>>
  BY DEF RecvTcp
<1>2. /\ Typed /\ net \in [Sides -> Seq(Seq(Nat))] /\ net[t] \in Seq(Seq(Nat)) /\ pend \in Seq(Nat)
      /\ \A i \in 1 .. Len(net[t]) : Len(net[t][i]) = 1
  BY <1>1 DEF IInv, Typed
<1>3. \A i \in 1 .. n : i \in 1 .. Len(net[t]) /\ net[t][i] \in Seq(Nat) /\ net[t][i] # <<>>
                       /\ Head(net[t][i]) = net[t][i][1] /\ net[t][i][1] \in Nat
  <2> SUFFICES ASSUME NEW i \in 1 .. n
               PROVE  i \in 1 .. Len(net[t]) /\ net[t][i] \in Seq(Nat) /\ net[t][i] # <<>>
                      /\ Head(net[t][i]) = net[t][i][1] /\ net[t][i][1] \in Nat
    OBVIOUS
  <2>1. i \in 1 .. Len(net[t])  BY <1>1, <1>2
  <2>2. net[t][i] \in Seq(Nat) /\ Len(net[t][i]) = 1  BY <2>1, <1>2
  <2> QED BY <2>1, <2>2
<1>4. msg' \in Seq(Nat) /\ Len(msg') = n /\ \A i \in 1 .. n : msg'[i] = net[t][i][1]
  BY <1>1, <1>3
<1>5. net' \in [Sides -> Seq(Seq(Nat))] /\ net'[t] = SubSeq(net[t], n + 1, Len(net[t]))
      /\ \A s \in Sides : s # t => net'[s] = net[s]
  BY <1>1, <1>2
<1>6. \A i \in 1 .. Len(net'[t]) : Len(net'[t][i]) = 1
  <2>1. Len(net'[t]) = Len(net[t]) - n
        /\ \A i \in 1 .. Len(net[t]) - n : net'[t][i] = net[t][i + n]
    BY <1>1, <1>2, <1>5
  <2>2. \A i \in 1 .. Len(net[t]) - n : i + n \in 1 .. Len(net[t])  BY <1>1, <1>2
  <2> QED BY <2>1, <2>2, <1>2
<1>7. ASSUME Heard(t)
      PROVE  /\ Counts(msg', On(t))
             /\ Numbered(net'[t], On(t) + Len(msg') + Held(t)', sent[t])
  <2>1. Carried(t) = 0 /\ Held(t) = 0 /\ Held(t)' = 0  BY <1>1 DEF Carried, Held, Secure
  <2>2. On(t) \in Nat /\ sent[t] \in Nat  BY <1>2, Naturals
  <2>3. Numbered(net[t], On(t), sent[t])
    <3>1. On(t) + 0 + 0 = On(t)  BY <2>2
    <3> QED BY <2>1, <3>1, <1>7 DEF IInv, Flowing
  <2> DEFINE c == On(t) + Len(net[t][1]) + IF n = 2 THEN Len(net[t][2]) ELSE 0
  <2>4. /\ Counts(net[t][1], On(t)) /\ (n = 2 => Counts(net[t][2], On(t) + Len(net[t][1])))
        /\ Numbered(net'[t], c, sent[t])
    BY <1>1, <1>2, <1>5, <2>2, <2>3, NumberedDrop
  <2>5. 1 \in 1 .. n /\ Len(net[t][1]) = 1 /\ (n = 2 => Len(net[t][2]) = 1)
    <3>1. 1 \in 1 .. n /\ (n = 2 => 2 \in 1 .. n)  OBVIOUS
    <3> QED BY <1>2, <1>3, <3>1
  <2>6. c = On(t) + n /\ On(t) + Len(msg') + Held(t)' = On(t) + n
    <3>1. On(t) + Len(msg') + Held(t)' = On(t) + n  BY <1>4, <2>1, <2>2
    <3>2. CASE n = 1  BY <2>2, <2>5, <3>1, <3>2
    <3>3. CASE n = 2
      <4>1. c = On(t) + 1 + 1  BY <2>5, <3>3
      <4> HIDE DEF c
      <4>2. On(t) + 1 + 1 = On(t) + n  BY <2>2, <3>3
      <4> QED BY <3>1, <4>1, <4>2
    <3> QED BY <3>2, <3>3
  <2>7. ASSUME NEW i \in 1 .. n PROVE msg'[i] = On(t) + i
    <3>1. CASE i = 1  BY <1>4, <2>4, <2>5, <3>1 DEF Counts
    <3>2. CASE i = 2
      <4>1. n = 2 /\ 1 \in 1 .. 1  BY <3>2
      <4>2. net[t][2][1] = On(t) + 1 + 1  BY <2>4, <2>5, <4>1 DEF Counts
      <4> QED BY <1>4, <2>2, <3>2, <4>2
    <3> QED BY <3>1, <3>2
  <2>8. Counts(msg', On(t))  BY <1>4, <2>7 DEF Counts
  <2> QED BY <2>4, <2>6, <2>8
<1> QED BY <1>1, <1>2, <1>4, <1>5, <1>6, <1>7, ReceivedStep

LEMMA RecvSslStep ==
  ASSUME IInv, NEW t \in Sides, RecvSsl(t)
  PROVE  IInv'
<1>1. /\ pc = t /\ msg = <<>> /\ Secure(t)
      /\ UNCHANGED <<kind, sent, link, out, got, pc, mask>>
  BY DEF RecvSsl
<1>2. /\ Typed /\ net \in [Sides -> Seq(Seq(Nat))] /\ net[t] \in Seq(Seq(Nat)) /\ pend \in Seq(Nat)
  BY DEF IInv, Typed
<1>3. On(t) \in Nat /\ sent[t] \in Nat /\ Len(pend) \in Nat  BY <1>2, Naturals
<1>4. Heard(t) => Counts(pend, On(t)) /\ Numbered(net[t], On(t) + Len(pend), sent[t])
  <2>1. Carried(t) = 0 /\ Held(t) = Len(pend)  BY <1>1 DEF Carried, Held
  <2>2. On(t) + 0 = On(t)  BY <1>3
  <2> QED BY <1>1, <2>1, <2>2 DEF IInv, Flowing
<1>5. CASE pend # <<>>
  <2>1. msg' = pend /\ pend' = <<>> /\ net' = net  BY <1>5 DEF RecvSsl
  <2>2. Held(t)' = 0 /\ Len(<<>>) = 0  BY <2>1 DEF Held
  <2>3. ASSUME Heard(t)
        PROVE  /\ Counts(msg', On(t)) /\ Counts(pend', On(t) + Len(msg'))
               /\ Numbered(net'[t], On(t) + Len(msg') + Held(t)', sent[t])
    <3>1. Counts(pend', On(t) + Len(msg'))  BY <2>1 DEF Counts
    <3>2. On(t) + Len(msg') + Held(t)' = On(t) + Len(pend)  BY <2>1, <2>2, <1>3
    <3> QED BY <1>4, <2>1, <2>3, <3>1, <3>2
  <2>4. msg' \in Seq(Nat) /\ pend' \in Seq(Nat)  BY <1>2, <2>1
  <2> QED BY <1>1, <1>2, <2>1, <2>3, <2>4, ReceivedStep
<1>6. CASE pend = <<>>
  <2> DEFINE r == Head(net[t])
  <2>1. /\ net[t] # <<>> /\ msg' = Fits(r)
        /\ pend' = SubSeq(r, Len(Fits(r)) + 1, Len(r))
        /\ net' = [net EXCEPT ![t] = Tail(@)]
    BY <1>6 DEF RecvSsl
  <2>2. r = net[t][1] /\ r \in Seq(Nat) /\ Len(r) \in Nat /\ 1 <= Len(net[t])
        /\ Tail(net[t]) = SubSeq(net[t], 1 + 1, Len(net[t])) /\ Tail(net[t]) \in Seq(Seq(Nat))
    BY <1>2, <2>1
  <2> HIDE DEF r
  <2> DEFINE m == IF Len(r) < BUFSZ THEN Len(r) ELSE BUFSZ - 1
  <2>3. m \in 0 .. Len(r)  BY <2>2 DEF BUFSZ
  <2>4. Fits(r) = SubSeq(r, 1, m)  BY DEF Fits
  <2> HIDE DEF m
  <2>5. /\ msg' \in Seq(Nat) /\ Len(msg') = m /\ \A i \in 1 .. m : msg'[i] = r[i]
    BY <2>1, <2>2, <2>3, <2>4
  <2>6. /\ pend' \in Seq(Nat) /\ Len(pend') = Len(r) - m
        /\ \A i \in 1 .. Len(r) - m : pend'[i] = r[m + i]
    <3>1. pend' = SubSeq(r, m + 1, Len(r))  BY <2>1, <2>4, <2>5
    <3>2. m + 1 \in 1 .. Len(r) + 1 /\ m \in Nat  BY <2>2, <2>3
    <3>3. SubSeq(r, m + 1, Len(r)) \in Seq(Nat) /\ Len(SubSeq(r, m + 1, Len(r))) = Len(r) - m
      <4>1. \A i \in m + 1 .. Len(r) : i \in 1 .. Len(r)  BY <2>2, <3>2
      <4>2. CASE m = Len(r)
        <5>1. SubSeq(r, m + 1, Len(r)) = <<>>  BY <2>2, <3>2, <4>2
        <5> QED BY <2>2, <4>2, <5>1
      <4>3. CASE m < Len(r)  BY <2>2, <3>2, <4>3
      <4> QED BY <2>2, <2>3, <4>2, <4>3
    <3>4. ASSUME NEW i \in 1 .. Len(r) - m PROVE pend'[i] = r[m + i]
      <4>1. SubSeq(r, m + 1, Len(r))[i] = r[m + 1 + i - 1]  BY <2>2, <3>2, <3>4
      <4>2. m + 1 + i - 1 = m + i  BY <3>2
      <4> QED BY <3>1, <4>1, <4>2
    <3>5. pend' \in Seq(Nat) /\ Len(pend') = Len(r) - m  BY <3>1, <3>3
    <3> QED BY <3>5, <3>4
  <2>7. net' \in [Sides -> Seq(Seq(Nat))] /\ net'[t] = Tail(net[t])
        /\ \A s \in Sides : s # t => net'[s] = net[s]
    BY <1>2, <2>1, <2>2
  <2>8. ASSUME Heard(t)
        PROVE  /\ Counts(msg', On(t)) /\ Counts(pend', On(t) + Len(msg'))
               /\ Numbered(net'[t], On(t) + Len(msg') + Held(t)', sent[t])
    <3>1. Numbered(net[t], On(t), sent[t])
      <4>1. On(t) + Len(pend) = On(t)  BY <1>3, <1>6
      <4> QED BY <1>4, <2>8, <4>1
    <3>2. Counts(r, On(t)) /\ Numbered(Tail(net[t]), On(t) + Len(r), sent[t])
      <4> DEFINE c == On(t) + Len(net[t][1]) + IF 1 = 2 THEN Len(net[t][2]) ELSE 0
      <4>1. c = On(t) + Len(r)  BY <1>3, <2>2
      <4>2. 1 \in 1 .. 2  OBVIOUS
      <4>3. Counts(net[t][1], On(t)) /\ Numbered(SubSeq(net[t], 1 + 1, Len(net[t])), c, sent[t])
        BY <1>2, <1>3, <2>2, <3>1, <4>2, NumberedDrop
      <4> HIDE DEF c
      <4> QED BY <2>2, <4>1, <4>3
    <3>3. Counts(msg', On(t))
      <4>1. \A i \in 1 .. m : i \in 1 .. Len(r)  BY <2>2, <2>3
      <4> QED BY <2>5, <3>2, <4>1 DEF Counts
    <3>4. ASSUME NEW i \in 1 .. Len(r) - m PROVE pend'[i] = On(t) + m + i
      <4>1. m + i \in 1 .. Len(r)  BY <2>2, <2>3, <3>4
      <4>2. r[m + i] = On(t) + (m + i)  BY <3>2, <4>1 DEF Counts
      <4> QED BY <1>3, <2>3, <2>6, <4>2
    <3>5. Counts(pend', On(t) + Len(msg'))  BY <2>5, <2>6, <3>4 DEF Counts
    <3>6. On(t) + Len(msg') + Held(t)' = On(t) + Len(r)
      <4>1. Held(t)' = Len(r) - m  BY <1>1, <2>6 DEF Held, Secure
      <4> QED BY <1>3, <2>2, <2>3, <2>5, <4>1
    <3> QED BY <2>7, <3>2, <3>3, <3>5, <3>6
  <2> QED BY <1>1, <2>5, <2>6, <2>7, <2>8, ReceivedStep
<1> QED BY <1>5, <1>6

LEMMA ForwardStep ==
  ASSUME IInv, NEW t \in Sides, Forward(t)
  PROVE  IInv'
<1> DEFINE d == Other[t]
<1>1. /\ pc = t /\ msg # <<>> /\ link[d] \in {"open", "half"}
      /\ out' = [out EXCEPT ![d] = Append(@, Head(msg))] /\ msg' = Tail(msg)
      /\ pc' = IF Len(msg) = 1 THEN NextOf(t) ELSE t
      /\ UNCHANGED <<kind, sent, net, link, got, pend, mask>>
  BY DEF Forward, sides
<1>2. /\ Typed /\ msg \in Seq(Nat) /\ out \in [Sides -> Seq(Nat)] /\ got \in [Sides -> Seq(Nat)]
      /\ d \in Sides /\ out[d] \in Seq(Nat)
  BY Opposite DEF IInv, Typed
<1>3. /\ Head(msg) = msg[1] /\ msg[1] \in Nat /\ Len(msg) \in Nat /\ Len(msg) >= 1
      /\ Tail(msg) \in Seq(Nat) /\ Len(Tail(msg)) = Len(msg) - 1
      /\ \A i \in 1 .. Len(msg) - 1 : Tail(msg)[i] = msg[i + 1]
  BY <1>1, <1>2
<1> HIDE DEF d
<1>4. /\ out'[d] = Append(out[d], msg[1]) /\ out' \in [Sides -> Seq(Nat)]
      /\ \A s \in Sides : s # d => out'[s] = out[s]
  BY <1>1, <1>2, <1>3
<1>5. pc' \in {"select", "client", "server"} /\ (pc' # t => msg' = <<>>)
  <2>1. t \in {"client", "server"}  BY Opposite
  <2>2. NextOf(t) \in {"select", "client"}  BY DEF NextOf
  <2>3. CASE Len(msg) = 1
    <3>1. Len(Tail(msg)) = 0  BY <1>3, <2>3
    <3>2. msg' = <<>>  BY <1>1, <1>3, <3>1
    <3> QED BY <1>1, <2>2, <2>3, <3>2
  <2>4. CASE Len(msg) # 1  BY <1>1, <2>1, <2>4
  <2> QED BY <2>3, <2>4
<1>6. Typed'
  <2>1. pc' = "select" => msg' = <<>>  BY <1>5, Opposite
  <2> QED BY <1>1, <1>2, <1>3, <1>4, <1>5, <2>1 DEF Typed, Secure
<1>7. ASSUME NEW s \in Sides PROVE Passing(s)' /\ (Heard(s)' => Flowing(s)') /\ Drained(s)'
  <2>1. Heard(s)' = Heard(s) /\ Secure(s)' = Secure(s) /\ Held(s)' = Held(s)
    BY <1>1 DEF Heard, Secure, Held
  <2>2. Drained(s)'  BY <1>5 DEF Drained
  <2>3. /\ On(s) \in Nat /\ Carried(s) \in Nat /\ Held(s) \in Nat /\ sent[s] \in Nat
        /\ net[s] \in Seq(Seq(Nat))
    BY <1>2, Naturals
  <2>4. CASE s = t
    <3>1. Heard(t) /\ Flowing(t) /\ Passing(t)  BY <1>1 DEF IInv, Heard, d
    <3>2. On(t)' = On(t) + 1
      <4>1. Len(out'[d]) = Len(out[d]) + 1 /\ Len(out[d]) \in Nat /\ Len(got[d]) \in Nat
        BY <1>2, <1>3, <1>4
      <4>2. On(t) = Len(got[d]) + Len(out[d]) /\ On(t)' = Len(got[d]) + Len(out'[d])
        BY <1>1 DEF On, d
      <4>3. \A g, o \in Nat : g + (o + 1) = g + o + 1  OBVIOUS
      <4> QED BY <4>1, <4>2, <4>3
    <3>3. Carried(t) = Len(msg) /\ Carried(t)' = Len(msg) - 1
      <4>1. Len(msg') = Len(msg) - 1  BY <1>1, <1>3
      <4>2. pc' # t => Len(msg) = 1  BY <1>1
      <4> QED BY <1>1, <1>3, <4>1, <4>2 DEF Carried
    <3>4. \A i \in 1 .. Len(msg) : msg[i] = On(t) + i  BY <1>1, <3>1 DEF Flowing, Counts
    <3>5. On(t) + 1 <= sent[t]
      <4>1. Numbered(net[t], On(t) + Carried(t) + Held(t), sent[t])  BY <3>1 DEF Flowing
      <4>2. On(t) + Carried(t) + Held(t) <= sent[t]  BY <2>3, <2>4, <4>1, NumberedGrows
      <4> QED BY <1>3, <2>3, <2>4, <3>3, <4>2
    <3>6. Counts(out'[d], Len(got'[d]))
      <4>1. Counts(out[d], Len(got[d]))  BY <3>1 DEF Passing, d
      <4>2. On(t) = Len(got[d]) + Len(out[d]) /\ Len(out[d]) \in Nat /\ Len(got[d]) \in Nat
        BY <1>2 DEF On, d
      <4>3. Len(out'[d]) = Len(out[d]) + 1 /\ out'[d][Len(out[d]) + 1] = msg[1]
            /\ \A i \in 1 .. Len(out[d]) : out'[d][i] = out[d][i]
        BY <1>2, <1>3, <1>4
      <4>4. msg[1] = Len(got[d]) + (Len(out[d]) + 1)
        <5>1. msg[1] = On(t) + 1  BY <1>3, <3>4
        <5>2. \A g, o \in Nat : g + o + 1 = g + (o + 1)  OBVIOUS
        <5> QED BY <5>1, <5>2, <4>2
      <4>5. ASSUME NEW i \in 1 .. Len(out'[d]) PROVE out'[d][i] = Len(got[d]) + i
        <5>1. CASE i = Len(out[d]) + 1  BY <5>1, <4>3, <4>4
        <5>2. CASE i # Len(out[d]) + 1
          <6>1. i \in 1 .. Len(out[d])  BY <4>2, <4>3, <5>2
          <6> QED BY <6>1, <4>1, <4>3 DEF Counts
        <5> QED BY <5>1, <5>2
      <4> QED BY <1>1, <4>5 DEF Counts
    <3>7. Passing(t)'  BY <1>1, <3>2, <3>5, <3>6 DEF Passing, d
    <3>8. Counts(msg', On(t)')
      <4>1. ASSUME NEW i \in 1 .. Len(msg) - 1 PROVE msg'[i] = On(t) + 1 + i
        <5>1. i + 1 \in 1 .. Len(msg)  BY <1>3
        <5>2. msg'[i] = msg[i + 1] /\ msg[i + 1] = On(t) + (i + 1)  BY <1>1, <1>3, <3>4, <5>1
        <5> QED BY <2>3, <2>4, <5>2
      <4>2. Len(msg') = Len(msg) - 1  BY <1>1, <1>3
      <4> QED BY <3>2, <4>1, <4>2 DEF Counts
    <3>9. On(t)' + Carried(t)' = On(t) + Carried(t)  BY <1>3, <2>3, <2>4, <3>2, <3>3
    <3>10. Flowing(t)'  BY <1>1, <2>1, <2>4, <3>1, <3>8, <3>9 DEF Flowing
    <3> QED BY <2>2, <2>4, <3>7, <3>10
  <2>5. CASE s # t
    <3>1. Other[s] # d /\ Other[s] \in Sides  BY <2>5, Opposite DEF d
    <3>2. On(s)' = On(s) /\ out'[Other[s]] = out[Other[s]]  BY <1>1, <1>4, <3>1 DEF On
    <3>3. Carried(s) = 0 /\ Carried(s)' = 0
      <4>1. Carried(s) = 0  BY <1>1, <2>5 DEF Carried
      <4>2. pc' = s => Len(msg') = 0  BY <1>5, <2>5
      <4> QED BY <4>1, <4>2 DEF Carried
    <3>4. Passing(s)'  BY <1>1, <3>2 DEF IInv, Passing
    <3>5. ASSUME Heard(s) PROVE Flowing(s)'
      <4>1. Flowing(s)  BY <3>5 DEF IInv
      <4>2. pc' = s => Counts(msg', On(s)')  BY <1>5, <2>5 DEF Counts
      <4> QED BY <1>1, <2>1, <3>2, <3>3, <4>1, <4>2 DEF Flowing
    <3> QED BY <2>1, <2>2, <3>4, <3>5
  <2> QED BY <2>4, <2>5
<1> QED BY <1>6, <1>7 DEF IInv

(* What is sent to a socket that is gone is lost, and nobody misses it. *)
LEMMA ForwardToGoneStep ==
  ASSUME IInv, NEW t \in Sides, ForwardToGone(t)
  PROVE  IInv'
<1> DEFINE d == Other[t]
<1>1. /\ pc = t /\ msg # <<>> /\ link[d] \in {"gone", "reset"}
      /\ UNCHANGED <<kind, sent, net, pend, out, got, mask>>
      /\ \/ msg' = <<>> /\ pc' = NextOf(t) /\ link' = [link EXCEPT ![d] = "reset"]
         \/ link[d] = "reset" /\ msg' = msg /\ pc' = "ended" /\ link' = link
  BY DEF ForwardToGone
<1>2. /\ Typed /\ d \in Sides /\ link \in [Sides -> {"open", "half", "gone", "reset"}]
  BY Opposite DEF IInv, Typed
<1>3. link' \in [Sides -> {"open", "half", "gone", "reset"}] /\ link'[d] \in {"gone", "reset"}
      /\ (pc' = "ended" => link'[d] = "reset")
      /\ \A s \in Sides : s # d => link'[s] = link[s]
  BY <1>1, <1>2 DEF NextOf
<1>4. pc' \in {"select", "client", "ended"} /\ (pc' # "ended" => msg' = <<>>) /\ msg' \in Seq(Nat)
  <2>1. NextOf(t) \in {"select", "client"} /\ msg \in Seq(Nat)  BY <1>2 DEF NextOf, Typed
  <2>2. <<>> \in Seq(Nat)  OBVIOUS
  <2>3. CASE msg' = <<>> /\ pc' = NextOf(t)  BY <2>1, <2>2, <2>3
  <2>4. CASE msg' = msg /\ pc' = "ended"  BY <2>1, <2>4
  <2> QED BY <1>1, <2>3, <2>4
<1>5. Typed'  BY <1>1, <1>2, <1>3, <1>4 DEF Typed, Secure
<1>6. ASSUME NEW s \in Sides PROVE Passing(s)' /\ (Heard(s)' => Flowing(s)') /\ Drained(s)'
  <2>1. On(s)' = On(s) /\ Secure(s)' = Secure(s) /\ Held(s)' = Held(s)
    BY <1>1 DEF On, Secure, Held
  <2>2. Passing(s)'  BY <1>1, <2>1 DEF IInv, Passing
  <2>3. CASE s = t
    <3>1. ~Heard(s)' /\ Drained(s)'  BY <1>3, <2>3 DEF Heard, Drained, d
    <3> QED BY <2>2, <3>1
  <2>4. CASE s # t
    <3>1. Other[s] = t /\ s = d /\ t # d  BY <2>4, Opposite DEF d
    <3>2. Drained(s)'  BY <1>3, <3>1 DEF Drained
    <3>3. Heard(s)' = Heard(s)  BY <1>2, <1>3, <3>1 DEF Heard
    <3>4. Carried(s) = 0 /\ Carried(s)' = 0
      <4>1. Carried(s) = 0  BY <1>1, <2>4 DEF Carried
      <4>2. pc' = s => Len(msg') = 0  BY <1>4, Opposite
      <4> QED BY <4>1, <4>2 DEF Carried
    <3>5. pc' = s => Counts(msg', On(s)')  BY <1>4, Opposite DEF Counts
    <3>6. Heard(s) => Flowing(s)'  BY <1>1, <2>1, <3>4, <3>5 DEF IInv, Flowing
    <3> QED BY <2>2, <3>2, <3>3, <3>6
  <2> QED BY <2>3, <2>4
<1> QED BY <1>5, <1>6 DEF IInv

LEMMA NextIInv ==
  ASSUME IInv, [Next]_vars
  PROVE  IInv'
<1>1. CASE Relays
  <2>1. CASE Select  BY <2>1, IdleStep
  <2>2. ASSUME NEW t \in Sides, Looks(t) PROVE IInv'
    <3>1. CASE NotReady(t) \/ RecvEnd(t) \/ RecvError(t)  BY <3>1, IdleStep
    <3>2. CASE RecvSsl(t)  BY <3>2, RecvSslStep
    <3>3. CASE \E n \in 1 .. BUFSZ : RecvTcp(t, n)  BY <3>3, RecvTcpStep
    <3>4. CASE Forward(t)  BY <3>4, ForwardStep
    <3>5. CASE ForwardToGone(t)  BY <3>5, ForwardToGoneStep
    <3> QED BY <2>2, <3>1, <3>2, <3>3, <3>4, <3>5 DEF Looks
  <2> QED BY <1>1, <2>1, <2>2 DEF Relays
<1>2. CASE Timeout  BY <1>2, IdleStep
<1>3. ASSUME NEW t \in Sides, NEW n \in 1 .. BUFSZ, Send(t, n) PROVE IInv'
  BY <1>3, SendStep
<1>4. ASSUME NEW t \in Sides, SendTicket(t) PROVE IInv'  BY <1>4, SendTicketStep
<1>5. ASSUME NEW t \in Sides, Shutdown(t) PROVE IInv'  BY <1>5, ShutdownStep
<1>6. ASSUME NEW t \in Sides, Close(t) PROVE IInv'  BY <1>6, CloseStep
<1>7. ASSUME NEW t \in Sides, Read(t) PROVE IInv'  BY <1>7, ReadStep
<1>8. CASE UNCHANGED vars
  <2>1. UNCHANGED <<kind, sent, net, link, pend, out, got, pc, mask, msg>>
    BY <1>8 DEF vars
  <2>2. Typed'  BY <2>1 DEF IInv, Typed, Secure
  <2>3. ASSUME NEW s \in Sides PROVE Passing(s)' /\ (Heard(s)' => Flowing(s)') /\ Drained(s)'
    <3>1. /\ On(s)' = On(s) /\ Carried(s)' = Carried(s) /\ Held(s)' = Held(s)
          /\ Heard(s)' = Heard(s) /\ Secure(s)' = Secure(s)
      BY <2>1 DEF On, Carried, Held, Heard, Secure
    <3> QED BY <2>1, <3>1 DEF IInv, Passing, Flowing, Drained
  <2> QED BY <2>2, <2>3 DEF IInv
<1> QED BY <1>1, <1>2, <1>3, <1>4, <1>5, <1>6, <1>7, <1>8 DEF Next
-----------------------------------------------------------------------------
(* A session that is over has passed on all that was sent to a side that    *)
(* was still open, but for what SSL holds of a full record.                 *)
THEOREM NothingIsLost == Spec => []LosesOnlyHeldByte
<1>1. IInv => LosesOnlyHeldByte
  <2> SUFFICES ASSUME IInv, pc = "ended", NEW s \in Sides, link[Other[s]] = "open", link[s] # "reset"
               PROVE  Len(Passed(s)) + Held(s) = sent[s]
    BY DEF LosesOnlyHeldByte, Held
  <2>1. Typed /\ Flowing(s) /\ net[s] = <<>>  BY DEF IInv, Heard, Drained
  <2>2. On(s) \in Nat /\ Held(s) \in Nat /\ sent[s] \in Nat  BY <2>1, Naturals
  <2>3. Carried(s) = 0  BY Opposite DEF Carried
  <2>4. On(s) + Carried(s) + Held(s) = sent[s]
    <3> DEFINE a == On(s) + Carried(s) + Held(s)
    <3>1. a \in Nat /\ Numbered(<<>>, a, sent[s])  BY <2>1, <2>2, <2>3 DEF Flowing
    <3> HIDE DEF a
    <3>2. a = sent[s]  BY <2>2, <3>1, NothingLeft
    <3> QED BY <3>2 DEF a
  <2>5. Len(Passed(s)) = On(s)
    <3>1. got[Other[s]] \in Seq(Nat) /\ out[Other[s]] \in Seq(Nat)  BY <2>1, Opposite DEF Typed
    <3> QED BY <3>1 DEF Passed, On
  <2> QED BY <2>2, <2>3, <2>4, <2>5
<1> QED BY <1>1, InitIInv, NextIInv, PTL DEF Spec

(* What a side receives is what the other one sent, from the first unit on, *)
(* each once and in order, whatever the relay, SSL and the sides do between. *)
THEOREM SessionIsTwoPipes == Spec => ImplementsPipes
<1>1. Init => TwoPipes!Init
  <2>1. DOMAIN Other = Sides  BY DEF Other
  <2> QED BY <2>1 DEF Init, TwoPipes!Init
<1>2. ASSUME IInv, [Next]_vars PROVE [TwoPipes!Next]_(TwoPipes!vars)
  <2>0. DOMAIN Other = Sides  BY DEF Other
  <2>1. ASSUME NEW t \in Sides, NEW n \in 1 .. BUFSZ, Send(t, n) PROVE TwoPipes!Next
    <3>1. n \in 1 .. 2 /\ sent' = [sent EXCEPT ![t] = @ + n] /\ got' = got
      BY <2>1 DEF Send, BUFSZ
    <3> QED BY <2>0, <3>1 DEF TwoPipes!Next, TwoPipes!Send
  <2>2. ASSUME NEW t \in Sides, Read(t) PROVE TwoPipes!Next
    <3> DEFINE s == Other[t]
    <3>1. s \in Sides /\ Other[s] = t  BY Opposite
    <3> HIDE DEF s
    <3>2. Typed /\ Passing(s)  BY <1>2, <3>1 DEF IInv
    <3>3. out[t] \in Seq(Nat) /\ out[t] # <<>> /\ got[t] \in Seq(Nat) /\ sent[s] \in Nat
      BY <2>2, <3>1, <3>2 DEF Typed, Read
    <3>4. Head(out[t]) = Len(got[t]) + 1
      <4>1. Head(out[t]) = out[t][1] /\ 1 \in 1 .. Len(out[t])  BY <3>3
      <4> QED BY <3>1, <3>2, <4>1 DEF Passing, Counts
    <3>5. Len(got[t]) < sent[s]
      <4>1. Len(got[t]) \in Nat /\ Len(out[t]) \in Nat /\ Len(out[t]) >= 1  BY <3>3
      <4>2. Len(got[t]) + Len(out[t]) <= sent[s]  BY <3>1, <3>2 DEF Passing, On
      <4>3. \A g, o, n \in Nat : o >= 1 /\ g + o <= n => g < n  OBVIOUS
      <4> QED BY <3>3, <4>1, <4>2, <4>3
    <3>6. got' = [got EXCEPT ![t] = Append(@, Len(@) + 1)] /\ sent' = sent
      BY <2>2, <3>4 DEF Read
    <3>7. TwoPipes!Deliver(t)  BY <3>5, <3>6 DEF TwoPipes!Deliver, s
    <3> QED BY <2>0, <3>7 DEF TwoPipes!Next
  <2>3. ASSUME Relays \/ Timeout PROVE UNCHANGED <<sent, got>>
    BY <2>3 DEF Relays, Select, Looks, NotReady, RecvSsl, RecvEnd, RecvError, Forward,
                ForwardToGone, RecvTcp, Timeout, sides
  <2>4. ASSUME NEW t \in Sides, SendTicket(t) \/ Shutdown(t) \/ Close(t)
        PROVE  UNCHANGED <<sent, got>>
    BY <2>4 DEF SendTicket, Shutdown, Close
  <2>5. CASE UNCHANGED vars  BY <2>5 DEF vars, TwoPipes!vars
  <2>6. UNCHANGED <<sent, got>> => UNCHANGED TwoPipes!vars  BY DEF TwoPipes!vars
  <2>7. CASE Next  BY <2>1, <2>2, <2>3, <2>4, <2>6, <2>7 DEF Next
  <2> QED BY <1>2, <2>5, <2>7
<1> QED BY <1>1, <1>2, InitIInv, NextIInv, PTL DEF Spec, ImplementsPipes, TwoPipes!Spec
=============================================================================
