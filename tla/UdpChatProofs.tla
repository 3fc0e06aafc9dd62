---------------------------- MODULE UdpChatProofs ----------------------------
(***************************************************************************)
(* The list of the chat server holds each client once, drops nobody who    *)
(* was heard from in time, and what its members are told of each other is  *)
(* right, for any set of clients, any receive ports and any limit of       *)
(* silence.                                                                *)
(***************************************************************************)
EXTENDS UdpChat, FiniteSetTheorems, WellFoundedInduction, NaturalsInduction, TLAPS

(* No entry has counted more messages than its client was silent for, so    *)
(* that one over the limit has a client that was silent to the limit.       *)
Typed  == /\ hosts \in Seq(Entry)
          /\ silent \in [Addr -> 0 .. MaxTimes]
Counted == \A i \in DOMAIN hosts : hosts[i].times <= silent[hosts[i].addr]

IInv == Typed /\ OneEntryEach /\ Counted

(* The positions of I up to m. *)
UpTo(I, m) == {j \in I : j <= m}
-----------------------------------------------------------------------------
(* A list of some of the entries: the positions are counted through.        *)
LEMMA UpToFinite ==
  ASSUME NEW n \in Nat, NEW I \in SUBSET (1 .. n), NEW m \in Int
  PROVE  /\ IsFiniteSet(UpTo(I, m)) /\ Cardinality(UpTo(I, m)) \in Nat
         /\ IsFiniteSet(I) /\ Cardinality(I) \in Nat
         /\ Cardinality(UpTo(I, m)) <= Cardinality(I)
<1>1. IsFiniteSet(I)
  <2>1. IsFiniteSet(1 .. n)  BY FS_Interval
  <2> QED BY <2>1, FS_Subset
<1>2. UpTo(I, m) \in SUBSET I  BY DEF UpTo
<1> QED BY <1>1, <1>2, FS_Subset, FS_CardinalityType

(* One position more is one more, if it belongs to I. *)
LEMMA UpToNext ==
  ASSUME NEW n \in Nat, NEW I \in SUBSET (1 .. n), NEW m \in 1 .. n
  PROVE  Cardinality(UpTo(I, m)) =
           Cardinality(UpTo(I, m - 1)) + IF m \in I THEN 1 ELSE 0
<1>0. \A j \in I : j \in 1 .. n  OBVIOUS
<1>1. m - 1 \in Int /\ m \notin UpTo(I, m - 1)  BY DEF UpTo
<1>2. IsFiniteSet(UpTo(I, m - 1)) /\ Cardinality(UpTo(I, m - 1)) \in Nat  BY <1>1, UpToFinite
<1>3. CASE m \in I
  <2>1. UpTo(I, m) = UpTo(I, m - 1) \cup {m}
    <3>1. \A j \in I : j <= m <=> j <= m - 1 \/ j = m  BY <1>0
    <3> QED BY <1>3, <3>1 DEF UpTo
  <2> QED BY <1>1, <1>2, <1>3, <2>1, FS_AddElement
<1>4. CASE m \notin I
  <2>1. UpTo(I, m) = UpTo(I, m - 1)
    <3>1. \A j \in I : j <= m <=> j <= m - 1  BY <1>0, <1>4
    <3> QED BY <3>1 DEF UpTo
  <2> QED BY <1>2, <1>4, <2>1
<1> QED BY <1>3, <1>4

(* The later of two positions of I comes later in the list. *)
LEMMA UpToGrows ==
  ASSUME NEW n \in Nat, NEW I \in SUBSET (1 .. n), NEW i \in I, NEW j \in I, i < j
  PROVE  Cardinality(UpTo(I, i)) < Cardinality(UpTo(I, j))
<1>0. \A m \in I : m \in Int  OBVIOUS
<1>1. UpTo(I, i) \in SUBSET UpTo(I, j) /\ j \in UpTo(I, j) /\ j \notin UpTo(I, i)
  <2>1. \A m \in I : m <= i => m <= j  BY <1>0
  <2>2. j <= j /\ ~(j <= i)  BY <1>0
  <2> QED BY <2>1, <2>2 DEF UpTo
<1>2. /\ IsFiniteSet(UpTo(I, j)) /\ Cardinality(UpTo(I, j)) \in Nat
      /\ Cardinality(UpTo(I, i)) \in Nat
  BY <1>0, UpToFinite
<1>3. /\ Cardinality(UpTo(I, i)) <= Cardinality(UpTo(I, j))
      /\ Cardinality(UpTo(I, j)) = Cardinality(UpTo(I, i)) => UpTo(I, j) = UpTo(I, i)
  BY <1>1, <1>2, FS_Subset
<1> QED BY <1>1, <1>2, <1>3

(* There is a k-th position, up to the number of them: the least one that   *)
(* has k up to it.                                                          *)
LEMMA UpToReaches ==
  ASSUME NEW n \in Nat, NEW I \in SUBSET (1 .. n), NEW k \in 1 .. Cardinality(I)
  PROVE  \E i \in I : Cardinality(UpTo(I, i)) = k
<1> DEFINE S == {m \in 0 .. n : Cardinality(UpTo(I, m)) >= k}
<1>a. Cardinality(I) \in Nat
  <2>1. 0 \in Int  OBVIOUS
  <2> QED BY <2>1, UpToFinite
<1>b. \A i \in I : i \in 1 .. n  OBVIOUS
<1>0. Cardinality(I) \in Nat /\ k \in Nat /\ k >= 1 /\ k <= Cardinality(I)  BY <1>a
<1>1. n \in S
  <2>1. UpTo(I, n) = I
    <3>1. \A i \in I : i <= n  BY <1>b
    <3> QED BY <3>1 DEF UpTo
  <2> QED BY <1>0, <2>1
<1>2. PICK m \in S : \A y \in S : ~(<<y, m>> \in OpToRel(<, Nat))
  <2>1. S \subseteq Nat  OBVIOUS
  <2> HIDE DEF S
  <2> QED BY <1>1, <2>1, NatLessThanWellFounded, WFMin
<1>3. m # 0
  <2>1. UpTo(I, 0) = {}
    <3>1. \A i \in I : ~(i <= 0)  BY <1>b
    <3> QED BY <3>1 DEF UpTo
  <2>2. Cardinality(UpTo(I, 0)) = 0  BY <2>1, FS_EmptySet
  <2> QED BY <1>0, <2>2
<1>4. m \in 1 .. n /\ m - 1 \in 0 .. n /\ m - 1 < m /\ m - 1 \in Nat  BY <1>3
<1>5. m - 1 \notin S
  <2>1. m \in Nat  BY <1>4
  <2> HIDE DEF S
  <2> QED BY <1>2, <1>4, <2>1 DEF OpToRel
<1>6. Cardinality(UpTo(I, m - 1)) < k /\ Cardinality(UpTo(I, m)) >= k
      /\ Cardinality(UpTo(I, m - 1)) \in Nat /\ Cardinality(UpTo(I, m)) \in Nat
  <2>1. Cardinality(UpTo(I, m - 1)) \in Nat /\ Cardinality(UpTo(I, m)) \in Nat
    <3>1. m \in Int /\ m - 1 \in Int  BY <1>4
    <3> QED BY <3>1, UpToFinite
  <2> QED BY <1>0, <1>4, <1>5, <2>1
<1>7. m \in I /\ Cardinality(UpTo(I, m)) = k  BY <1>0, <1>4, <1>6, UpToNext
<1> QED BY <1>7

(* The k-th of the positions. *)
Place(I, k) == CHOOSE i \in I : Cardinality(UpTo(I, i)) = k

LEMMA PlaceOf ==
  ASSUME NEW n \in Nat, NEW I \in SUBSET (1 .. n), NEW k \in 1 .. Cardinality(I)
  PROVE  Place(I, k) \in I /\ Cardinality(UpTo(I, Place(I, k))) = k
<1>1. \E i \in I : Cardinality(UpTo(I, i)) = k  BY UpToReaches
<1> QED BY <1>1 DEF Place

LEMMA HasPlace ==
  ASSUME NEW n \in Nat, NEW I \in SUBSET (1 .. n), NEW i \in I
  PROVE  \E k \in 1 .. Cardinality(I) : Place(I, k) = i
<1> DEFINE k == Cardinality(UpTo(I, i))  p == Place(I, k)
<1>1. \A j \in I : j \in Int  OBVIOUS
<1>2. /\ k \in Nat /\ Cardinality(I) \in Nat /\ k <= Cardinality(I)
      /\ IsFiniteSet(UpTo(I, i))
  BY <1>1, UpToFinite
<1>3. k # 0
  <2>1. i <= i  BY <1>1
  <2>2. i \in UpTo(I, i)  BY <2>1 DEF UpTo
  <2> QED BY <1>2, <2>2, FS_EmptySet
<1>4. k \in 1 .. Cardinality(I)  BY <1>2, <1>3
<1>5. p \in I /\ Cardinality(UpTo(I, p)) = k  BY <1>4, PlaceOf
<1> HIDE DEF p
<1>6. p < i => Cardinality(UpTo(I, p)) < k  BY <1>5, UpToGrows
<1>7. i < p => k < Cardinality(UpTo(I, p))  BY <1>5, UpToGrows
<1>8. p = i
  <2> HIDE DEF k
  <2> QED BY <1>1, <1>2, <1>5, <1>6, <1>7
<1> QED BY <1>4, <1>8 DEF p

(* What is kept are the entries at I, each once. *)
LEMMA KeptEntries ==
  ASSUME NEW S, NEW hl \in Seq(S), NEW I \in SUBSET DOMAIN hl
  PROVE  /\ Kept(hl, I) \in Seq(S)
         /\ DOMAIN Kept(hl, I) = 1 .. Cardinality(I)
         /\ \A k \in 1 .. Cardinality(I) : Place(I, k) \in I /\ Kept(hl, I)[k] = hl[Place(I, k)]
         /\ \A k, l \in 1 .. Cardinality(I) : Place(I, k) = Place(I, l) => k = l
         /\ \A i \in I : \E k \in 1 .. Cardinality(I) : Place(I, k) = i
<1>1. Len(hl) \in Nat /\ DOMAIN hl = 1 .. Len(hl) /\ I \in SUBSET (1 .. Len(hl))  OBVIOUS
<1>2. Cardinality(I) \in Nat
  <2>1. 0 \in Int  OBVIOUS
  <2> QED BY <1>1, <2>1, UpToFinite
<1>3. Kept(hl, I) = [k \in 1 .. Cardinality(I) |-> hl[Place(I, k)]]  BY DEF Kept, Place, UpTo
<1>4. \A k \in 1 .. Cardinality(I) : Place(I, k) \in I /\ Cardinality(UpTo(I, Place(I, k))) = k
  BY <1>1, PlaceOf
<1>5. \A k \in 1 .. Cardinality(I) : hl[Place(I, k)] \in S  BY <1>1, <1>4
<1>6. \A i \in I : \E k \in 1 .. Cardinality(I) : Place(I, k) = i  BY <1>1, HasPlace
<1>7. \A k, l \in 1 .. Cardinality(I) : Place(I, k) = Place(I, l) => k = l  BY <1>4
<1> QED BY <1>2, <1>3, <1>4, <1>5, <1>6, <1>7

(* And they are in the order they were in. *)
LEMMA KeptInOrder ==
  ASSUME NEW S, NEW hl \in Seq(S), NEW I \in SUBSET DOMAIN hl,
         NEW k \in DOMAIN Kept(hl, I), NEW l \in DOMAIN Kept(hl, I), k < l
  PROVE  \E p, q \in I : p < q /\ Kept(hl, I)[k] = hl[p] /\ Kept(hl, I)[l] = hl[q]
<1> DEFINE p == Place(I, k)  q == Place(I, l)
<1>1. Len(hl) \in Nat /\ I \in SUBSET (1 .. Len(hl))  OBVIOUS
<1>2. /\ k \in 1 .. Cardinality(I) /\ l \in 1 .. Cardinality(I)
      /\ p \in I /\ q \in I /\ Kept(hl, I)[k] = hl[p] /\ Kept(hl, I)[l] = hl[q]
  <2>1. /\ DOMAIN Kept(hl, I) = 1 .. Cardinality(I)
        /\ \A m \in 1 .. Cardinality(I) : Place(I, m) \in I /\ Kept(hl, I)[m] = hl[Place(I, m)]
    BY KeptEntries
  <2> QED BY <2>1
<1>3. Cardinality(UpTo(I, p)) = k /\ Cardinality(UpTo(I, q)) = l  BY <1>1, <1>2, PlaceOf
<1>4. k \in Int /\ l \in Int /\ p \in Int /\ q \in Int  BY <1>1, <1>2
<1> HIDE DEF p, q
<1>5. ~(q < p)
  <2>1. q < p => Cardinality(UpTo(I, q)) < Cardinality(UpTo(I, p))  BY <1>1, <1>2, UpToGrows
  <2> QED BY <1>3, <1>4, <2>1
<1>6. p # q  BY <1>3, <1>4
<1> QED BY <1>2, <1>4, <1>5, <1>6
-----------------------------------------------------------------------------
LEMMA InitIInv == Init => IInv
<1>1. 0 \in 0 .. MaxTimes  BY MaxTimesAssumption
<1>2. <<>> \in Seq(Entry) /\ DOMAIN <<>> = {}  OBVIOUS
<1> QED BY <1>1, <1>2 DEF Init, IInv, Typed, Counted, OneEntryEach

LEMMA KeptAt ==
  ASSUME NEW S, NEW hl \in Seq(S), NEW I \in SUBSET DOMAIN hl
  PROVE  Entries(Kept(hl, I)) = {hl[i] : i \in I}
<1>1. /\ DOMAIN Kept(hl, I) = 1 .. Cardinality(I)
      /\ \A k \in 1 .. Cardinality(I) : Place(I, k) \in I /\ Kept(hl, I)[k] = hl[Place(I, k)]
      /\ \A i \in I : \E k \in 1 .. Cardinality(I) : Place(I, k) = i
  BY KeptEntries
<1> QED BY <1>1 DEF Entries

(* A list of some of the entries holds each client once, if the list did,   *)
(* and none of them counts more than its client was silent for.             *)
LEMMA KeptOnce ==
  ASSUME NEW S, NEW hl \in Seq(S), NEW I \in SUBSET DOMAIN hl, \A i \in I : hl[i] \in Entry,
         \A i, j \in I : hl[i].addr = hl[j].addr => i = j
  PROVE  /\ Kept(hl, I) \in Seq(Entry)
         /\ Entries(Kept(hl, I)) = {hl[i] : i \in I}
         /\ \A k, l \in DOMAIN Kept(hl, I) : Kept(hl, I)[k].addr = Kept(hl, I)[l].addr => k = l
<1>1. /\ Kept(hl, I) \in Seq(S)
      /\ DOMAIN Kept(hl, I) = 1 .. Cardinality(I)
      /\ \A k \in 1 .. Cardinality(I) : Place(I, k) \in I /\ Kept(hl, I)[k] = hl[Place(I, k)]
      /\ \A k, l \in 1 .. Cardinality(I) : Place(I, k) = Place(I, l) => k = l
      /\ \A i \in I : \E k \in 1 .. Cardinality(I) : Place(I, k) = i
  BY KeptEntries
<1>2. Entries(Kept(hl, I)) = {hl[i] : i \in I}  BY KeptAt
<1>3. Kept(hl, I) \in Seq(Entry)
  <2> DEFINE kept == Kept(hl, I)
  <2>1. \A k \in DOMAIN kept : kept[k] \in Entry  BY <1>1
  <2>2. kept \in Seq(S)  BY <1>1
  <2> HIDE DEF kept
  <2>3. kept \in Seq(Entry)  BY <2>1, <2>2
  <2> QED BY <2>3 DEF kept
<1> QED BY <1>1, <1>2, <1>3

(* A command that changes fields of one entry leaves each client its place. *)
LEMMA Changed ==
  ASSUME IInv, hosts' \in Seq(Entry), silent' \in [Addr -> 0 .. MaxTimes],
         DOMAIN hosts' = DOMAIN hosts,
         \A i \in DOMAIN hosts : /\ hosts'[i].addr = hosts[i].addr
                                 /\ hosts'[i].times <= silent'[hosts[i].addr]
  PROVE  IInv'
BY DEF IInv, Typed, Counted, OneEntryEach

LEMMA MinOf ==
  ASSUME NEW I \in SUBSET Nat, I # {}
  PROVE  Min(I) \in I
<1>1. PICK m \in I : \A y \in I : ~(<<y, m>> \in OpToRel(<, Nat))
  BY NatLessThanWellFounded, WFMin
<1>2. \A y \in I : y \in Nat /\ m \in Nat  OBVIOUS
<1>3. ASSUME NEW y \in I PROVE m <= y
  <2>1. y \in Nat /\ m \in Nat  BY <1>2
  <2>2. ~(y < m)  BY <1>1, <2>1 DEF OpToRel
  <2> QED BY <2>1, <2>2
<1> QED BY <1>3 DEF Min

(* Both searches stop at an entry with the IP they are asked for. *)
LEMMA SamePortFinds ==
  ASSUME NEW hl \in Seq(Entry), NEW c, NEW r
  PROVE  \/ SamePort(hl, c, r) = 0
         \/ (SamePort(hl, c, r) \in DOMAIN hl /\ hl[SamePort(hl, c, r)].addr.ip = c.ip)
<1> DEFINE I == {i \in 1 .. Len(hl) : hl[i].addr.ip = c.ip /\ hl[i].rport = r}
<1>1. SamePort(hl, c, r) = IF I # {} THEN Min(I) ELSE 0  BY DEF SamePort, SelectInSeq
<1>2. I # {} => Min(I) \in I
  <2>1. I \in SUBSET Nat  OBVIOUS
  <2> HIDE DEF I
  <2> QED BY <2>1, MinOf
<1>3. ASSUME NEW i \in I PROVE i \in DOMAIN hl /\ hl[i].addr.ip = c.ip
  OBVIOUS
<1> HIDE DEF I
<1> QED BY <1>1, <1>2, <1>3

LEMMA DelListDrops ==
  ASSUME NEW hl \in Seq(Entry), NEW c
  PROVE  \E i \in Nat : /\ DelList(hl, c) = Kept(hl, DOMAIN hl \ {i})
                        /\ i \in DOMAIN hl => hl[i].addr.ip = c.ip
<1> DEFINE I == {i \in 1 .. Len(hl) : hl[i].addr.ip = c.ip}
           m == IF I # {} THEN Min(I) ELSE 0
<1>1. DelList(hl, c) = Kept(hl, DOMAIN hl \ {m})  BY DEF DelList, SelectInSeq
<1>2. I # {} => Min(I) \in I
  <2>1. I \in SUBSET Nat  OBVIOUS
  <2> HIDE DEF I
  <2> QED BY <2>1, MinOf
<1>3. \A i \in I : i \in Nat /\ i \in DOMAIN hl /\ hl[i].addr.ip = c.ip  OBVIOUS
<1>4. 0 \notin DOMAIN hl  OBVIOUS
<1> HIDE DEF I
<1>5. m \in Nat /\ (m \in DOMAIN hl => hl[m].addr.ip = c.ip)  BY <1>2, <1>3, <1>4
<1> QED BY <1>1, <1>5
-----------------------------------------------------------------------------
(* What a command has to do with what its clients are told.  Two entries    *)
(* are in the order they were in, or the later one is new and the earlier   *)
(* one was told of it.                                                      *)
CameBefore(a, b) ==
  \E p, q \in DOMAIN hosts : p < q /\ hosts[p].addr = a /\ hosts[q].addr = b

OrderIsTold ==
  \A i, j \in DOMAIN hosts' : i < j =>
    \/ CameBefore(hosts'[i].addr, hosts'[j].addr)
    \/ [to |-> To(hosts'[i]), kind |-> "welcome", about |-> hosts'[j].addr] \in out'

(* Who is said to be there is there, who is said to leave is not.           *)
NewsAreTrue ==
  \A m \in out' : /\ m.kind \in {"welcome", "user"} => Registered(m.about)'
                  /\ m.kind \in {"bye", "dropped"} => ~Registered(m.about)'

(* Who goes was displaced, or everybody who stays is told.                  *)
LossIsTold ==
  \A d \in Addr : Gone(d) =>
    \/ d \in displaced'
    \/ \A h \in Entries(hosts') : \E k \in {"bye", "dropped"} :
         [to |-> To(h), kind |-> k, about |-> d] \in out'

Informs == OrderIsTold /\ NewsAreTrue /\ LossIsTold

(* The commands. *)
LEMMA LoginStep ==
  ASSUME IInv, NEW c \in Addr, NEW r \in RPort, Login(c, r)
  PROVE  /\ IInv'
         /\ \A d \in Addr : Gone(d) => d.ip = c.ip
         /\ OrderIsTold /\ NewsAreTrue
<1> DEFINE i    == SamePort(hosts, c, r)
           rest == IF i = 0 THEN hosts ELSE DelList(hosts, hosts[i].addr)
           new  == [addr |-> c, rport |-> r, times |-> 0]
<1>1. /\ ~Registered(c) /\ hosts' = Append(rest, new)
      /\ silent' = [silent EXCEPT ![c] = 0]
      /\ out' = SendAll(hosts', "welcome", c)
  BY DEF Login
<1>2. hosts \in Seq(Entry) /\ silent \in [Addr -> 0 .. MaxTimes] /\ 0 \in 0 .. MaxTimes
      /\ new \in Entry /\ new.addr = c /\ new.times = 0
  BY MaxTimesAssumption DEF IInv, Typed, Entry
<1>3. i = 0 \/ (i \in DOMAIN hosts /\ hosts[i].addr.ip = c.ip)
  <2>1. hosts \in Seq(Entry)  BY <1>2
  <2>2. \/ SamePort(hosts, c, r) = 0
        \/ (SamePort(hosts, c, r) \in DOMAIN hosts /\ hosts[SamePort(hosts, c, r)].addr.ip = c.ip)
    BY <2>1, SamePortFinds
  <2> QED BY <2>2
<1> HIDE DEF i, new
<1>4. /\ rest \in Seq(Entry)
      /\ \A k \in DOMAIN rest : rest[k] \in Entries(hosts)
      /\ \A k, l \in DOMAIN rest : rest[k].addr = rest[l].addr => k = l
      /\ \A h \in Entries(hosts) : h.addr.ip # c.ip => \E k \in DOMAIN rest : rest[k] = h
      /\ \A k, l \in DOMAIN rest : k < l => CameBefore(rest[k].addr, rest[l].addr)
  <2>1. CASE i = 0  BY <1>2, <2>1 DEF IInv, OneEntryEach, Entries, CameBefore
  <2>2. CASE i # 0
    <3>0. PICK j \in Nat :
            /\ DelList(hosts, hosts[i].addr) = Kept(hosts, DOMAIN hosts \ {j})
            /\ j \in DOMAIN hosts => hosts[j].addr.ip = hosts[i].addr.ip
      BY <1>2, DelListDrops
    <3>1. /\ rest = Kept(hosts, DOMAIN hosts \ {j})
          /\ j \in DOMAIN hosts => hosts[j].addr.ip = c.ip
      BY <1>3, <2>2, <3>0
    <3> DEFINE I == DOMAIN hosts \ {j}
    <3>2. I \in SUBSET DOMAIN hosts /\ \A k, l \in I : hosts[k].addr = hosts[l].addr => k = l
      BY DEF IInv, OneEntryEach
    <3> HIDE DEF I, rest
    <3>3. /\ rest \in Seq(Entry) /\ Entries(rest) = {hosts[k] : k \in I}
          /\ \A k, l \in DOMAIN rest : rest[k].addr = rest[l].addr => k = l
      <4>1. \A k \in I : hosts[k] \in Entry  BY <1>2, <3>2
      <4>2. rest = Kept(hosts, I)  BY <3>1 DEF I
      <4>3. hosts \in Seq(Entry)  BY <1>2
      <4> QED BY <3>2, <4>1, <4>2, <4>3, KeptOnce
    <3>4. \A k \in DOMAIN rest : rest[k] \in Entries(hosts)  BY <3>3 DEF Entries, I
    <3>5. ASSUME NEW h \in Entries(hosts), h.addr.ip # c.ip PROVE \E k \in DOMAIN rest : rest[k] = h
      <4>1. PICK k \in DOMAIN hosts : hosts[k] = h  BY DEF Entries
      <4>2. k \in I  BY <3>1, <3>5, <4>1 DEF I
      <4> QED BY <3>3, <4>1, <4>2 DEF Entries
    <3>6. ASSUME NEW k \in DOMAIN rest, NEW l \in DOMAIN rest, k < l
          PROVE  CameBefore(rest[k].addr, rest[l].addr)
      <4>1. rest = Kept(hosts, I) /\ hosts \in Seq(Entry)  BY <1>2, <3>1 DEF I
      <4>2. \E p, q \in I : p < q /\ rest[k] = hosts[p] /\ rest[l] = hosts[q]
        BY <3>2, <3>6, <4>1, KeptInOrder
      <4> QED BY <3>2, <4>2 DEF CameBefore
    <3> QED BY <3>3, <3>4, <3>5, <3>6
  <2> QED BY <2>1, <2>2
<1> HIDE DEF rest
<1>5. /\ Append(rest, new) \in Seq(Entry) /\ Len(rest) \in Nat
      /\ DOMAIN Append(rest, new) = DOMAIN rest \cup {Len(rest) + 1}
      /\ Len(rest) + 1 \notin DOMAIN rest
      /\ Append(rest, new)[Len(rest) + 1] = new
      /\ \A k \in DOMAIN rest : Append(rest, new)[k] = rest[k]
  BY <1>2, <1>4
<1>6. \A k \in DOMAIN rest : rest[k].addr # c /\ rest[k].addr \in Addr
  <2>1. \A k \in DOMAIN rest : rest[k] \in Entry  BY <1>4
  <2> QED BY <1>1, <1>4, <2>1 DEF Registered, Entry
<1>7. Typed'  BY <1>1, <1>2, <1>5 DEF Typed
<1>8. OneEntryEach'  BY <1>1, <1>2, <1>4, <1>5, <1>6 DEF OneEntryEach
<1>9. Counted'
  <2>1. \A k \in DOMAIN rest : rest[k].times <= silent[rest[k].addr]
    BY <1>4 DEF IInv, Counted, Entries
  <2>2. \A d \in Addr : d # c => silent'[d] = silent[d]  BY <1>1, <1>2
  <2>3. silent'[c] = 0  BY <1>1, <1>2
  <2> QED BY <1>1, <1>2, <1>5, <1>6, <2>1, <2>2, <2>3 DEF Counted
<1>10. ASSUME NEW d \in Addr, Gone(d) PROVE d.ip = c.ip
  <2>1. PICK h \in Entries(hosts) : h.addr = d  BY <1>10 DEF Gone, Registered
  <2>2. ASSUME d.ip # c.ip PROVE FALSE
    <3>1. PICK k \in DOMAIN rest : rest[k] = h  BY <1>4, <2>1, <2>2
    <3>2. h \in Entries(hosts')  BY <1>1, <1>5, <3>1 DEF Entries
    <3> QED BY <1>10, <2>1, <3>2 DEF Gone, Registered
  <2> QED BY <2>2
<1>11. OrderIsTold
  <2> SUFFICES ASSUME NEW k \in DOMAIN hosts', NEW l \in DOMAIN hosts', k < l
               PROVE  \/ CameBefore(hosts'[k].addr, hosts'[l].addr)
                      \/ [to |-> To(hosts'[k]), kind |-> "welcome", about |-> hosts'[l].addr] \in out'
    BY DEF OrderIsTold
  <2>1. CASE l \in DOMAIN rest
    <3>1. k \in DOMAIN rest  BY <1>1, <1>4, <1>5, <2>1
    <3> QED BY <1>1, <1>4, <1>5, <2>1, <3>1
  <2>2. CASE l = Len(rest) + 1
    <3>1. hosts'[l].addr = c /\ hosts'[k] \in Entries(hosts')  BY <1>1, <1>2, <1>5, <2>2 DEF Entries
    <3> QED BY <1>1, <3>1 DEF SendAll
  <2> QED BY <1>1, <1>5, <2>1, <2>2
<1>12. NewsAreTrue
  <2>1. Registered(c)'  BY <1>1, <1>2, <1>5 DEF Registered, Entries
  <2>2. \A m \in out' : m.about = c /\ m.kind = "welcome"  BY <1>1 DEF SendAll
  <2> QED BY <2>1, <2>2 DEF NewsAreTrue
<1> QED BY <1>7, <1>8, <1>9, <1>10, <1>11, <1>12 DEF IInv

(* Everybody is in the list again, at the same place, behind a command that *)
(* only changes an entry.                                                   *)
LEMMA KeepsAll ==
  ASSUME DOMAIN hosts' = DOMAIN hosts, \A i \in DOMAIN hosts : hosts'[i].addr = hosts[i].addr
  PROVE  (\A d \in Addr : ~Gone(d)) /\ OrderIsTold
<1>1. ASSUME NEW d \in Addr PROVE ~Gone(d)  BY DEF Gone, Registered, Entries
<1>2. OrderIsTold  BY DEF OrderIsTold, CameBefore
<1> QED BY <1>1, <1>2

LEMMA ChangeStep ==
  ASSUME IInv, NEW c \in Addr,
         \/ LoginAgain(c) \/ NotYetLogin(c) \/ List(c) \/ Keep(c) \/ BadCommand(c)
         \/ \E r \in RPort : Port(c, r)
  PROVE  IInv' /\ (\A d \in Addr : ~Gone(d)) /\ OrderIsTold /\ NewsAreTrue
<1>1. hosts \in Seq(Entry) /\ silent \in [Addr -> 0 .. MaxTimes] /\ 0 \in 0 .. MaxTimes
      /\ \A i \in DOMAIN hosts : hosts[i] \in Entry /\ hosts[i].times <= silent[hosts[i].addr]
  BY MaxTimesAssumption DEF IInv, Typed, Counted
<1>2. CASE LoginAgain(c) \/ Keep(c)
  <2>1. /\ hosts' = [i \in DOMAIN hosts |-> IF hosts[i].addr = c THEN [hosts[i] EXCEPT !.times = 0]
                                            ELSE hosts[i]]
        /\ silent' = [silent EXCEPT ![c] = 0]
    BY <1>2 DEF LoginAgain, Keep, Update
  <2>2. hosts' \in Seq(Entry) /\ DOMAIN hosts' = DOMAIN hosts
    <3>1. \A i \in DOMAIN hosts : hosts'[i] \in Entry  BY <1>1, <2>1 DEF Entry
    <3>2. DOMAIN hosts = 1 .. Len(hosts) /\ Len(hosts) \in Nat  BY <1>1
    <3> QED BY <2>1, <3>1, <3>2
  <2>3. ASSUME NEW i \in DOMAIN hosts
        PROVE  hosts'[i].addr = hosts[i].addr /\ hosts'[i].times <= silent'[hosts[i].addr]
    BY <1>1, <2>1 DEF Entry
  <2>4. silent' \in [Addr -> 0 .. MaxTimes]  BY <1>1, <2>1
  <2>5. \A m \in out' : m.kind = "already"  BY <1>2 DEF LoginAgain, Keep
  <2>6. NewsAreTrue  BY <2>5 DEF NewsAreTrue
  <2> QED BY <2>2, <2>3, <2>4, <2>6, Changed, KeepsAll
<1>3. ASSUME NEW r \in RPort, Port(c, r)
      PROVE  IInv' /\ (\A d \in Addr : ~Gone(d)) /\ OrderIsTold /\ NewsAreTrue
  <2>1. /\ hosts' = [i \in DOMAIN hosts |-> IF hosts[i].addr = c THEN [hosts[i] EXCEPT !.rport = r]
                                            ELSE hosts[i]]
        /\ silent' = silent
    BY <1>3 DEF Port, Update
  <2>2. hosts' \in Seq(Entry) /\ DOMAIN hosts' = DOMAIN hosts
    <3>1. \A i \in DOMAIN hosts : hosts'[i] \in Entry  BY <1>1, <2>1 DEF Entry
    <3>2. DOMAIN hosts = 1 .. Len(hosts) /\ Len(hosts) \in Nat  BY <1>1
    <3> QED BY <2>1, <3>1, <3>2
  <2>3. ASSUME NEW i \in DOMAIN hosts
        PROVE  hosts'[i].addr = hosts[i].addr /\ hosts'[i].times <= silent'[hosts[i].addr]
    BY <1>1, <2>1 DEF Entry
  <2>4. NewsAreTrue  BY <1>3 DEF Port, NewsAreTrue
  <2> QED BY <1>1, <2>1, <2>2, <2>3, <2>4, Changed, KeepsAll
<1>4. CASE NotYetLogin(c) \/ List(c) \/ BadCommand(c)
  <2>1. hosts' = hosts /\ silent' = silent  BY <1>4 DEF NotYetLogin, List, BadCommand
  <2>2. NewsAreTrue
    <3>1. \A m \in out' : \/ m.kind \in {"unknown", "error"}
                         \/ (m.kind = "user" /\ \E h \in Entries(hosts) : m.about = h.addr)
      BY <1>4 DEF NotYetLogin, List, BadCommand
    <3> QED BY <2>1, <3>1 DEF NewsAreTrue, Registered
  <2> QED BY <1>1, <2>1, <2>2, Changed, KeepsAll
<1> QED BY <1>2, <1>3, <1>4

(* M: the list as it is aged. *)
AgedBy(c, text) == Aged(IF text THEN Update(c, LAMBDA h : [h EXCEPT !.times = -1]) ELSE hosts)

LEMMA AgedList ==
  ASSUME Typed, NEW c \in Addr, NEW text \in BOOLEAN
  PROVE  /\ AgedBy(c, text) \in Seq([addr : Addr, rport : RPort, times : Nat])
         /\ DOMAIN AgedBy(c, text) = DOMAIN hosts
         /\ \A i \in DOMAIN hosts :
              /\ AgedBy(c, text)[i].addr = hosts[i].addr /\ AgedBy(c, text)[i].rport = hosts[i].rport
              /\ AgedBy(c, text)[i].times = IF text /\ hosts[i].addr = c THEN 0 ELSE hosts[i].times + 1
<1> DEFINE base == IF text THEN Update(c, LAMBDA h : [h EXCEPT !.times = -1]) ELSE hosts
           n == Len(hosts)
<1>1. n \in Nat /\ DOMAIN hosts = 1 .. n /\ \A i \in 1 .. n : hosts[i] \in Entry  BY DEF Typed
<1> HIDE DEF n
<1>2. /\ DOMAIN base = 1 .. n
      /\ \A i \in 1 .. n : base[i] = IF text /\ hosts[i].addr = c
                                     THEN [hosts[i] EXCEPT !.times = -1] ELSE hosts[i]
  BY <1>1 DEF Update
<1> HIDE DEF base
<1>3. AgedBy(c, text) = [i \in 1 .. n |-> [base[i] EXCEPT !.times = @ + 1]]
  BY <1>2 DEF AgedBy, Aged, base
<1>4. ASSUME NEW i \in 1 .. n
      PROVE  /\ AgedBy(c, text)[i] \in [addr : Addr, rport : RPort, times : Nat]
             /\ AgedBy(c, text)[i].addr = hosts[i].addr /\ AgedBy(c, text)[i].rport = hosts[i].rport
             /\ AgedBy(c, text)[i].times = IF text /\ hosts[i].addr = c THEN 0 ELSE hosts[i].times + 1
  <2>1. AgedBy(c, text)[i] = [base[i] EXCEPT !.times = @ + 1]  BY <1>3
  <2>2. hosts[i] \in [addr : Addr, rport : RPort, times : 0 .. MaxTimes]  BY <1>1 DEF Entry
  <2>3. CASE text /\ hosts[i].addr = c
    <3>1. base[i] = [hosts[i] EXCEPT !.times = -1]  BY <1>2, <2>3
    <3>2. base[i] \in [addr : Addr, rport : RPort, times : Int] /\ base[i].times = -1
          /\ base[i].addr = hosts[i].addr /\ base[i].rport = hosts[i].rport
      BY <2>2, <3>1
    <3>3. -1 + 1 = 0  OBVIOUS
    <3> QED BY <2>1, <2>2, <2>3, <3>2, <3>3
  <2>4. CASE ~(text /\ hosts[i].addr = c)
    <3>1. base[i] = hosts[i]  BY <1>2, <2>4
    <3> QED BY <2>1, <2>2, <2>4, <3>1
  <2> QED BY <2>3, <2>4
<1>5. AgedBy(c, text) \in Seq([addr : Addr, rport : RPort, times : Nat])
  <2>1. \A i \in 1 .. n : [base[i] EXCEPT !.times = @ + 1] \in [addr : Addr, rport : RPort, times : Nat]
    BY <1>3, <1>4
  <2> DEFINE older(i) == [base[i] EXCEPT !.times = @ + 1]
             T == [addr : Addr, rport : RPort, times : Nat]
  <2>2. \A i \in 1 .. n : older(i) \in T  BY <2>1
  <2>3. AgedBy(c, text) = [i \in 1 .. n |-> older(i)]  BY <1>3
  <2> HIDE DEF older, T
  <2>4. [i \in 1 .. n |-> older(i)] \in Seq(T)  BY <1>1, <2>2
  <2> QED BY <2>3, <2>4 DEF T
<1> QED BY <1>1, <1>3, <1>4, <1>5

(* udp_send_all sends the same to everybody. *)
LEMMA SentAlike ==
  ASSUME NEW hl, NEW kind, NEW about, NEW m \in SendAll(hl, kind, about)
  PROVE  m.kind = kind /\ m.about = about
BY DEF SendAll

(* Who is dropped has been silent to the limit. *)
LEMMA SayStep ==
  ASSUME IInv, NEW c \in Addr, NEW text \in BOOLEAN, Say(c, text)
  PROVE  /\ IInv'
         /\ \A d \in Addr : Gone(d) => silent[d] = MaxTimes
         /\ OrderIsTold /\ NewsAreTrue
<1> DEFINE aged == AgedBy(c, text)
           I    == Surviving(aged)
<1>1. /\ Registered(c) /\ hosts' = Kept(aged, I)
      /\ silent' = [d \in Addr |-> IF ~Registered(d) \/ (text /\ d = c) THEN 0
                                   ELSE IF silent[d] < MaxTimes THEN silent[d] + 1 ELSE silent[d]]
      /\ out' = (IF text THEN SendAll(hosts, "text", c) ELSE {}) \cup Farewell(aged)
  BY DEF Say, AgedBy
<1>2. Typed /\ silent \in [Addr -> 0 .. MaxTimes] /\ MaxTimes \in Nat /\ 0 \in 0 .. MaxTimes
      /\ \A i \in DOMAIN hosts : hosts[i].addr \in Addr /\ hosts[i].times \in 0 .. MaxTimes
                                 /\ hosts[i].times <= silent[hosts[i].addr]
  <2>1. \A i \in DOMAIN hosts : hosts[i] \in Entry  BY DEF IInv, Typed
  <2>2. \A i \in DOMAIN hosts : hosts[i].addr \in Addr /\ hosts[i].times \in 0 .. MaxTimes
    BY <2>1 DEF Entry
  <2> QED BY <2>2, MaxTimesAssumption DEF IInv, Typed, Counted
<1>3. /\ aged \in Seq([addr : Addr, rport : RPort, times : Nat])
      /\ DOMAIN aged = DOMAIN hosts
      /\ \A i \in DOMAIN hosts :
           /\ aged[i].addr = hosts[i].addr /\ aged[i] \in [addr : Addr, rport : RPort, times : Nat]
           /\ aged[i].times = IF text /\ hosts[i].addr = c THEN 0 ELSE hosts[i].times + 1
  <2>1. /\ aged \in Seq([addr : Addr, rport : RPort, times : Nat])
        /\ DOMAIN aged = DOMAIN hosts
        /\ \A i \in DOMAIN hosts :
             /\ aged[i].addr = hosts[i].addr /\ aged[i].rport = hosts[i].rport
             /\ aged[i].times = IF text /\ hosts[i].addr = c THEN 0 ELSE hosts[i].times + 1
    <3>1. Typed  BY <1>2
    <3> QED BY <3>1, AgedList
  <2> HIDE DEF aged
  <2> DEFINE T == [addr : Addr, rport : RPort, times : Nat]
  <2>2. aged \in Seq(T)  BY <2>1
  <2> HIDE DEF T
  <2>3. \A i \in DOMAIN aged : aged[i] \in T  BY <2>2
  <2> QED BY <2>1, <2>3 DEF T
<1> HIDE DEF aged
<1>13. \A m \in out' : \/ m.kind = "text"
                     \/ (m.kind = "dropped" /\ \E i \in DOMAIN aged \ I : m.about = aged[i].addr)
  <2>1. \A m \in SendAll(hosts, "text", c) : m.kind = "text"  BY DEF SendAll
  <2>2. ASSUME NEW m \in Farewell(aged)
        PROVE  m.kind = "dropped" /\ \E i \in DOMAIN aged \ I : m.about = aged[i].addr
    <3>1. PICK i \in DOMAIN aged \ I :
            m \in SendAll(Kept(aged, {j \in DOMAIN aged : j >= i} \cup I), "dropped", aged[i].addr)
      BY DEF Farewell
    <3>2. m.kind = "dropped" /\ m.about = aged[i].addr  BY <3>1, SentAlike
    <3> HIDE DEF I
    <3> QED BY <3>2
  <2> QED BY <1>1, <2>1, <2>2
<1>4. /\ I \in SUBSET DOMAIN aged /\ \A i \in I : i \in DOMAIN hosts /\ aged[i].times <= MaxTimes
      /\ \A i \in DOMAIN hosts \ I : aged[i].times > MaxTimes
  BY <1>2, <1>3 DEF Surviving, Survives
<1> HIDE DEF I
<1>5. \A i \in I : aged[i] \in Entry
  <2> SUFFICES ASSUME NEW i \in I PROVE aged[i] \in Entry
    OBVIOUS
  <2>1. aged[i] \in [addr : Addr, rport : RPort, times : Nat] /\ aged[i].times <= MaxTimes
    BY <1>3, <1>4
  <2> QED BY <1>2, <2>1 DEF Entry
<1>6. /\ hosts' \in Seq(Entry) /\ Entries(hosts') = {aged[i] : i \in I}
      /\ \A k, l \in DOMAIN hosts' : hosts'[k].addr = hosts'[l].addr => k = l
  <2>1. \A i, j \in I : aged[i].addr = aged[j].addr => i = j
    BY <1>3, <1>4 DEF IInv, OneEntryEach
  <2> QED BY <1>1, <1>3, <1>4, <1>5, <2>1, KeptOnce
<1>7. ASSUME NEW d \in Addr
      PROVE  silent'[d] \in 0 .. MaxTimes
             /\ (Registered(d) /\ ~(text /\ d = c) =>
                   silent'[d] = silent[d] + 1 \/ silent'[d] = MaxTimes)
  <2>1. silent[d] \in 0 .. MaxTimes /\ MaxTimes \in Nat  BY <1>2
  <2>2. silent'[d] = IF ~Registered(d) \/ (text /\ d = c) THEN 0
                     ELSE IF silent[d] < MaxTimes THEN silent[d] + 1 ELSE silent[d]
    BY <1>1
  <2>3. CASE silent[d] < MaxTimes  BY <2>1, <2>2, <2>3
  <2>4. CASE silent[d] = MaxTimes  BY <2>1, <2>2, <2>4
  <2> QED BY <2>1, <2>3, <2>4
<1>8. Typed'
  <2>1. silent' \in [Addr -> 0 .. MaxTimes]  BY <1>1, <1>7
  <2> QED BY <1>6, <2>1 DEF Typed
<1>9. ASSUME NEW i \in I PROVE aged[i].times <= silent'[aged[i].addr]
  <2> DEFINE d == hosts[i].addr
  <2>1. /\ i \in DOMAIN hosts /\ d \in Addr /\ aged[i].addr = d /\ aged[i].times <= MaxTimes
        /\ silent[d] \in 0 .. MaxTimes /\ silent'[d] \in 0 .. MaxTimes
        /\ hosts[i].times \in 0 .. MaxTimes /\ hosts[i].times <= silent[d]
    BY <1>2, <1>3, <1>4, <1>7
  <2>2. Registered(d)  BY <2>1 DEF Registered, Entries
  <2>3. CASE text /\ d = c  BY <1>3, <2>1, <2>3
  <2>4. CASE ~(text /\ d = c)
    <3>1. aged[i].times = hosts[i].times + 1  BY <1>3, <2>1, <2>4
    <3>2. silent'[d] = silent[d] + 1 \/ silent'[d] = MaxTimes  BY <1>7, <2>1, <2>2, <2>4
    <3> HIDE DEF d
    <3> QED BY <1>2, <2>1, <3>1, <3>2
  <2> QED BY <2>3, <2>4
<1>10. Counted'
  <2>1. \A k \in DOMAIN hosts' : \E i \in I : hosts'[k] = aged[i]  BY <1>6 DEF Entries
  <2> QED BY <1>9, <2>1 DEF Counted
<1>11. ASSUME NEW d \in Addr, Gone(d) PROVE silent[d] = MaxTimes
  <2>1. PICK i \in DOMAIN hosts : hosts[i].addr = d  BY <1>11 DEF Gone, Registered, Entries
  <2>2. i \notin I
    <3>1. i \in I => aged[i] \in Entries(hosts')  BY <1>6
    <3> QED BY <1>3, <1>11, <2>1, <3>1 DEF Gone, Registered
  <2>3. aged[i].times > MaxTimes  BY <1>4, <2>2
  <2>4. aged[i].times = hosts[i].times + 1  BY <1>2, <1>3, <2>1, <2>3
  <2>5. hosts[i].times \in 0 .. MaxTimes /\ silent[d] \in 0 .. MaxTimes /\ hosts[i].times <= silent[d]
    BY <1>2, <2>1
  <2> QED BY <1>2, <2>3, <2>4, <2>5
<1>12. OrderIsTold
  <2> SUFFICES ASSUME NEW k \in DOMAIN hosts', NEW l \in DOMAIN hosts', k < l
               PROVE  CameBefore(hosts'[k].addr, hosts'[l].addr)
    BY DEF OrderIsTold
  <2>1. \E p, q \in I : p < q /\ hosts'[k] = aged[p] /\ hosts'[l] = aged[q]
    BY <1>1, <1>3, <1>4, KeptInOrder
  <2> QED BY <1>3, <1>4, <2>1 DEF CameBefore
<1>14. NewsAreTrue
  <2>1. ASSUME NEW d, NEW i \in DOMAIN aged \ I, d = aged[i].addr PROVE ~Registered(d)'
    <3>1. \A j \in I : aged[j].addr # d
      <4>1. SUFFICES ASSUME NEW j \in I, aged[j].addr = d PROVE FALSE
        OBVIOUS
      <4>2. i \in DOMAIN hosts /\ j \in DOMAIN hosts /\ hosts[i].addr = hosts[j].addr
        BY <1>3, <1>4, <2>1, <4>1
      <4>3. i = j  BY <4>2 DEF IInv, OneEntryEach
      <4> QED BY <4>3
    <3>2. \A h \in Entries(hosts') : h.addr # d  BY <1>6, <3>1
    <3> QED BY <3>2 DEF Registered
  <2> QED BY <1>13, <2>1 DEF NewsAreTrue
<1> QED BY <1>6, <1>8, <1>10, <1>11, <1>12, <1>14 DEF IInv, OneEntryEach

(* E: whose IP is another one stays. *)
LEMMA LeaveStep ==
  ASSUME IInv, NEW c \in Addr, Leave(c)
  PROVE  /\ IInv' /\ ~Registered(c)'
         /\ \A d \in Addr : Gone(d) => d.ip = c.ip
         /\ OrderIsTold /\ NewsAreTrue
<1> DEFINE I == {i \in DOMAIN hosts : hosts[i].addr.ip # c.ip}
<1>1. hosts' = Kept(hosts, I) /\ silent' = silent /\ out' = SendAll(hosts, "bye", c)
  BY DEF Leave
<1>2. /\ hosts \in Seq(Entry) /\ silent \in [Addr -> 0 .. MaxTimes]
      /\ I \in SUBSET DOMAIN hosts /\ \A i \in I : hosts[i] \in Entry
      /\ \A i, j \in I : hosts[i].addr = hosts[j].addr => i = j
      /\ \A i \in DOMAIN hosts : hosts[i].times <= silent[hosts[i].addr]
      /\ \A i \in I : hosts[i].addr.ip # c.ip
      /\ \A i \in DOMAIN hosts \ I : hosts[i].addr.ip = c.ip
  BY DEF IInv, Typed, OneEntryEach, Counted
<1> HIDE DEF I
<1>3. /\ hosts' \in Seq(Entry) /\ Entries(hosts') = {hosts[i] : i \in I}
      /\ \A k, l \in DOMAIN hosts' : hosts'[k].addr = hosts'[l].addr => k = l
  BY <1>1, <1>2, KeptOnce
<1>4. Counted'
  <2>1. \A k \in DOMAIN hosts' : \E i \in I : hosts'[k] = hosts[i]  BY <1>3 DEF Entries
  <2> QED BY <1>1, <1>2, <2>1 DEF Counted
<1>5. ~Registered(c)'  BY <1>2, <1>3 DEF Registered
<1>6. ASSUME NEW d \in Addr, Gone(d) PROVE d.ip = c.ip
  <2>1. PICK i \in DOMAIN hosts : hosts[i].addr = d  BY <1>6 DEF Gone, Registered, Entries
  <2>2. i \notin I  BY <1>3, <1>6, <2>1 DEF Gone, Registered
  <2> QED BY <1>2, <2>1, <2>2
<1>7. OrderIsTold
  <2> SUFFICES ASSUME NEW k \in DOMAIN hosts', NEW l \in DOMAIN hosts', k < l
               PROVE  CameBefore(hosts'[k].addr, hosts'[l].addr)
    BY DEF OrderIsTold
  <2>1. \E p, q \in I : p < q /\ hosts'[k] = hosts[p] /\ hosts'[l] = hosts[q]
    BY <1>1, <1>2, KeptInOrder
  <2> QED BY <1>2, <2>1 DEF CameBefore
<1>8. NewsAreTrue
  <2>1. \A m \in out' : m.kind = "bye" /\ m.about = c  BY <1>1 DEF SendAll
  <2> QED BY <1>5, <2>1 DEF NewsAreTrue
<1> QED BY <1>1, <1>2, <1>3, <1>4, <1>5, <1>6, <1>7, <1>8 DEF IInv, Typed, OneEntryEach

(* A drop is announced to the list from the dropped entry on and to those   *)
(* before it that stay.                                                     *)
LEMMA SayTells ==
  ASSUME Typed, NEW c \in Addr, NEW d \in Addr, Gone(c), NEW text \in BOOLEAN, Say(d, text),
         NEW h \in {Host(c)} \cup Entries(hosts')
  PROVE  [to |-> To(h), kind |-> "dropped", about |-> c] \in out'
<1> DEFINE aged == AgedBy(d, text)
           S    == [addr : Addr, rport : RPort, times : Nat]
           I    == Surviving(aged)
<1>1. hosts' = Kept(aged, I) /\ Farewell(aged) \subseteq out'  BY DEF Say, AgedBy
<1>2. /\ aged \in Seq(S) /\ DOMAIN aged = DOMAIN hosts
      /\ \A i \in DOMAIN hosts : aged[i].addr = hosts[i].addr /\ aged[i].rport = hosts[i].rport
  BY AgedList
<1> HIDE DEF aged, S
<1>3. Entries(hosts') = {aged[i] : i \in I}  BY <1>1, <1>2, KeptAt DEF Surviving
<1>4. PICK i \in DOMAIN hosts : hosts[i] = Host(c) /\ hosts[i].addr = c
  <2>1. \E g \in Entries(hosts) : g.addr = c  BY DEF Gone, Registered
  <2>2. Host(c) \in Entries(hosts) /\ Host(c).addr = c  BY <2>1 DEF Host
  <2> QED BY <2>2 DEF Entries
<1>5. aged[i].addr = c /\ i \in DOMAIN aged \ I
  <2>1. i \in I => aged[i] \in Entries(hosts')  BY <1>3
  <2> QED BY <1>2, <1>4, <2>1 DEF Gone, Registered
<1> DEFINE J == {j \in DOMAIN aged : j >= i} \cup I
<1>6. Entries(Kept(aged, J)) = {aged[j] : j \in J}
  <2>1. J \in SUBSET DOMAIN aged  BY DEF Surviving
  <2> HIDE DEF J
  <2> QED BY <1>2, <2>1, KeptAt
<1>7. \E g \in Entries(Kept(aged, J)) : To(g) = To(h)
  <2>1. CASE h = Host(c)
    <3>1. i \in J  BY <1>2, <1>4
    <3>2. To(aged[i]) = To(h)  BY <1>2, <1>4, <2>1 DEF To
    <3> QED BY <1>6, <3>1, <3>2
  <2>2. CASE h \in Entries(hosts')
    <3>1. PICK j \in I : h = aged[j]  BY <1>3, <2>2
    <3> QED BY <1>6, <3>1
  <2> QED BY <2>1, <2>2
<1>8. SendAll(Kept(aged, J), "dropped", aged[i].addr) \subseteq Farewell(aged)
  BY <1>5 DEF Farewell
<1> HIDE DEF I, J
<1>9. [to |-> To(h), kind |-> "dropped", about |-> c] \in SendAll(Kept(aged, J), "dropped", c)
  BY <1>7 DEF SendAll
<1> QED BY <1>1, <1>5, <1>8, <1>9

(* Who stays is told of whoever goes, unless another client displaced that  *)
(* one: E tells everybody of its sender, del_host of those it drops.        *)
LEMMA LossStep ==
  ASSUME IInv, NEW c \in Addr, Command(c), Listen
  PROVE  LossIsTold
<1> SUFFICES ASSUME NEW d \in Addr, Gone(d), d \notin displaced'
             PROVE  \A h \in Entries(hosts') : \E k \in {"bye", "dropped"} :
                      [to |-> To(h), kind |-> k, about |-> d] \in out'
  BY DEF LossIsTold
<1>1. ASSUME NEW e \in Addr \ {d} PROVE ~Leave(e) /\ \A r \in RPort : ~Login(e, r)
  BY <1>1 DEF Listen, Gone
<1>2. ASSUME NEW r \in RPort, Login(c, r) PROVE FALSE
  <2>1. c = d  BY <1>1, <1>2
  <2> QED BY <1>2, <2>1 DEF Login, Gone
<1>3. CASE Leave(c)
  <2>1. c = d  BY <1>1, <1>3
  <2>2. Entries(hosts') \subseteq Entries(hosts)
    <3> DEFINE I == {i \in DOMAIN hosts : hosts[i].addr.ip # c.ip}
    <3>1. hosts' = Kept(hosts, I)  BY <1>3 DEF Leave
    <3>2. I \in SUBSET DOMAIN hosts /\ hosts \in Seq(Entry)  BY DEF IInv, Typed
    <3> HIDE DEF I
    <3>3. Entries(hosts') = {hosts[i] : i \in I}  BY <3>1, <3>2, KeptAt
    <3> QED BY <3>2, <3>3 DEF Entries
  <2> QED BY <1>3, <2>1, <2>2 DEF Leave, SendAll
<1>4. ASSUME NEW text \in BOOLEAN, Say(c, text)
      PROVE  \A h \in Entries(hosts') : [to |-> To(h), kind |-> "dropped", about |-> d] \in out'
  BY <1>4, SayTells DEF IInv
<1>5. ASSUME \/ LoginAgain(c) \/ NotYetLogin(c) \/ List(c) \/ Keep(c) \/ BadCommand(c)
             \/ \E r \in RPort : Port(c, r)
      PROVE  FALSE
  BY <1>5, ChangeStep
<1> QED BY <1>2, <1>3, <1>4, <1>5 DEF Command

LEMMA StepInforms ==
  ASSUME IInv, NEW c \in Addr, Command(c), Listen
  PROVE  Informs
<1>1. OrderIsTold /\ NewsAreTrue  BY LoginStep, ChangeStep, SayStep, LeaveStep DEF Command
<1>2. LossIsTold  BY LossStep
<1> QED BY <1>1, <1>2 DEF Informs

LEMMA NextIInv ==
  ASSUME IInv, [Next]_vars
  PROVE  IInv'
<1>1. ASSUME NEW c \in Addr, Command(c) PROVE IInv'
  BY <1>1, LoginStep, ChangeStep, SayStep, LeaveStep DEF Command
<1>2. CASE UNCHANGED vars  BY <1>2 DEF vars, IInv, Typed, Counted, OneEntryEach
<1> QED BY <1>1, <1>2 DEF Next

LEMMA Always == Spec => []IInv
BY InitIInv, NextIInv, PTL DEF Spec
-----------------------------------------------------------------------------
(* A client is in the list once, however often its datagrams are repeated. *)
THEOREM OneEntry == Spec => []OneEntryEach
<1>1. IInv => OneEntryEach  BY DEF IInv
<1> QED BY <1>1, Always, PTL

(* Nobody is dropped for idleness who was heard from within the last        *)
(* MaxTimes messages; otherwise a command from the same IP takes an entry.  *)
THEOREM NobodyIsDroppedEarly == Spec => DropsAreDeserved
<1>1. ASSUME IInv, [Next]_vars, NEW c \in Addr, Gone(c)
      PROVE  \/ silent[c] = MaxTimes
             \/ \E d \in Addr : d.ip = c.ip /\ (Leave(d) \/ \E r \in RPort : Login(d, r))
  <2>1. ASSUME NEW d \in Addr, NEW r \in RPort, Login(d, r) PROVE d.ip = c.ip
    BY <1>1, <2>1, LoginStep
  <2>2. ASSUME NEW d \in Addr, Leave(d) PROVE d.ip = c.ip  BY <1>1, <2>2, LeaveStep
  <2>3. ASSUME NEW d \in Addr, NEW text \in BOOLEAN, Say(d, text) PROVE silent[c] = MaxTimes
    BY <1>1, <2>3, SayStep
  <2>4. ASSUME NEW d \in Addr,
               \/ LoginAgain(d) \/ NotYetLogin(d) \/ List(d) \/ Keep(d) \/ BadCommand(d)
               \/ \E r \in RPort : Port(d, r)
        PROVE  FALSE
    BY <1>1, <2>4, ChangeStep
  <2>5. ~UNCHANGED vars  BY <1>1 DEF vars, Gone, Registered
  <2> QED BY <1>1, <2>1, <2>2, <2>3, <2>4, <2>5 DEF Next, Command
<1>2. IInv /\ [Next]_vars =>
        [\A c \in Addr : Gone(c) =>
           \/ silent[c] = MaxTimes
           \/ \E d \in Addr : d.ip = c.ip /\ (Leave(d) \/ \E r \in RPort : Login(d, r))]_vars
  BY <1>1
<1> QED BY <1>2, Always, PTL DEF Spec, DropsAreDeserved

(* Who is dropped for idleness is told so, and so is everybody who stays. *)
THEOREM DropsAreTold == Spec => DropsAreAnnounced
<1>1. IInv =>
        [\A c, d \in Addr : (Gone(c) /\ \E text \in BOOLEAN : Say(d, text)) =>
           \A h \in {Host(c)} \cup Entries(hosts') :
             [to |-> To(h), kind |-> "dropped", about |-> c] \in out']_vars
  BY SayTells DEF IInv
<1> QED BY <1>1, Always, PTL DEF Spec, DropsAreAnnounced

(* The entry of a client is found, since there is only one.                 *)
LEMMA HostIs ==
  ASSUME NEW hl, \A i, j \in DOMAIN hl : hl[i].addr = hl[j].addr => i = j, NEW i \in DOMAIN hl
  PROVE  (CHOOSE h \in Entries(hl) : h.addr = hl[i].addr) = hl[i]
<1>1. hl[i] \in Entries(hl)  BY DEF Entries
<1>2. \A h \in Entries(hl) : h.addr = hl[i].addr => h = hl[i]  BY DEF Entries
<1> QED BY <1>1, <1>2

LEMMA StepKeepsInformed ==
  ASSUME IInv, IInv', MembersAreInformed, Informs, Listen
  PROVE  MembersAreInformed'
<1> DEFINE News(c) == Heard(c, {"welcome", "user"})
           Loss(c) == Heard(c, {"bye", "dropped"})
<1>1. \A c \in Addr : told'[c] = IF ~Registered(c)' THEN {}
                               ELSE ((IF Registered(c) THEN told[c] ELSE {}) \cup News(c)) \ Loss(c)
  BY DEF Listen
<1>2. \A c, d : d \in News(c) => Registered(d)'
  BY DEF Informs, NewsAreTrue, Heard
<1>3. \A c, d : d \in Loss(c) => ~Registered(d)'
  BY DEF Informs, NewsAreTrue, Heard
<1>4. ASSUME NEW c, NEW k \in {"bye", "dropped"}, NEW d,
             [to |-> To(Host(c))', kind |-> k, about |-> d] \in out'
      PROVE  d \in Loss(c)
  BY <1>4 DEF Heard
<1>5. ASSUME NEW c, NEW d, [to |-> To(Host(c))', kind |-> "welcome", about |-> d] \in out'
      PROVE  d \in News(c)
  BY <1>5 DEF Heard
<1> HIDE DEF News, Loss
<1>6. ASSUME NEW c, NEW i \in DOMAIN hosts', hosts'[i].addr = c
      PROVE  /\ c \in Addr /\ Registered(c)'
             /\ To(Host(c))' = To(hosts'[i])
  <2>1. hosts'[i] \in Entry  BY DEF IInv, Typed
  <2>2. c \in Addr  BY <1>6, <2>1 DEF Entry
  <2>3. Registered(c)'  BY <1>6 DEF Registered, Entries
  <2>4. \A k, l \in DOMAIN hosts' : hosts'[k].addr = hosts'[l].addr => k = l
    BY DEF IInv, OneEntryEach
  <2>5. (CHOOSE h \in Entries(hosts') : h.addr = hosts'[i].addr) = hosts'[i]  BY <2>4, HostIs
  <2>6. Host(c)' = hosts'[i]  BY <1>6, <2>5 DEF Host
  <2>7. To(Host(c))' = To(hosts'[i])  BY <2>6 DEF To
  <2> QED BY <2>2, <2>3, <2>7
<1>7. ASSUME NEW c, NEW d, NEW i \in DOMAIN hosts', NEW j \in DOMAIN hosts', i < j,
             hosts'[i].addr = c, hosts'[j].addr = d
      PROVE  d \in told'[c]
  <2>1. c \in Addr /\ Registered(c)' /\ To(Host(c))' = To(hosts'[i]) /\ Registered(d)'
    BY <1>6, <1>7
  <2>2. d \notin Loss(c)  BY <1>3, <2>1
  <2>3. \/ CameBefore(c, d)
        \/ [to |-> To(Host(c))', kind |-> "welcome", about |-> d] \in out'
    BY <1>7, <2>1 DEF Informs, OrderIsTold
  <2>4. ASSUME CameBefore(c, d) PROVE Registered(c) /\ d \in told[c]
    BY <2>4 DEF CameBefore, MembersAreInformed, Registered, Entries
  <2> QED BY <1>1, <1>5, <2>1, <2>2, <2>3, <2>4
<1>8. ASSUME NEW c \in Addr, NEW d \in Addr, d \in told'[c], ~Registered(d)', d \notin displaced'
      PROVE  FALSE
  <2>1. /\ Registered(c)' /\ Registered(c) /\ d \in told[c] /\ d \notin Loss(c)
    BY <1>1, <1>2, <1>8
  <2>2. Registered(d) \/ d \in displaced  BY <2>1 DEF MembersAreInformed
  <2>3. d \notin displaced  BY <1>8 DEF Listen
  <2>4. Gone(d)  BY <1>8, <2>2, <2>3 DEF Gone
  <2>5. PICK i \in DOMAIN hosts' : hosts'[i].addr = c  BY <2>1 DEF Registered, Entries
  <2>6. To(Host(c))' = To(hosts'[i]) /\ hosts'[i] \in Entries(hosts')  BY <1>6, <2>5 DEF Entries
  <2>7. \E k \in {"bye", "dropped"} : [to |-> To(hosts'[i]), kind |-> k, about |-> d] \in out'
    BY <1>8, <2>4, <2>6 DEF Informs, LossIsTold
  <2> QED BY <1>4, <2>1, <2>6, <2>7
<1> QED BY <1>7, <1>8 DEF MembersAreInformed

(* What the members were told is the list as it is: who came later is known *)
(* to them, and who has gone is not, unless another client displaced it.    *)
THEOREM MembersKnowTheList == Spec => []MembersAreInformed
<1>1. Init => MembersAreInformed
  <2>1. DOMAIN <<>> = {}  OBVIOUS
  <2> QED BY <2>1 DEF Init, MembersAreInformed
<1>2. IInv /\ IInv' /\ MembersAreInformed /\ [Next]_vars => MembersAreInformed'
  <2>1. ASSUME IInv, IInv', MembersAreInformed, Next PROVE MembersAreInformed'
    BY <2>1, StepInforms, StepKeepsInformed DEF Next
  <2>2. MembersAreInformed /\ UNCHANGED vars => MembersAreInformed'
    BY DEF vars, MembersAreInformed, Registered
  <2> QED BY <2>1, <2>2
<1> QED BY <1>1, <1>2, Always, PTL DEF Spec
=============================================================================
