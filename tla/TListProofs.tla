---------------------------- MODULE TListProofs ----------------------------
(***************************************************************************)
(* The links of the Tiny List stay each other's inverses and never lead to *)
(* freed memory, no list runs in a circle, del_tList_key leaves the list   *)
(* it should, and every other function does to the lists, as sequences,    *)
(* what NodeLists promises, for every number of nodes and of calls.        *)
(***************************************************************************)
EXTENDS TList, FiniteSetTheorems, SequenceTheorems, TLAPS

Typed == /\ heap \subseteq Node
         /\ next \in [Node -> Link] /\ prev \in [Node -> Link]
         /\ DOMAIN call = DOMAIN Idle /\ call.at \in Link

(* LinksAgree alone is inductive, given the types: it also says that a node *)
(* that is not allocated is linked to nothing.                              *)
IInv == Typed /\ LinksAgree

-----------------------------------------------------------------------------
(* What can be reached along f. *)
Links(f) == f \in [Node -> Link]

(* Reach(f, n) is closed under f, holds n, and is the smallest such set. *)
LEMMA ReachStart == ASSUME NEW f, NEW n \in Node PROVE n \in Reach(f, n)
  BY DEF Reach

LEMMA ReachClosed ==
  ASSUME NEW f, Links(f), NEW n \in Node, NEW x \in Reach(f, n), f[x] # Null
  PROVE  f[x] \in Reach(f, n)
<1>1. x \in Node /\ f[x] \in Node  BY DEF Reach, Links, Link
<1> SUFFICES ASSUME NEW S \in SUBSET Node, n \in S, \A y \in S : f[y] \in S \cup {Null}
             PROVE  f[x] \in S
  BY <1>1 DEF Reach
<1>2. x \in S  BY DEF Reach
<1> QED BY <1>2

LEMMA ReachLeast ==
  ASSUME NEW f, NEW n \in Node, NEW S \in SUBSET Node, n \in S,
         \A y \in S : f[y] \in S \cup {Null}
  PROVE  Reach(f, n) \subseteq S
  BY DEF Reach

(* When g leads back along f, all of Reach(f, n) but n has its predecessor  *)
(* there too.                                                               *)
LEMMA ReachBack ==
  ASSUME NEW f, NEW g, Links(f), Links(g), NEW n \in Node,
         \A x \in Node : f[x] # Null => g[f[x]] = x,
         NEW x \in Reach(f, n), x # n
  PROVE  g[x] \in Reach(f, n)
<1> DEFINE S == {y \in Reach(f, n) : y = n \/ g[y] \in Reach(f, n)}
<1>1. S \in SUBSET Node  BY DEF Reach
<1>2. n \in S  BY ReachStart
<1>3. \A y \in S : f[y] \in S \cup {Null}
  <2> SUFFICES ASSUME NEW y \in S, f[y] # Null PROVE f[y] \in S
    OBVIOUS
  <2>1. y \in Node /\ f[y] \in Reach(f, n)  BY ReachClosed DEF Reach
  <2>2. g[f[y]] = y  BY <2>1
  <2> QED BY <2>1, <2>2
<1>4. Reach(f, n) \subseteq S
  <2> HIDE DEF S
  <2> QED BY <1>1, <1>2, <1>3, ReachLeast
<1> QED BY <1>4

(* What is behind x is x and what is behind its next. *)
LEMMA ReachNext ==
  ASSUME NEW f, Links(f), NEW x \in Node, f[x] # Null, NEW m \in Reach(f, x), m # x
  PROVE  m \in Reach(f, f[x])
<1> DEFINE S == {x} \cup Reach(f, f[x])
<1>0. f[x] \in Node  BY DEF Links, Link
<1>1. S \in SUBSET Node  BY DEF Reach
<1>2. x \in S  OBVIOUS
<1>3. \A y \in S : f[y] \in S \cup {Null}  BY <1>0, ReachStart, ReachClosed
<1>4. Reach(f, x) \subseteq S
  <2> HIDE DEF S
  <2> QED BY <1>1, <1>2, <1>3, ReachLeast
<1> QED BY <1>4

(* A loop along f that has an end never comes back to its start. *)
LEMMA EndNoCircle ==
  ASSUME NEW f, Links(f), NEW n \in Node,
         NEW e \in Reach(f, n), f[e] = Null, NEW m \in Reach(f, n)
  PROVE  f[m] # n
<1> SUFFICES ASSUME f[m] = n, n # Null PROVE FALSE
  BY NullAssumption
<1>0. m \in Node /\ e \in Node  BY DEF Reach
<1> DEFINE S == {x \in Reach(f, n) : m \in Reach(f, x)}
<1>1. S \in SUBSET Node  BY DEF Reach
<1>2. n \in S  BY ReachStart
<1>3. \A y \in S : f[y] \in S \cup {Null}
  <2> SUFFICES ASSUME NEW y \in S, f[y] # Null PROVE f[y] \in S
    OBVIOUS
  <2>1. y \in Node /\ f[y] \in Reach(f, n)  BY ReachClosed DEF Reach
  <2>2. CASE y = m  BY <2>1, <2>2
  <2>3. CASE y # m  BY <2>1, <2>3, ReachNext
  <2> QED BY <2>2, <2>3
<1>4. e \in S
  <2> HIDE DEF S
  <2> QED BY <1>1, <1>2, <1>3, ReachLeast
<1>5. Reach(f, e) \subseteq {e}
  <2>1. {e} \in SUBSET Node /\ e \in {e} /\ \A y \in {e} : f[y] \in {e} \cup {Null}
    BY <1>0
  <2> QED BY <1>0, <2>1, ReachLeast
<1> QED BY <1>4, <1>5
-----------------------------------------------------------------------------
(* The actions change the links in a few ways; each keeps LinksAgree.  They *)
(* are stated for the fields before and after a step.                       *)
Agree(hp, nx, pv) == \A n \in Node :
  /\ nx[n] # Null => n \in hp /\ nx[n] \in hp /\ pv[nx[n]] = n
  /\ pv[n] # Null => n \in hp /\ pv[n] \in hp /\ nx[pv[n]] = n

(* A new node is put in behind p. *)
LEMMA AddBehindAgrees ==
  ASSUME Typed, LinksAgree, NEW p \in heap, NEW n \in Node \ heap, AddBehind(p, n)
  PROVE  /\ next' \in [Node -> Link] /\ prev' \in [Node -> Link]
         /\ Agree(heap \cup {n}, next', prev')
<1> USE NullAssumption DEF Typed, Link
<1>1. next[n] = Null /\ prev[n] = Null /\ p # n /\ n # Null /\ p # Null /\ p \in Node
  BY DEF LinksAgree
<1>2. \A m \in Node : next[m] # n /\ prev[m] # n
  BY <1>1 DEF LinksAgree
<1>3. /\ \A m \in Node : next'[m] = IF m = p THEN n ELSE IF m = n THEN next[p] ELSE next[m]
      /\ \A m \in Node : prev'[m] = IF m = n THEN p ELSE IF m = next[p] THEN n ELSE prev[m]
      /\ next' \in [Node -> Link] /\ prev' \in [Node -> Link]
  BY <1>1, <1>2 DEF AddBehind, Set
<1>4. \A m \in Node : next'[m] # Null =>
        m \in heap \cup {n} /\ next'[m] \in heap \cup {n} /\ prev'[next'[m]] = m
  BY <1>1, <1>2, <1>3 DEF LinksAgree
<1>5. \A m \in Node : prev'[m] # Null =>
        m \in heap \cup {n} /\ prev'[m] \in heap \cup {n} /\ next'[prev'[m]] = m
  BY <1>1, <1>2, <1>3 DEF LinksAgree
<1> QED BY <1>3, <1>4, <1>5 DEF Agree

(* A node is taken out and freed. *)
LEMMA UnlinkAgrees ==
  ASSUME Typed, LinksAgree, NEW n \in Node, Unlink(n)
  PROVE  /\ next' \in [Node -> Link] /\ prev' \in [Node -> Link]
         /\ Agree(heap \ {n}, next', prev')
<1> USE NullAssumption DEF Typed, Link
<1>1. /\ \A m \in Node : next'[m] = IF m = n THEN Null ELSE IF m = prev[n] THEN next[n] ELSE next[m]
      /\ \A m \in Node : prev'[m] = IF m = n THEN Null ELSE IF m = next[n] THEN prev[n] ELSE prev[m]
      /\ next' \in [Node -> Link] /\ prev' \in [Node -> Link]
  BY DEF Unlink, Set
<1>2. \A m \in Node : next'[m] # Null =>
        m \in heap \ {n} /\ next'[m] \in heap \ {n} /\ prev'[next'[m]] = m
  BY <1>1 DEF LinksAgree
<1>3. \A m \in Node : prev'[m] # Null =>
        m \in heap \ {n} /\ prev'[m] \in heap \ {n} /\ next'[prev'[m]] = m
  BY <1>1 DEF LinksAgree
<1> QED BY <1>1, <1>2, <1>3 DEF Agree

(* A node is taken out and put in behind another one. *)
LEMMA MoveAgrees ==
  ASSUME Typed, LinksAgree, NEW p \in Node, NEW n \in Node, MoveNode(p, n)
  PROVE  /\ next' \in [Node -> Link] /\ prev' \in [Node -> Link]
         /\ Agree(heap, next', prev')
<1> USE NullAssumption DEF Typed, Link
<1> DEFINE nx == Set(next, prev[n], next[n])
           pv == Set(prev, next[n], prev[n])
<1>0. p \in heap /\ n \in heap /\ p # n  BY DEF MoveNode
<1>1. /\ \A m \in Node : nx[m] = IF m = prev[n] THEN next[n] ELSE next[m]
      /\ \A m \in Node : pv[m] = IF m = next[n] THEN prev[n] ELSE prev[m]
      /\ nx \in [Node -> Link] /\ pv \in [Node -> Link]
  BY DEF Set
<1>2. \A m \in Node \ {n} : nx[m] # Null =>
        m \in heap /\ nx[m] \in heap \ {n} /\ pv[nx[m]] = m
  <2> HIDE DEF nx, pv
  <2> QED BY <1>1 DEF LinksAgree
<1>3. \A m \in Node \ {n} : pv[m] # Null =>
        m \in heap /\ pv[m] \in heap \ {n} /\ nx[pv[m]] = m
  <2> HIDE DEF nx, pv
  <2> QED BY <1>1 DEF LinksAgree
<1>4. /\ next' = [nx EXCEPT ![n] = nx[p], ![p] = n]
      /\ prev' = Set([pv EXCEPT ![n] = p], nx[p], n)
  BY DEF MoveNode
<1> HIDE DEF nx, pv
<1>5. nx[p] # n  BY <1>0, <1>2
<1>6. /\ \A m \in Node : next'[m] = IF m = p THEN n ELSE IF m = n THEN nx[p] ELSE nx[m]
      /\ \A m \in Node : prev'[m] = IF m = n THEN p ELSE IF m = nx[p] THEN n ELSE pv[m]
      /\ next' \in [Node -> Link] /\ prev' \in [Node -> Link]
  BY <1>0, <1>1, <1>4, <1>5 DEF Set
<1>7. \A m \in Node : next'[m] # Null =>
        m \in heap /\ next'[m] \in heap /\ prev'[next'[m]] = m
  BY <1>0, <1>2, <1>3, <1>5, <1>6
<1>8. \A m \in Node : prev'[m] # Null =>
        m \in heap /\ prev'[m] \in heap /\ next'[prev'[m]] = m
  BY <1>0, <1>2, <1>3, <1>5, <1>6
<1> QED BY <1>6, <1>7, <1>8 DEF Agree

(* The nodes S go, and b, if it is a node, becomes the end of its list. *)
LEMMA CutAgrees ==
  ASSUME Typed, LinksAgree, NEW S \in SUBSET Node, NEW b \in Link,
         \A x \in S : next[x] \in S \cup {Null},
         \A x \in S : prev[x] \in S \cup {Null, b},
         b # Null => next[b] \in S,
         next' = [m \in Node |-> IF m \in S \cup {b} THEN Null ELSE next[m]],
         prev' = [m \in Node |-> IF m \in S THEN Null ELSE prev[m]]
  PROVE  /\ next' \in [Node -> Link] /\ prev' \in [Node -> Link]
         /\ Agree(heap \ S, next', prev')
<1> USE NullAssumption DEF Typed, Link
<1>1. next' \in [Node -> Link] /\ prev' \in [Node -> Link]
  OBVIOUS
<1>2. \A m \in Node : next'[m] # Null =>
        m \in heap \ S /\ next'[m] \in heap \ S /\ prev'[next'[m]] = m
  <2> SUFFICES ASSUME NEW m \in Node, next'[m] # Null
               PROVE  m \in heap \ S /\ next'[m] \in heap \ S /\ prev'[next'[m]] = m
    OBVIOUS
  <2>1. m \notin S /\ m # b /\ next'[m] = next[m]  OBVIOUS
  <2>2. m \in heap /\ next[m] \in heap /\ next[m] \in Node /\ prev[next[m]] = m
    BY <2>1 DEF LinksAgree
  <2>3. next[m] \notin S  BY <2>1, <2>2
  <2> QED BY <2>1, <2>2, <2>3
<1>3. \A m \in Node : prev'[m] # Null =>
        m \in heap \ S /\ prev'[m] \in heap \ S /\ next'[prev'[m]] = m
  <2> SUFFICES ASSUME NEW m \in Node, prev'[m] # Null
               PROVE  m \in heap \ S /\ prev'[m] \in heap \ S /\ next'[prev'[m]] = m
    OBVIOUS
  <2>1. m \notin S /\ prev'[m] = prev[m]  OBVIOUS
  <2>2. m \in heap /\ prev[m] \in heap /\ prev[m] \in Node /\ next[prev[m]] = m
    BY <2>1 DEF LinksAgree
  <2>3. prev[m] \notin S  BY <2>1, <2>2
  <2>4. prev[m] # b  BY <2>1, <2>2
  <2> QED BY <2>1, <2>2, <2>3, <2>4
<1> QED BY <1>1, <1>2, <1>3 DEF Agree

LEMMA DelListAgrees ==
  ASSUME Typed, LinksAgree, NEW n \in Node, DelList(n)
  PROVE  /\ next' \in [Node -> Link] /\ prev' \in [Node -> Link] /\ heap' \subseteq heap
         /\ Agree(heap', next', prev')
<1> DEFINE S == Reach(next, n)
<1>1. S \in SUBSET Node /\ n \in S  BY ReachStart DEF Reach
<1>2. \A x \in S : next[x] \in S \cup {Null}
  BY ReachClosed DEF Links, Typed
<1>3. \A x \in Node : next[x] # Null => prev[next[x]] = x  BY DEF LinksAgree
<1>4. \A x \in S : prev[x] \in S \cup {Null, prev[n]}
  <2> SUFFICES ASSUME NEW x \in S, x # n PROVE prev[x] \in S
    OBVIOUS
  <2> QED BY <1>3, ReachBack DEF Links, Typed
<1>5. prev[n] \in Link /\ (prev[n] # Null => next[prev[n]] \in S)
  BY <1>1 DEF LinksAgree, Typed
<1>6. /\ heap' = heap \ S
      /\ next' = [m \in Node |-> IF m \in S \cup {prev[n]} THEN Null ELSE next[m]]
      /\ prev' = [m \in Node |-> IF m \in S THEN Null ELSE prev[m]]
  BY DEF DelList, Free
<1> HIDE DEF S
<1>7. /\ next' \in [Node -> Link] /\ prev' \in [Node -> Link]
      /\ Agree(heap \ S, next', prev')
  BY <1>1, <1>2, <1>4, <1>5, <1>6, CutAgrees
<1> QED BY <1>6, <1>7

LEMMA DelAllAgrees ==
  ASSUME Typed, LinksAgree, NEW n \in Node, DelAll(n)
  PROVE  /\ next' \in [Node -> Link] /\ prev' \in [Node -> Link] /\ heap' \subseteq heap
         /\ Agree(heap', next', prev')
<1> DEFINE R == Reach(next, n)
           P == Reach(prev, n)
<1>1. R \in SUBSET Node /\ P \in SUBSET Node /\ n \in R /\ n \in P
  BY ReachStart DEF Reach
<1>2. /\ \A x \in R : next[x] \in R \cup {Null}
      /\ \A x \in P : prev[x] \in P \cup {Null}
  BY ReachClosed DEF Links, Typed
<1>3. /\ \A x \in Node : next[x] # Null => prev[next[x]] = x
      /\ \A x \in Node : prev[x] # Null => next[prev[x]] = x
  BY DEF LinksAgree
<1>4. \A x \in R : x # n => prev[x] \in R  BY <1>3, ReachBack DEF Links, Typed
<1>5. \A x \in P : x # n => next[x] \in P  BY <1>3, ReachBack DEF Links, Typed
<1>6. /\ heap' = heap \ (R \cup P)
      /\ next' = [m \in Node |-> IF m \in R \cup P THEN Null ELSE next[m]]
      /\ prev' = [m \in Node |-> IF m \in R \cup P THEN Null ELSE prev[m]]
  BY DEF DelAll, Free
<1> HIDE DEF R, P
<1> DEFINE S == R \cup P
<1>7. /\ S \in SUBSET Node
      /\ \A x \in S : next[x] \in S \cup {Null}
      /\ \A x \in S : prev[x] \in S \cup {Null, Null}
  BY <1>1, <1>2, <1>4, <1>5
<1>8. next' = [m \in Node |-> IF m \in S \cup {Null} THEN Null ELSE next[m]]
  BY <1>6, NullAssumption
<1>9. Null \in Link /\ heap' = heap \ S /\ prev' = [m \in Node |-> IF m \in S THEN Null ELSE prev[m]]
  BY <1>6 DEF Link
<1> HIDE DEF S
<1>10. /\ next' \in [Node -> Link] /\ prev' \in [Node -> Link]
       /\ Agree(heap \ S, next', prev')
  BY <1>7, <1>8, <1>9, CutAgrees
<1> QED BY <1>9, <1>10

(* A list is put in behind p: its end e is another node than p. *)
LEMMA InsertAgrees ==
  ASSUME Typed, LinksAgree, NEW p \in Node, NEW t \in Node, Insert(p, t)
  PROVE  /\ next' \in [Node -> Link] /\ prev' \in [Node -> Link]
         /\ Agree(heap, next', prev')
<1> USE NullAssumption DEF Typed, Link
<1>1. p \in heap /\ t \in heap /\ prev[t] = Null /\ p \notin Reach(next, t)
  BY DEF Insert, OtherList
<1>2. PICK e \in heap : /\ IsEnd(t, e)
                        /\ prev' = [Set(prev, next[p], e) EXCEPT ![t] = p]
                        /\ next' = [next EXCEPT ![e] = next[p], ![p] = t]
  BY DEF Insert
<1>3. e \in Node /\ e # p /\ next[e] = Null  BY <1>1, <1>2 DEF IsEnd
<1>4. next[p] # t  BY <1>1 DEF LinksAgree
<1>5. /\ \A m \in Node : next'[m] = IF m = p THEN t ELSE IF m = e THEN next[p] ELSE next[m]
      /\ \A m \in Node : prev'[m] = IF m = t THEN p ELSE IF m = next[p] THEN e ELSE prev[m]
      /\ next' \in [Node -> Link] /\ prev' \in [Node -> Link]
  BY <1>2, <1>3, <1>4 DEF Set
<1>6. \A m \in Node : next'[m] # Null =>
        m \in heap /\ next'[m] \in heap /\ prev'[next'[m]] = m
  BY <1>1, <1>3, <1>4, <1>5 DEF LinksAgree
<1>7. \A m \in Node : prev'[m] # Null =>
        m \in heap /\ prev'[m] \in heap /\ next'[prev'[m]] = m
  BY <1>1, <1>3, <1>4, <1>5 DEF LinksAgree
<1> QED BY <1>5, <1>6, <1>7 DEF Agree

LEMMA AddEndAgrees ==
  ASSUME Typed, LinksAgree, NEW p \in Node, NEW t \in Node, AddEnd(p, t)
  PROVE  /\ next' \in [Node -> Link] /\ prev' \in [Node -> Link]
         /\ Agree(heap, next', prev')
<1> USE NullAssumption DEF Typed, Link
<1>1. t \in heap /\ prev[t] = Null  BY DEF AddEnd, OtherList
<1>2. PICK e \in heap : /\ IsEnd(p, e)
                        /\ next' = [next EXCEPT ![e] = t]
                        /\ prev' = [prev EXCEPT ![t] = e]
  BY DEF AddEnd
<1>3. e \in Node /\ next[e] = Null  BY <1>2 DEF IsEnd
<1>4. next' \in [Node -> Link] /\ prev' \in [Node -> Link]
  BY <1>2, <1>3
<1>5. \A m \in Node : next'[m] # Null =>
        m \in heap /\ next'[m] \in heap /\ prev'[next'[m]] = m
  BY <1>1, <1>2, <1>3 DEF LinksAgree
<1>6. \A m \in Node : prev'[m] # Null =>
        m \in heap /\ prev'[m] \in heap /\ next'[prev'[m]] = m
  BY <1>1, <1>2, <1>3 DEF LinksAgree
<1> QED BY <1>4, <1>5, <1>6 DEF Agree

(* The copies are linked as what they are copies of; the first one has no   *)
(* predecessor, and nothing is in front of it, since the loop has an end.   *)
LEMMA DupAgrees ==
  ASSUME Typed, LinksAgree, NEW n \in Node, Dup(n)
  PROVE  /\ next' \in [Node -> Link] /\ prev' \in [Node -> Link] /\ heap' \subseteq Node
         /\ Agree(heap', next', prev')
<1> USE NullAssumption DEF Typed, Link
<1> DEFINE R == Reach(next, n)
<1>1. PICK copy \in [R -> Node \ heap] :
        /\ \A x, y \in DOMAIN copy : copy[x] = copy[y] => x = y
        /\ DupOf(n, copy)
  BY DEF Dup
<1>2. R \in SUBSET Node /\ n \in R /\ n \in Node  BY ReachStart DEF Reach
<1>3. \A m \in R : next[m] # Null => next[m] \in R  BY ReachClosed DEF Links
<1>4. \A m \in R : m # n => prev[m] \in R
  <2>1. \A x \in Node : next[x] # Null => prev[next[x]] = x  BY DEF LinksAgree
  <2> QED BY <2>1, ReachBack DEF Links
<1>5. \A m \in R : next[m] # n
  <2>1. PICK e \in heap : e \in R /\ next[e] = Null  BY DEF Dup, IsEnd
  <2> QED BY <2>1, EndNoCircle DEF Links
<1> HIDE DEF R
<1> DEFINE C == {copy[m] : m \in R}
<1>6. \A x, y \in R : copy[x] = copy[y] => x = y  BY <1>1
<1>7. \A m \in R : copy[m] \in Node /\ copy[m] \notin heap /\ copy[m] \in C /\ copy[m] # Null
  BY <1>1
<1>8. heap' = heap \cup C /\ heap' \subseteq Node  BY <1>1, <1>7 DEF DupOf
<1>9. ASSUME NEW m \in R
      PROVE  /\ next'[copy[m]] = IF next[m] = Null THEN Null ELSE copy[next[m]]
             /\ prev'[copy[m]] = IF m = n \/ prev[m] = Null THEN Null ELSE copy[prev[m]]
  <2>1. (CHOOSE x \in DOMAIN copy : copy[x] = copy[m]) = m  BY <1>1, <1>6
  <2>2. \E x \in DOMAIN copy : copy[x] = copy[m]  BY <1>1
  <2> QED BY <1>1, <1>7, <2>1, <2>2 DEF DupOf
<1>10. ASSUME NEW c \in Node \ C PROVE next'[c] = next[c] /\ prev'[c] = prev[c]
  <2>1. ~ \E x \in DOMAIN copy : copy[x] = c  BY <1>1
  <2> QED BY <1>1, <2>1 DEF DupOf
<1>11. next' \in [Node -> Link] /\ prev' \in [Node -> Link]
  <2>1. DOMAIN next' = Node /\ DOMAIN prev' = Node
        /\ next' = [c \in Node |-> next'[c]] /\ prev' = [c \in Node |-> prev'[c]]
    BY <1>1 DEF DupOf
  <2>2. \A c \in Node : next'[c] \in Link /\ prev'[c] \in Link
    <3> SUFFICES ASSUME NEW c \in Node PROVE next'[c] \in Link /\ prev'[c] \in Link
      OBVIOUS
    <3>1. CASE c \in C
      <4>1. PICK m \in R : c = copy[m]  BY <3>1
      <4> QED BY <4>1, <1>3, <1>4, <1>7, <1>9
    <3>2. CASE c \notin C  BY <3>2, <1>10
    <3> QED BY <3>1, <3>2
  <2> QED BY <2>1, <2>2
<1>12. \A c \in Node : next'[c] # Null => c \in heap' /\ next'[c] \in heap' /\ prev'[next'[c]] = c
  <2> SUFFICES ASSUME NEW c \in Node, next'[c] # Null
               PROVE  c \in heap' /\ next'[c] \in heap' /\ prev'[next'[c]] = c
    OBVIOUS
  <2>1. CASE c \in C
    <3>1. PICK m \in R : c = copy[m]  BY <2>1
    <3>2. next[m] # Null /\ next'[c] = copy[next[m]] /\ next[m] \in R /\ next[m] # n
      BY <3>1, <1>3, <1>5, <1>9
    <3>3. prev[next[m]] = m /\ m # Null  BY <3>2, <1>2 DEF LinksAgree
    <3> QED BY <3>1, <3>2, <3>3, <1>7, <1>8, <1>9
  <2>2. CASE c \notin C
    <3>1. next'[c] = next[c] /\ next[c] # Null  BY <2>2, <1>10
    <3>2. c \in heap /\ next[c] \in heap /\ next[c] \in Node /\ prev[next[c]] = c
      BY <3>1 DEF LinksAgree
    <3>3. next[c] \notin C  BY <3>2, <1>7
    <3> QED BY <3>1, <3>2, <3>3, <1>8, <1>10
  <2> QED BY <2>1, <2>2
<1>13. \A c \in Node : prev'[c] # Null => c \in heap' /\ prev'[c] \in heap' /\ next'[prev'[c]] = c
  <2> SUFFICES ASSUME NEW c \in Node, prev'[c] # Null
               PROVE  c \in heap' /\ prev'[c] \in heap' /\ next'[prev'[c]] = c
    OBVIOUS
  <2>1. CASE c \in C
    <3>1. PICK m \in R : c = copy[m]  BY <2>1
    <3>2. m # n /\ prev[m] # Null /\ prev'[c] = copy[prev[m]] /\ prev[m] \in R
      BY <3>1, <1>4, <1>9
    <3>3. next[prev[m]] = m /\ m # Null  BY <3>2, <1>2 DEF LinksAgree
    <3> QED BY <3>1, <3>2, <3>3, <1>7, <1>8, <1>9
  <2>2. CASE c \notin C
    <3>1. prev'[c] = prev[c] /\ prev[c] # Null  BY <2>2, <1>10
    <3>2. c \in heap /\ prev[c] \in heap /\ prev[c] \in Node /\ next[prev[c]] = c
      BY <3>1 DEF LinksAgree
    <3>3. prev[c] \notin C  BY <3>2, <1>7
    <3> QED BY <3>1, <3>2, <3>3, <1>8, <1>10
  <2> QED BY <2>1, <2>2
<1> QED BY <1>8, <1>11, <1>12, <1>13 DEF Agree
-----------------------------------------------------------------------------
LEMMA InitIInv == Init => IInv
  BY NullAssumption DEF Init, IInv, Typed, LinksAgree, Link, Idle

LEMMA AgreeIsInvariant ==
  ASSUME heap' \subseteq Node, next' \in [Node -> Link], prev' \in [Node -> Link],
         DOMAIN call' = DOMAIN Idle, call'.at \in Link, Agree(heap', next', prev')
  PROVE  IInv'
  BY DEF IInv, Typed, LinksAgree, Agree

(* A larger heap takes nothing away. *)
LEMMA AgreeGrows ==
  ASSUME LinksAgree, NEW S, heap \subseteq S, UNCHANGED <<next, prev>>
  PROVE  Agree(S, next', prev')
  BY DEF LinksAgree, Agree

LEMMA NextIInv == IInv /\ [Next]_vars => IInv'
<1> SUFFICES ASSUME IInv, [Next]_vars PROVE IInv'
  OBVIOUS
<1>t. Typed /\ LinksAgree  BY DEF IInv
<1>u. ASSUME UNCHANGED loop PROVE DOMAIN call' = DOMAIN Idle /\ call'.at \in Link
  BY <1>t, <1>u DEF Typed, loop
<1>k. ASSUME UNCHANGED links, DOMAIN call' = DOMAIN Idle, call'.at \in Link PROVE IInv'
  <2>1. heap' = heap /\ UNCHANGED <<next, prev>>  BY <1>k DEF links
  <2>2. Agree(heap', next', prev')  BY <1>t, <2>1, AgreeGrows
  <2> QED BY <1>t, <1>k, <2>1, <2>2, AgreeIsInvariant DEF Typed
<1>1. ASSUME NEW n \in Node, NEW k \in Key, NewNode(n, k) PROVE IInv'
  <2>1. heap \subseteq heap' /\ heap' \subseteq Node /\ UNCHANGED <<next, prev, loop>>
    BY <1>1, <1>t DEF NewNode, Fresh, Typed
  <2>2. Agree(heap', next', prev')  BY <1>t, <2>1, AgreeGrows
  <2> QED BY <1>t, <1>u, <2>1, <2>2, AgreeIsInvariant DEF Typed
<1>2. ASSUME NEW p \in Node, NEW n \in Node, NEW k \in Key, AddNode(p, n, k) PROVE IInv'
  <2>1. p \in heap /\ n \in Node \ heap /\ AddBehind(p, n) /\ heap' = heap \cup {n} /\ UNCHANGED loop
    BY <1>2 DEF AddNode, Fresh
  <2>2. heap' \subseteq Node  BY <1>t, <2>1 DEF Typed
  <2> QED BY <1>t, <1>u, <2>1, <2>2, AddBehindAgrees, AgreeIsInvariant
<1>3. ASSUME NEW p \in Node, NEW n \in Node, NEW k \in Key, NEW new \in Key, Update(p, n, k, new)
      PROVE  IInv'
  <2>1. UNCHANGED loop  BY <1>3 DEF Update
  <2>2. CASE UNCHANGED links  BY <1>k, <1>u, <2>1, <2>2
  <2>3. CASE Fresh(n, new) /\ \E e \in heap : IsEnd(p, e) /\ AddBehind(e, n)
    <3>1. PICK e \in heap : AddBehind(e, n)  BY <2>3
    <3>2. n \in Node \ heap /\ heap' = heap \cup {n} /\ heap' \subseteq Node
      BY <1>t, <2>3 DEF Fresh, Typed
    <3> QED BY <1>t, <1>u, <2>1, <3>1, <3>2, AddBehindAgrees, AgreeIsInvariant
  <2> QED BY <1>3, <2>2, <2>3 DEF Update
<1>4. ASSUME NEW n \in Node, DelNode(n) PROVE IInv'
  <2>1. Unlink(n) /\ heap' = heap \ {n} /\ UNCHANGED loop  BY <1>4 DEF DelNode, Free
  <2>2. heap' \subseteq Node  BY <1>t, <2>1 DEF Typed
  <2> QED BY <1>t, <1>u, <2>1, <2>2, UnlinkAgrees, AgreeIsInvariant
<1>5. ASSUME NEW n \in Node, DelList(n) PROVE IInv'
  <2>1. UNCHANGED loop  BY <1>5 DEF DelList
  <2>2. heap \subseteq Node  BY <1>t DEF Typed
  <2> QED BY <1>t, <1>u, <1>5, <2>1, <2>2, DelListAgrees, AgreeIsInvariant
<1>6. ASSUME NEW n \in Node, DelAll(n) PROVE IInv'
  <2>1. UNCHANGED loop  BY <1>6 DEF DelAll
  <2>2. heap \subseteq Node  BY <1>t DEF Typed
  <2> QED BY <1>t, <1>u, <1>6, <2>1, <2>2, DelAllAgrees, AgreeIsInvariant
<1>7. ASSUME NEW n \in Node, Dup(n) PROVE IInv'
  <2>1. UNCHANGED loop  BY <1>7 DEF Dup
  <2> QED BY <1>t, <1>u, <1>7, <2>1, DupAgrees, AgreeIsInvariant
<1>8. ASSUME NEW p \in Node, NEW n \in Node, MoveNode(p, n) PROVE IInv'
  <2>1. UNCHANGED loop /\ heap' = heap  BY <1>8 DEF MoveNode, loop
  <2>2. heap' \subseteq Node  BY <1>t, <2>1 DEF Typed
  <2> QED BY <1>t, <1>u, <1>8, <2>1, <2>2, MoveAgrees, AgreeIsInvariant
<1>9. ASSUME NEW p \in Node, NEW n \in Node, SwapNode(p, n) PROVE IInv'
  BY <1>9, <1>k, <1>u DEF SwapNode
<1>10. ASSUME NEW p \in Node, NEW n \in Node, Insert(p, n) PROVE IInv'
  <2>1. UNCHANGED loop /\ heap' = heap  BY <1>10 DEF Insert, loop
  <2>2. heap' \subseteq Node  BY <1>t, <2>1 DEF Typed
  <2> QED BY <1>t, <1>u, <1>10, <2>1, <2>2, InsertAgrees, AgreeIsInvariant
<1>11. ASSUME NEW p \in Node, NEW n \in Node, AddEnd(p, n) PROVE IInv'
  <2>1. UNCHANGED loop /\ heap' = heap  BY <1>11 DEF AddEnd, loop
  <2>2. heap' \subseteq Node  BY <1>t, <2>1 DEF Typed
  <2> QED BY <1>t, <1>u, <1>11, <2>1, <2>2, AddEndAgrees, AgreeIsInvariant
<1>12. ASSUME NEW n \in Node, NEW k \in Key, NEW no \in 0 .. 2, DelKey(n, k, no) PROVE IInv'
  <2>1. UNCHANGED links /\ DOMAIN call' = DOMAIN Idle /\ call'.at \in Link
    BY <1>12 DEF DelKey, Idle, Link
  <2> QED BY <1>k, <2>1
<1>13. CASE DelKeyPass
  <2>1. call.at \in Node /\ next[call.at] \in Link  BY <1>13, <1>t DEF DelKeyPass, Typed, Link
  <2>2. UNCHANGED links /\ DOMAIN call' = DOMAIN Idle /\ call'.at \in Link
    BY <1>13, <1>t, <2>1 DEF DelKeyPass, Typed, Idle
  <2> QED BY <1>k, <2>2
<1>14. CASE DelKeyDelete
  <2>1. call.at \in Node /\ next[call.at] \in Link /\ Null \in Link
    BY <1>14, <1>t DEF DelKeyDelete, Typed, Link
  <2>2. DOMAIN call' = DOMAIN Idle /\ call'.at \in Link
    BY <1>14, <1>t, <2>1 DEF DelKeyDelete, Typed, Idle
  <2>3. Unlink(call.at) /\ heap' = heap \ {call.at} /\ heap' \subseteq Node
    BY <1>14, <1>t DEF DelKeyDelete, Free, Typed
  <2> QED BY <1>t, <2>1, <2>2, <2>3, UnlinkAgrees, AgreeIsInvariant
<1>15. CASE DelKeyReturn
  <2>1. UNCHANGED links /\ DOMAIN call' = DOMAIN Idle /\ call'.at \in Link
    BY <1>15 DEF DelKeyReturn, Idle, Link
  <2> QED BY <1>k, <2>1
<1>16. CASE UNCHANGED vars
  <2>1. UNCHANGED links /\ UNCHANGED loop  BY <1>16 DEF vars, links, loop
  <2> QED BY <1>k, <1>u, <2>1
<1> QED
  BY <1>1, <1>2, <1>3, <1>4, <1>5, <1>6, <1>7, <1>8, <1>9, <1>10, <1>11, <1>12,
     <1>13, <1>14, <1>15, <1>16 DEF Next, CallOne

(* Whatever is called, next and prev of the nodes lead to allocated nodes   *)
(* and are each other's inverse: no function leaves a dangling link.        *)
THEOREM LinksAlwaysAgree == Spec => []LinksAgree
<1>1. IInv => LinksAgree  BY DEF IInv
<1> QED BY <1>1, InitIInv, NextIInv, PTL DEF Spec
-----------------------------------------------------------------------------
(* No list ever runs in a circle.  What can be reached from a node changes  *)
(* with every link; the inductive form says that every set of nodes has one *)
(* whose next is not in the set.                                            *)
Open(f) == \A S \in SUBSET Node : S # {} => \E x \in S : f[x] \notin S

CInv == IInv /\ Open(next)

LEMMA OpenAt ==
  ASSUME NEW f, Open(f), NEW S \in SUBSET Node, S # {}
  PROVE  \E x \in S : f[x] \notin S
  BY DEF Open

(* No node is its own next. *)
LEMMA NoLoop == ASSUME NEW f, Open(f), NEW n \in Node PROVE f[n] # n
<1>1. {n} \in SUBSET Node /\ {n} # {}  OBVIOUS
<1>2. \E x \in {n} : f[x] \notin {n}  BY <1>1, OpenAt
<1> QED BY <1>2

(* Links that are only cut stay open. *)
LEMMA CutIsOpen ==
  ASSUME NEW f, NEW g, Open(f), \A x \in Node : g[x] \in {f[x], Null}
  PROVE  Open(g)
<1> SUFFICES ASSUME NEW S \in SUBSET Node, S # {} PROVE \E x \in S : g[x] \notin S
  BY DEF Open
<1>1. PICK x \in S : f[x] \notin S  BY OpenAt
<1> QED BY <1>1, NullAssumption

(* A node that is not in the lists is put in behind p. *)
LEMMA BehindIsOpen ==
  ASSUME NEW f, NEW g, Open(f), NEW p \in Node, NEW n \in Node, p # n,
         \A x \in Node \ {n} : f[x] # n,
         \A x \in Node : g[x] = IF x = p THEN n ELSE IF x = n THEN f[p] ELSE f[x]
  PROVE  Open(g)
<1> SUFFICES ASSUME NEW S \in SUBSET Node, S # {} PROVE \E x \in S : g[x] \notin S
  BY DEF Open
<1>0. f[p] # n  OBVIOUS
<1>1. CASE S \ {n} = {}
  <2>1. S = {n} /\ g[n] = f[p]  BY <1>1
  <2> QED BY <2>1, <1>0
<1>2. CASE S \ {n} # {}
  <2> DEFINE U == S \ {n}
  <2>1. U \in SUBSET Node /\ U # {}  BY <1>2
  <2> HIDE DEF U
  <2>2. PICK x \in U : f[x] \notin U  BY <2>1, OpenAt
  <2>3. x \in S /\ x # n /\ x \in Node /\ f[x] # n /\ f[x] \notin S  BY <2>2 DEF U
  <2>4. CASE x # p  BY <2>3, <2>4
  <2>5. CASE x = p
    <3>1. CASE n \notin S  BY <2>3, <2>5, <3>1
    <3>2. CASE n \in S  BY <2>3, <2>5, <3>2
    <3> QED BY <3>1, <3>2
  <2> QED BY <2>4, <2>5
<1> QED BY <1>1, <1>2

(* A node is taken out; b, if it is a node, was in front of it. *)
LEMMA BridgeIsOpen ==
  ASSUME NEW f, NEW g, Open(f), NEW n \in Node, NEW b, b # n, g[n] = Null,
         \A x \in Node : f[x] = n <=> x = b,
         \A x \in Node \ {n} : g[x] = IF x = b THEN f[n] ELSE f[x]
  PROVE  Open(g)
<1> SUFFICES ASSUME NEW S \in SUBSET Node, S # {} PROVE \E x \in S : g[x] \notin S
  BY DEF Open
<1>1. CASE n \in S  BY <1>1, NullAssumption
<1>2. CASE n \notin S /\ b \in S
  <2> DEFINE U == S \cup {n}
  <2>1. U \in SUBSET Node /\ U # {}  OBVIOUS
  <2> HIDE DEF U
  <2>2. PICK x \in U : f[x] \notin U  BY <2>1, OpenAt
  <2>3. x \in S \cup {n} /\ f[x] \notin S /\ f[x] # n  BY <2>2 DEF U
  <2>4. CASE x = n
    <3>1. g[b] = f[n]  BY <1>2
    <3> QED BY <1>2, <2>3, <2>4, <3>1
  <2>5. CASE x # n
    <3>1. x \in Node /\ x # b  BY <2>3, <2>5
    <3> QED BY <2>3, <2>5, <3>1
  <2> QED BY <2>4, <2>5
<1>3. CASE n \notin S /\ b \notin S
  <2>1. PICK x \in S : f[x] \notin S  BY OpenAt
  <2> QED BY <1>3, <2>1
<1> QED BY <1>1, <1>2, <1>3

(* The list R of the top t: a set that no link enters or leaves. *)
Apart(f, R) == /\ R \in SUBSET Node
               /\ \A x \in R : f[x] \in R \cup {Null}
               /\ \A x \in Node \ R : f[x] \notin R

LEMMA InOrOut ==
  ASSUME NEW f, Open(f), NEW R, Apart(f, R), NEW S \in SUBSET Node
  PROVE  /\ S \cap R # {} => \E x \in S \cap R : f[x] \notin S
         /\ S \ R # {}    => \E x \in S \ R : f[x] \notin S
<1>1. ASSUME S \cap R # {} PROVE \E x \in S \cap R : f[x] \notin S
  <2> DEFINE U == S \cap R
  <2>1. U \in SUBSET Node /\ U # {}  BY <1>1
  <2> HIDE DEF U
  <2>2. PICK x \in U : f[x] \notin U  BY <2>1, OpenAt
  <2>3. x \in S /\ x \in R /\ x \in Node /\ ~(f[x] \in S /\ f[x] \in R)  BY <2>2 DEF U
  <2>4. f[x] \in R \cup {Null}  BY <2>3 DEF Apart
  <2> QED BY <2>3, <2>4, NullAssumption
<1>2. ASSUME S \ R # {} PROVE \E x \in S \ R : f[x] \notin S
  <2> DEFINE U == S \ R
  <2>1. U \in SUBSET Node /\ U # {}  BY <1>2
  <2> HIDE DEF U
  <2>2. PICK x \in U : f[x] \notin U  BY <2>1, OpenAt
  <2>3. x \in S /\ x \notin R /\ x \in Node /\ ~(f[x] \in S /\ f[x] \notin R)  BY <2>2 DEF U
  <2>4. f[x] \notin R  BY <2>3 DEF Apart
  <2> QED BY <2>3, <2>4
<1> QED BY <1>1, <1>2

(* The list R from t to e is put in behind p, which is not in it. *)
LEMMA SpliceIsOpen ==
  ASSUME NEW f, NEW g, Open(f), NEW R, Apart(f, R), NEW t \in R, NEW e \in R,
         NEW p \in Node \ R,
         \A x \in Node : g[x] = IF x = p THEN t ELSE IF x = e THEN f[p] ELSE f[x]
  PROVE  Open(g)
<1> SUFFICES ASSUME NEW S \in SUBSET Node, S # {} PROVE \E x \in S : g[x] \notin S
  BY DEF Open
<1>0. e \in Node /\ e # p /\ f[p] \notin R  BY DEF Apart
<1>1. CASE f[p] \in S
  <2>1. f[p] \in S \ R  BY <1>0, <1>1
  <2>2. PICK x \in S \ R : f[x] \notin S  BY <2>1, InOrOut
  <2>3. x # p /\ x # e /\ x \in Node  BY <1>1, <2>2
  <2> QED BY <2>2, <2>3
<1>2. CASE f[p] \notin S /\ e \in S
  <2>1. g[e] = f[p]  BY <1>0
  <2> QED BY <1>2, <2>1
<1>3. CASE e \notin S /\ S \cap R # {}
  <2>1. PICK x \in S \cap R : f[x] \notin S  BY <1>3, InOrOut
  <2>2. x # p /\ x # e /\ x \in Node  BY <1>3, <2>1
  <2> QED BY <2>1, <2>2
<1>4. CASE S \cap R = {}
  <2>1. S \ R # {} /\ t \notin S /\ e \notin S  BY <1>4
  <2>2. PICK x \in S \ R : f[x] \notin S  BY <2>1, InOrOut
  <2>3. x \in Node /\ x # e  BY <2>1, <2>2
  <2>4. CASE x = p  BY <2>1, <2>2, <2>3, <2>4
  <2>5. CASE x # p  BY <2>2, <2>3, <2>5
  <2> QED BY <2>4, <2>5
<1> QED BY <1>1, <1>2, <1>3, <1>4

(* The list R of t is put behind the end e of another list. *)
LEMMA JoinIsOpen ==
  ASSUME NEW f, NEW g, Open(f), NEW R, Apart(f, R), NEW t \in R,
         NEW e \in Node \ R,
         \A x \in Node : g[x] = IF x = e THEN t ELSE f[x]
  PROVE  Open(g)
<1> SUFFICES ASSUME NEW S \in SUBSET Node, S # {} PROVE \E x \in S : g[x] \notin S
  BY DEF Open
<1>1. CASE S \cap R # {}
  <2>1. PICK x \in S \cap R : f[x] \notin S  BY <1>1, InOrOut
  <2> QED BY <2>1
<1>2. CASE S \cap R = {}
  <2>1. S \ R # {} /\ t \notin S  BY <1>2
  <2>2. PICK x \in S \ R : f[x] \notin S  BY <2>1, InOrOut
  <2>3. x \in Node  BY <2>2
  <2>4. CASE x = e  BY <2>1, <2>2, <2>3, <2>4
  <2>5. CASE x # e  BY <2>2, <2>3, <2>5
  <2> QED BY <2>4, <2>5
<1> QED BY <1>1, <1>2
-----------------------------------------------------------------------------
(* What the actions do to next, in these terms. *)
LEMMA TopIsApart ==
  ASSUME Typed, LinksAgree, NEW t \in Node, prev[t] = Null
  PROVE  Apart(next, Reach(next, t)) /\ t \in Reach(next, t)
<1> USE NullAssumption DEF Typed, Link
<1>1. \A x \in Node : next[x] # Null => prev[next[x]] = x  BY DEF LinksAgree
<1>2. \A x \in Reach(next, t) : next[x] \in Reach(next, t) \cup {Null}
  BY ReachClosed DEF Links
<1>3. ASSUME NEW x \in Node, next[x] \in Reach(next, t) PROVE x \in Reach(next, t)
  <2>1. next[x] # Null /\ prev[next[x]] = x  BY <1>1, <1>3 DEF Reach
  <2>2. next[x] # t  BY <2>1
  <2>3. prev[next[x]] \in Reach(next, t)  BY <1>1, <1>3, <2>2, ReachBack DEF Links
  <2> QED BY <2>1, <2>3
<1>4. Reach(next, t) \in SUBSET Node  BY DEF Reach
<1> QED BY <1>2, <1>3, <1>4, ReachStart DEF Apart

LEMMA UnlinkStaysOpen ==
  ASSUME CInv, NEW n \in Node, Unlink(n)
  PROVE  Open(next')
<1> USE NullAssumption DEF Typed, Link
<1>1. Typed /\ LinksAgree /\ Open(next)  BY DEF CInv, IInv
<1>2. prev[n] # n
  <2>1. next[n] # n  BY <1>1, NoLoop
  <2> QED BY <1>1, <2>1 DEF LinksAgree
<1>3. \A x \in Node : next[x] = n <=> x = prev[n]  BY <1>1 DEF LinksAgree
<1>4. /\ next'[n] = Null
      /\ \A x \in Node \ {n} : next'[x] = IF x = prev[n] THEN next[n] ELSE next[x]
  BY <1>1 DEF Unlink, Set
<1> QED BY <1>1, <1>2, <1>3, <1>4, BridgeIsOpen

LEMMA MoveStaysOpen ==
  ASSUME CInv, NEW p \in Node, NEW n \in Node, MoveNode(p, n)
  PROVE  Open(next')
<1> USE NullAssumption DEF Typed, Link
<1>1. Typed /\ LinksAgree /\ Open(next) /\ p # n  BY DEF CInv, IInv, MoveNode
<1>2. prev[n] # n /\ next[n] # n
  <2>1. next[n] # n  BY <1>1, NoLoop
  <2> QED BY <1>1, <2>1 DEF LinksAgree
<1>3. \A x \in Node : next[x] = n <=> x = prev[n]  BY <1>1 DEF LinksAgree
<1> DEFINE nx == Set(next, prev[n], next[n])
           h  == [x \in Node |-> IF x = n THEN Null ELSE nx[x]]
<1>4. /\ h[n] = Null
      /\ \A x \in Node \ {n} : h[x] = IF x = prev[n] THEN next[n] ELSE next[x]
  BY <1>1 DEF Set
<1>5. \A x \in Node : next'[x] = IF x = p THEN n ELSE IF x = n THEN nx[p] ELSE nx[x]
  BY <1>1 DEF MoveNode, Set
<1>6. \A x \in Node \ {n} : h[x] = nx[x]  OBVIOUS
<1> HIDE DEF h, nx
<1>7. Open(h)  BY <1>1, <1>2, <1>3, <1>4, BridgeIsOpen
<1>8. \A x \in Node \ {n} : h[x] # n  BY <1>2, <1>3, <1>4
<1>9. \A x \in Node : next'[x] = IF x = p THEN n ELSE IF x = n THEN h[p] ELSE h[x]
  BY <1>1, <1>5, <1>6
<1> QED BY <1>1, <1>7, <1>8, <1>9, BehindIsOpen

LEMMA AddStaysOpen ==
  ASSUME CInv, NEW p \in heap, NEW n \in Node \ heap, AddBehind(p, n)
  PROVE  Open(next')
<1> USE NullAssumption DEF Typed, Link
<1>1. Typed /\ LinksAgree /\ Open(next) /\ p \in Node /\ p # n  BY DEF CInv, IInv
<1>2. \A x \in Node : next[x] # n  BY <1>1 DEF LinksAgree
<1>3. \A x \in Node : next'[x] = IF x = p THEN n ELSE IF x = n THEN next[p] ELSE next[x]
  BY <1>1 DEF AddBehind
<1> QED BY <1>1, <1>2, <1>3, BehindIsOpen

LEMMA InsertStaysOpen ==
  ASSUME CInv, NEW p \in Node, NEW t \in Node, Insert(p, t)
  PROVE  Open(next')
<1> USE NullAssumption DEF Typed, Link
<1>1. Typed /\ LinksAgree /\ Open(next)  BY DEF CInv, IInv
<1> DEFINE R == Reach(next, t)
<1>2. prev[t] = Null /\ p \in Node \ R  BY DEF Insert, OtherList
<1>3. Apart(next, R) /\ t \in R  BY <1>1, <1>2, TopIsApart
<1>4. PICK e \in heap : e \in R /\ next' = [next EXCEPT ![e] = next[p], ![p] = t]
  BY DEF Insert, IsEnd
<1>5. \A x \in Node : next'[x] = IF x = p THEN t ELSE IF x = e THEN next[p] ELSE next[x]
  BY <1>1, <1>2, <1>4
<1>6. Open(next) /\ Apart(next, R) /\ t \in R /\ e \in R /\ p \in Node \ R
  BY <1>1, <1>2, <1>3, <1>4
<1> HIDE DEF R
<1> QED BY <1>5, <1>6, SpliceIsOpen

LEMMA AddEndStaysOpen ==
  ASSUME CInv, NEW p \in Node, NEW t \in Node, AddEnd(p, t)
  PROVE  Open(next')
<1> USE NullAssumption DEF Typed, Link
<1>1. Typed /\ LinksAgree /\ Open(next)  BY DEF CInv, IInv
<1> DEFINE R == Reach(next, t)
           P == Reach(next, p)
<1>2. prev[t] = Null /\ p \notin R  BY DEF AddEnd, OtherList
<1>3. Apart(next, R) /\ t \in R  BY <1>1, <1>2, TopIsApart
<1>4. PICK e \in heap : e \in P /\ next' = [next EXCEPT ![e] = t]
  BY DEF AddEnd, IsEnd
<1>5. P \in SUBSET Node /\ p \in P /\ \A x \in P : next[x] \in P \cup {Null}
  BY <1>1, ReachStart, ReachClosed DEF Links, Reach
<1>6. P \subseteq P \ R
  <2> DEFINE S == P \ R
  <2>1. S \in SUBSET Node /\ p \in S  BY <1>2, <1>5
  <2>2. \A x \in S : next[x] \in S \cup {Null}
    <3> HIDE DEF P, R
    <3> QED BY <1>3, <1>5 DEF Apart
  <2> HIDE DEF S
  <2>3. P \subseteq S  BY <2>1, <2>2, ReachLeast
  <2> QED BY <2>3 DEF S
<1> HIDE DEF R, P
<1>7. e \in Node \ R  BY <1>4, <1>5, <1>6
<1>8. \A x \in Node : next'[x] = IF x = e THEN t ELSE next[x]  BY <1>1, <1>4
<1> QED BY <1>1, <1>3, <1>7, <1>8, JoinIsOpen

LEMMA DupStaysOpen ==
  ASSUME CInv, NEW n \in Node, Dup(n)
  PROVE  Open(next')
<1> USE NullAssumption DEF Typed, Link
<1>1. Typed /\ LinksAgree /\ Open(next)  BY DEF CInv, IInv
<1> DEFINE R == Reach(next, n)
<1>2. PICK copy \in [R -> Node \ heap] :
        /\ \A x, y \in DOMAIN copy : copy[x] = copy[y] => x = y
        /\ DupOf(n, copy)
  BY DEF Dup
<1>3. R \in SUBSET Node /\ \A m \in R : next[m] \in R \cup {Null}
  BY <1>1, ReachClosed DEF Links, Reach
<1> HIDE DEF R
<1> DEFINE C == {copy[m] : m \in R}
<1>4. \A x, y \in R : copy[x] = copy[y] => x = y  BY <1>2
<1>5. \A m \in R : copy[m] \in Node \ heap /\ copy[m] \in C  BY <1>2
<1>6. ASSUME NEW m \in R
      PROVE  next'[copy[m]] = IF next[m] = Null THEN Null ELSE copy[next[m]]
  <2>1. (CHOOSE x \in DOMAIN copy : copy[x] = copy[m]) = m  BY <1>2, <1>4
  <2>2. \E x \in DOMAIN copy : copy[x] = copy[m]  BY <1>2
  <2> QED BY <1>1, <1>2, <1>5, <2>1, <2>2 DEF DupOf
<1>7. ASSUME NEW c \in Node \ C PROVE next'[c] = next[c] /\ next[c] \notin C
  <2>1. ~ \E x \in DOMAIN copy : copy[x] = c  BY <1>2
  <2>2. next'[c] = next[c]  BY <1>1, <1>2, <2>1 DEF DupOf
  <2>3. next[c] \in heap \cup {Null}  BY <1>1 DEF LinksAgree
  <2> QED BY <2>2, <2>3, <1>5
<1> SUFFICES ASSUME NEW S \in SUBSET Node, S # {} PROVE \E x \in S : next'[x] \notin S
  BY DEF Open
<1>8. CASE S \ C # {}
  <2> DEFINE U == S \ C
  <2>1. U \in SUBSET Node /\ U # {}  BY <1>8
  <2> HIDE DEF U
  <2>2. PICK x \in U : next[x] \notin U  BY <1>1, <2>1, OpenAt
  <2>3. x \in S /\ x \in Node \ C /\ ~(next[x] \in S /\ next[x] \notin C)  BY <2>2 DEF U
  <2> QED BY <1>7, <2>3
<1>9. CASE S \ C = {}
  <2> DEFINE O == {m \in R : copy[m] \in S}
  <2>1. O \in SUBSET Node /\ O # {}  BY <1>3, <1>9
  <2> HIDE DEF O
  <2>2. PICK m \in O : next[m] \notin O  BY <1>1, <2>1, OpenAt
  <2>3. m \in R /\ copy[m] \in S /\ ~(next[m] \in R /\ copy[next[m]] \in S)  BY <2>2 DEF O
  <2>4. next[m] \in R \cup {Null}  BY <1>3, <2>3
  <2>5. CASE next[m] = Null  BY <1>6, <2>3, <2>5
  <2>6. CASE next[m] \in R
    <3>1. next[m] # Null  BY <1>3, <2>6
    <3>2. next'[copy[m]] = copy[next[m]]  BY <1>6, <2>3, <3>1
    <3> QED BY <2>3, <2>6, <3>2
  <2> QED BY <2>4, <2>5, <2>6
<1> QED BY <1>8, <1>9

LEMMA NextCInv == CInv /\ [Next]_vars => CInv'
<1> SUFFICES ASSUME CInv, [Next]_vars PROVE Open(next')
  BY NextIInv DEF CInv
<1>t. Typed /\ LinksAgree /\ Open(next) /\ next \in [Node -> Link]  BY DEF CInv, IInv, Typed
<1>k. ASSUME UNCHANGED links PROVE Open(next')
  BY <1>t, <1>k DEF links
<1>1. ASSUME NEW n \in Node, NEW k \in Key, NewNode(n, k) PROVE Open(next')
  BY <1>t, <1>1 DEF NewNode
<1>2. ASSUME NEW p \in Node, NEW n \in Node, NEW k \in Key, AddNode(p, n, k) PROVE Open(next')
  <2>1. p \in heap /\ n \in Node \ heap /\ AddBehind(p, n)  BY <1>2 DEF AddNode, Fresh
  <2> QED BY <2>1, AddStaysOpen
<1>3. ASSUME NEW p \in Node, NEW n \in Node, NEW k \in Key, NEW new \in Key, Update(p, n, k, new)
      PROVE  Open(next')
  <2>1. CASE Fresh(n, new) /\ \E e \in heap : IsEnd(p, e) /\ AddBehind(e, n)
    <3>1. PICK e \in heap : AddBehind(e, n)  BY <2>1
    <3>2. n \in Node \ heap  BY <2>1 DEF Fresh
    <3> QED BY <3>1, <3>2, AddStaysOpen
  <2> QED BY <1>k, <1>3, <2>1 DEF Update
<1>4. ASSUME NEW n \in Node, DelNode(n) PROVE Open(next')
  BY <1>4, UnlinkStaysOpen DEF DelNode
<1>5. ASSUME NEW n \in Node, DelList(n) PROVE Open(next')
  <2>1. \A x \in Node : next'[x] \in {next[x], Null}  BY <1>5 DEF DelList
  <2> QED BY <1>t, <2>1, CutIsOpen
<1>6. ASSUME NEW n \in Node, DelAll(n) PROVE Open(next')
  <2>1. \A x \in Node : next'[x] \in {next[x], Null}  BY <1>6 DEF DelAll
  <2> QED BY <1>t, <2>1, CutIsOpen
<1>7. ASSUME NEW n \in Node, Dup(n) PROVE Open(next')
  BY <1>7, DupStaysOpen
<1>8. ASSUME NEW p \in Node, NEW n \in Node, MoveNode(p, n) PROVE Open(next')
  BY <1>8, MoveStaysOpen
<1>9. ASSUME NEW p \in Node, NEW n \in Node, SwapNode(p, n) PROVE Open(next')
  BY <1>k, <1>9 DEF SwapNode
<1>10. ASSUME NEW p \in Node, NEW n \in Node, Insert(p, n) PROVE Open(next')
  BY <1>10, InsertStaysOpen
<1>11. ASSUME NEW p \in Node, NEW n \in Node, AddEnd(p, n) PROVE Open(next')
  BY <1>11, AddEndStaysOpen
<1>12. ASSUME NEW n \in Node, NEW k \in Key, NEW no \in 0 .. 2, DelKey(n, k, no) PROVE Open(next')
  BY <1>k, <1>12 DEF DelKey
<1>13. CASE DelKeyPass  BY <1>k, <1>13 DEF DelKeyPass
<1>14. CASE DelKeyDelete
  <2>1. call.at \in Node /\ Unlink(call.at)  BY <1>14, <1>t DEF DelKeyDelete, Typed, Link
  <2> QED BY <2>1, UnlinkStaysOpen
<1>15. CASE DelKeyReturn  BY <1>k, <1>15 DEF DelKeyReturn
<1>16. CASE UNCHANGED vars  BY <1>k, <1>16 DEF vars, links
<1> QED
  BY <1>1, <1>2, <1>3, <1>4, <1>5, <1>6, <1>7, <1>8, <1>9, <1>10, <1>11, <1>12,
     <1>13, <1>14, <1>15, <1>16 DEF Next, CallOne

LEMMA InitCInv == Init => CInv
<1> SUFFICES ASSUME Init PROVE Open(next)
  BY InitIInv DEF CInv
<1>1. ASSUME NEW S \in SUBSET Node, S # {} PROVE \E x \in S : next[x] \notin S
  <2>1. PICK x \in S : TRUE  BY <1>1
  <2>2. next[x] = Null /\ x \in Node  BY <2>1 DEF Init
  <2> QED BY <2>1, <2>2, NullAssumption
<1> QED BY <1>1 DEF Open
-----------------------------------------------------------------------------
(* From any node the end is reached by next, and the top by prev.  A set of *)
(* nodes closed under prev, which prev never leaves by Null, would be       *)
(* mapped onto itself, as it is finite, and be closed under next.           *)
LEMMA EndIsReached ==
  ASSUME CInv, NEW n \in heap
  PROVE  \E e \in heap : IsEnd(n, e)
<1>1. Typed /\ LinksAgree /\ Open(next) /\ n \in Node  BY DEF CInv, IInv, Typed
<1> DEFINE R == Reach(next, n)
<1>2. R \in SUBSET Node /\ n \in R  BY <1>1, ReachStart DEF Reach
<1>3. \A x \in R : next[x] \in R \cup {Null}  BY <1>1, ReachClosed DEF Links, Typed
<1>4. R \subseteq heap
  <2>1. heap \in SUBSET Node /\ \A x \in heap : next[x] \in heap \cup {Null}
    BY <1>1 DEF LinksAgree, Typed
  <2> QED BY <1>1, <2>1, ReachLeast
<1>5. R # {}  BY <1>2
<1>6. \E e \in R : next[e] \notin R
  <2> HIDE DEF R
  <2> QED BY <1>1, <1>2, <1>5, OpenAt
<1> QED BY <1>3, <1>4, <1>6 DEF IsEnd

(* A finite set that is mapped into itself one to one is mapped onto itself. *)
LEMMA OntoItself ==
  ASSUME NEW S, IsFiniteSet(S), NEW f \in Injection(S, S)
  PROVE  f \in Surjection(S, S)
BY FS_Injection

LEMMA TopIsReached ==
  ASSUME CInv, NEW n \in heap
  PROVE  \E t \in Reach(prev, n) : prev[t] = Null
<1>1. Typed /\ LinksAgree /\ Open(next) /\ n \in Node  BY DEF CInv, IInv, Typed
<1> DEFINE P == Reach(prev, n)
<1>2. P \in SUBSET Node /\ n \in P  BY <1>1, ReachStart DEF Reach
<1>3. \A x \in P : prev[x] # Null => prev[x] \in P  BY <1>1, ReachClosed DEF Links, Typed
<1> HIDE DEF P
<1> SUFFICES ASSUME \A t \in P : prev[t] # Null PROVE FALSE
  BY DEF P
<1>4. \A x \in P : prev[x] \in P /\ next[prev[x]] = x
  BY <1>1, <1>2, <1>3 DEF LinksAgree
<1> DEFINE f == [x \in P |-> prev[x]]
<1>5. f \in Injection(P, P)
  BY <1>4 DEF Injection, IsInjective
<1>6. IsFiniteSet(P)  BY <1>2, NodeAssumption, FS_Subset
<1>7. f \in Surjection(P, P)
  <2> HIDE DEF f
  <2> QED BY <1>5, <1>6, OntoItself
<1>8. \A y \in P : \E x \in P : prev[x] = y  BY <1>7 DEF Surjection
<1>9. \A y \in P : next[y] \in P  BY <1>4, <1>8
<1> QED BY <1>1, <1>2, <1>9, OpenAt

(* Loops over a list end: the ones along next find its end, the ones along  *)
(* prev its top, from every node of it.                                     *)
THEOREM ListsNeverCircle == Spec => []NoCircle
<1>1. CInv => NoCircle  BY EndIsReached, TopIsReached DEF NoCircle
<1> QED BY <1>1, InitCInv, NextCInv, PTL DEF Spec
-----------------------------------------------------------------------------
(* Reach(f, .) is the order of a list: it is transitive, nothing follows    *)
(* itself, and of two nodes behind a third one follows the other.           *)
LEMMA ReachTrans ==
  ASSUME NEW f, Links(f), NEW x \in Node, NEW y \in Reach(f, x), NEW z \in Reach(f, y)
  PROVE  z \in Reach(f, x)
<1>1. y \in Node /\ Reach(f, x) \in SUBSET Node  BY DEF Reach
<1>2. \A m \in Reach(f, x) : f[m] \in Reach(f, x) \cup {Null}  BY ReachClosed
<1>3. Reach(f, y) \subseteq Reach(f, x)  BY <1>1, <1>2, ReachLeast
<1> QED BY <1>3

LEMMA ReachEnd ==
  ASSUME NEW f, NEW x \in Node, f[x] = Null
  PROVE  Reach(f, x) = {x}
<1>1. {x} \in SUBSET Node /\ \A m \in {x} : f[m] \in {x} \cup {Null}  OBVIOUS
<1>2. Reach(f, x) \subseteq {x}  BY <1>1, ReachLeast
<1> QED BY <1>2, ReachStart

LEMMA NeverBack ==
  ASSUME NEW f, Links(f), Open(f), NEW x \in Node, f[x] # Null
  PROVE  x \notin Reach(f, f[x])
<1> SUFFICES ASSUME x \in Reach(f, f[x]) PROVE FALSE
  OBVIOUS
<1> DEFINE S == {y \in Node : x \in Reach(f, y) /\ y \in Reach(f, f[x])}
<1>1. f[x] \in Node  BY DEF Links, Link
<1>2. x \in S  BY ReachStart DEF Reach
<1>3. ASSUME NEW y \in S PROVE f[y] \in S
  <2>1. y \in Node /\ x \in Reach(f, y) /\ y \in Reach(f, f[x])  OBVIOUS
  <2>2. f[y] # Null /\ f[y] \in Node
    <3>1. CASE f[y] = Null
      <4>1. x = y  BY <2>1, <3>1, ReachEnd
      <4> QED BY <3>1, <4>1
    <3> QED BY <2>1, <3>1 DEF Links, Link
  <2>3. f[y] \in Reach(f, f[x])  BY <1>1, <2>1, <2>2, ReachClosed
  <2>4. x \in Reach(f, f[y])
    <3>1. CASE y = x  BY <3>1
    <3>2. CASE y # x  BY <2>1, <2>2, <3>2, ReachNext
    <3> QED BY <3>1, <3>2
  <2> QED BY <2>2, <2>3, <2>4
<1>4. S \in SUBSET Node /\ S # {}  BY <1>2
<1> HIDE DEF S
<1> QED BY <1>3, <1>4, OpenAt

LEMMA ReachSplit ==
  ASSUME NEW f, Links(f), Open(f), NEW x \in Node, f[x] # Null
  PROVE  /\ f[x] \in Node /\ x \notin Reach(f, f[x])
         /\ Reach(f, x) = {x} \cup Reach(f, f[x])
<1>1. f[x] \in Node  BY DEF Links, Link
<1>2. x \in Reach(f, x) /\ f[x] \in Reach(f, x)  BY ReachStart, ReachClosed
<1>3. \A m \in Reach(f, f[x]) : m \in Reach(f, x)  BY <1>2, ReachTrans
<1>4. \A m \in Reach(f, x) : m = x \/ m \in Reach(f, f[x])  BY ReachNext
<1> QED BY <1>1, <1>2, <1>3, <1>4, NeverBack

(* A node without a predecessor can only be the first of its list. *)
LEMMA FirstIsTop ==
  ASSUME IInv, NEW p \in Node, NEW x \in Reach(next, p), prev[x] = Null
  PROVE  x = p
<1> SUFFICES ASSUME x # p PROVE FALSE
  OBVIOUS
<1>1. Links(next) /\ Links(prev) /\ \A m \in Node : next[m] # Null => prev[next[m]] = m
  BY DEF IInv, Typed, LinksAgree, Links
<1>2. prev[x] \in Reach(next, p)  BY <1>1, ReachBack
<1>3. prev[x] \in Node  BY <1>2 DEF Reach
<1> QED BY <1>3, NullAssumption

(* What is behind an allocated node is allocated. *)
LEMMA ReachInHeap ==
  ASSUME IInv, NEW n \in heap
  PROVE  n \in Node /\ Reach(next, n) \subseteq heap
<1>1. heap \in SUBSET Node /\ \A x \in heap : next[x] \in heap \cup {Null}
  BY DEF IInv, LinksAgree, Typed
<1> QED BY <1>1, ReachLeast

(* Taking n out takes it out of everything that is reached, and nothing     *)
(* else changes.                                                            *)
LEMMA UnlinkReach ==
  ASSUME CInv, NEW n \in Node, Unlink(n), NEW x \in Node, x # n
  PROVE  Reach(next', x) = Reach(next, x) \ {n}
<1> USE NullAssumption DEF Typed, Link
<1>1. Typed /\ LinksAgree /\ Open(next) /\ next \in [Node -> Link]  BY DEF CInv, IInv
<1>2. \A y \in Node : next[y] = n <=> y = prev[n]  BY <1>1 DEF LinksAgree
<1>3. next[n] # n  BY <1>1, NoLoop
<1>4. /\ next' \in [Node -> Link] /\ next'[n] = Null
      /\ \A y \in Node \ {n} : next'[y] = IF y = prev[n] THEN next[n] ELSE next[y]
  BY <1>1, UnlinkAgrees DEF Unlink, Set
<1>5. Links(next) /\ Links(next')  BY <1>1, <1>4 DEF Links
<1>6. \A m \in Reach(next, x) : m \in Node  BY DEF Reach
<1>7. \A m \in Reach(next', x) : m \in Node  BY DEF Reach
<1>8. \A m \in Reach(next, x) : next[m] # Null => next[m] \in Reach(next, x)  BY <1>5, ReachClosed
<1>9. \A m \in Reach(next', x) : next'[m] # Null => next'[m] \in Reach(next', x)  BY <1>5, ReachClosed
<1>10. x \in Reach(next, x) /\ x \in Reach(next', x)  BY ReachStart
<1> DEFINE S == Reach(next, x) \ {n}
           T == Reach(next', x) \cup {y \in {n} : prev[n] \in Reach(next', x)}
<1>11. Reach(next', x) \subseteq S
  <2>1. S \in SUBSET Node /\ x \in S  BY <1>6, <1>10
  <2>2. \A y \in S : next'[y] \in S \cup {Null}
    <3> TAKE y \in S
    <3>1. y \in Node \ {n} /\ y \in Reach(next, x)  BY <1>6
    <3>2. CASE y = prev[n]
      <4>1. next[y] = n /\ n \in Reach(next, x)  BY <1>2, <1>8, <3>1, <3>2
      <4>2. next'[y] = next[n]  BY <1>4, <3>1, <3>2
      <4> QED BY <1>3, <1>8, <4>1, <4>2
    <3>3. CASE y # prev[n]
      <4>1. next'[y] = next[y] /\ next[y] # n  BY <1>2, <1>4, <3>1, <3>3
      <4> QED BY <1>8, <3>1, <4>1
    <3> QED BY <3>2, <3>3
  <2> HIDE DEF S
  <2> QED BY <2>1, <2>2, ReachLeast
<1>12. Reach(next, x) \subseteq T
  <2>1. T \in SUBSET Node /\ x \in T  BY <1>7, <1>10
  <2>2. \A y \in T : next[y] \in T \cup {Null}
    <3> TAKE y \in T
    <3>1. CASE y = n
      <4>1. CASE prev[n] \in Reach(next', x)
        <5>1. prev[n] \in Node /\ next[prev[n]] = n  BY <1>2, <1>7, <4>1
        <5>2. prev[n] # n  BY <1>3, <5>1
        <5>3. next'[prev[n]] = next[n]  BY <1>4, <5>1, <5>2
        <5> QED BY <1>9, <3>1, <4>1, <5>3
      <4>2. CASE prev[n] \notin Reach(next', x)
        <5>1. n \in Reach(next', x)  BY <3>1, <4>2
        <5> QED BY <1>11, <5>1
      <4> QED BY <4>1, <4>2
    <3>2. CASE y # n
      <4>1. y \in Reach(next', x) /\ y \in Node \ {n}  BY <1>7, <3>2
      <4>2. CASE y = prev[n]
        <5>1. next[y] = n /\ n \in T  BY <1>2, <4>1, <4>2
        <5> QED BY <5>1
      <4>3. CASE y # prev[n]
        <5>1. next'[y] = next[y]  BY <1>4, <4>1, <4>3
        <5> QED BY <1>9, <4>1, <5>1
      <4> QED BY <4>2, <4>3
    <3> QED BY <3>1, <3>2
  <2> HIDE DEF T
  <2> QED BY <2>1, <2>2, ReachLeast
<1>13. \A m \in Reach(next', x) : m \in Reach(next, x) /\ m # n  BY <1>11
<1>14. \A m \in Reach(next, x) : m # n => m \in Reach(next', x)  BY <1>12
<1> HIDE DEF S, T
<1> QED BY <1>13, <1>14
-----------------------------------------------------------------------------
(* The loop of del_tList_key.  The same operators over given fields, so     *)
(* that two states can be compared; AheadIn is what the loop has yet to     *)
(* delete when it is at x and has counted nn matches.                       *)
ListedIn(f, x)      == IF x = Null THEN {} ELSE Reach(f, x)
OrderIn(f, S)       == {xy \in S \X S : xy[2] \in Reach(f, xy[1])}
MatchesIn(f, g, x, k) == {m \in ListedIn(f, x) : g[m] = k}
UpToIn(f, g, m, x, k) == {y \in MatchesIn(f, g, x, k) : m \in Reach(f, y)}
AheadIn(f, g, x, k, no, nn) ==
  {m \in MatchesIn(f, g, x, k) : no = 0 \/ nn + Cardinality(UpToIn(f, g, m, x, k)) = no}

LEMMA SameOperators ==
  /\ \A x : Listed(x) = ListedIn(next, x) /\ Listed(x)' = ListedIn(next', x')
  /\ \A S : Order(S) = OrderIn(next, S)
  /\ \A x, k, no : Remaining(x, k, no) =
       OrderIn(next, ListedIn(next, x) \ {m \in MatchesIn(next, key, x, k) :
                       no \in {0, Cardinality(UpToIn(next, key, m, x, k))}})
BY DEF Listed, Order, Remaining, Victims, Matches, Which, ListedIn, OrderIn, MatchesIn, UpToIn

LEMMA CountedNodes ==
  ASSUME NEW S, S \subseteq Node
  PROVE  /\ IsFiniteSet(S) /\ Cardinality(S) \in Nat /\ Cardinality(S) <= Cardinality(Node)
         /\ Cardinality(Node) \in Nat
BY NodeAssumption, FS_Subset, FS_CardinalityType

(* A turn of the loop: the node it is at is to be deleted when it is a      *)
(* match, and the one asked for; what else is ahead stays so.               *)
LEMMA Turn ==
  ASSUME NEW f, Links(f), Open(f), NEW g, NEW x \in Node, NEW k, NEW no \in Nat, NEW nn \in Nat
  PROVE  LET hit == g[x] = k
             mm  == nn + (IF hit THEN 1 ELSE 0)
         IN  /\ x \in AheadIn(f, g, x, k, no, nn) <=> hit /\ no \in {0, nn + 1}
             /\ AheadIn(f, g, x, k, no, nn) \ {x} = AheadIn(f, g, f[x], k, no, mm)
<1> DEFINE hit == g[x] = k
           mm == nn + (IF hit THEN 1 ELSE 0)
           due == AheadIn(f, g, x, k, no, nn)
           B == AheadIn(f, g, f[x], k, no, mm)
           U(m) == UpToIn(f, g, m, x, k)
           V(m) == UpToIn(f, g, m, f[x], k)
           M == MatchesIn(f, g, x, k)
           N == MatchesIn(f, g, f[x], k)
<1>0. mm \in Nat /\ x # Null  BY NullAssumption
<1>1. M \subseteq Node /\ \A m : m \in M <=> m \in Reach(f, x) /\ g[m] = k
  BY <1>0 DEF MatchesIn, ListedIn, Reach
<1>2. x \in M <=> hit  BY <1>1, ReachStart
<1>3. \A m : m \in due <=> m \in M /\ (no = 0 \/ nn + Cardinality(U(m)) = no)
  BY DEF AheadIn
<1>4. \A m : m \in B <=> m \in N /\ (no = 0 \/ mm + Cardinality(V(m)) = no)
  BY DEF AheadIn
<1>5. \A m, y : y \in U(m) <=> y \in M /\ m \in Reach(f, y)  BY DEF UpToIn
<1>6. \A m, y : y \in V(m) <=> y \in N /\ m \in Reach(f, y)  BY DEF UpToIn
<1>7. CASE f[x] = Null
  <2>1. Reach(f, x) = {x}  BY <1>7, ReachEnd
  <2>2. N = {} /\ M \subseteq {x}  BY <1>1, <1>7, <2>1 DEF MatchesIn, ListedIn
  <2>3. due \ {x} = B  BY <1>3, <1>4, <2>2
  <2>4. hit => U(x) = {x}  BY <1>2, <1>5, <2>2, ReachStart
  <2>5. hit => Cardinality(U(x)) = 1  BY <2>4, FS_Singleton
  <2>6. x \in due <=> hit /\ (no = 0 \/ nn + 1 = no)  BY <1>2, <1>3, <2>5
  <2> QED BY <2>3, <2>6
<1>8. CASE f[x] # Null
  <2>1. f[x] \in Node /\ x \notin Reach(f, f[x]) /\ Reach(f, x) = {x} \cup Reach(f, f[x])
    BY <1>8, ReachSplit
  <2>2. \A m : m \in N <=> m \in Reach(f, f[x]) /\ g[m] = k
    BY <1>8 DEF MatchesIn, ListedIn
  <2>3. \A m : m \in N <=> m \in M /\ m # x  BY <1>1, <2>1, <2>2
  <2>4. \A y \in N : y \in Node /\ x \notin Reach(f, y)
    <3> TAKE y \in N
    <3>1. y \in Reach(f, f[x])  BY <2>2
    <3>2. y \in Node  BY <3>1 DEF Reach
    <3> QED BY <2>1, <3>1, <3>2, ReachTrans
  <2>5. hit => U(x) = {x}
    <3> SUFFICES ASSUME hit PROVE U(x) = {x}  OBVIOUS
    <3>1. x \in U(x)  BY <1>2, <1>5, ReachStart
    <3>2. \A y \in U(x) : y = x  BY <1>5, <2>3, <2>4
    <3> HIDE DEF U
    <3> QED BY <3>1, <3>2
  <2>6. hit => Cardinality(U(x)) = 1  BY <2>5, FS_Singleton
  <2>7. x \in due <=> hit /\ (no = 0 \/ nn + 1 = no)  BY <1>2, <1>3, <2>6
  <2>8. ASSUME NEW m \in N
        PROVE  nn + Cardinality(U(m)) = mm + Cardinality(V(m))
    <3>1. m \in Reach(f, x) /\ m # x  BY <1>1, <2>3
    <3>2. \A y : y \in U(m) <=> y \in V(m) \/ (y = x /\ hit)
      BY <1>2, <1>5, <1>6, <2>3, <3>1
    <3>3. x \notin V(m)  BY <1>6, <2>3
    <3>4. V(m) \subseteq Node  BY <1>1, <1>6, <2>3
    <3> HIDE DEF U, V
    <3>5. IsFiniteSet(V(m)) /\ Cardinality(V(m)) \in Nat  BY <3>4, CountedNodes
    <3>6. CASE hit
      <4>1. U(m) = V(m) \cup {x}  BY <3>2, <3>6
      <4>2. Cardinality(U(m)) = Cardinality(V(m)) + 1  BY <3>3, <3>5, <4>1, FS_AddElement
      <4> QED BY <3>5, <3>6, <4>2
    <3>7. CASE ~hit
      <4>1. U(m) = V(m)  BY <3>2, <3>7
      <4> QED BY <3>5, <3>7, <4>1
    <3> QED BY <3>6, <3>7
  <2> HIDE DEF U, V, mm, hit
  <2>9. \A m : m \in due \ {x} <=> m \in B
    <3> TAKE m
    <3>1. CASE m \in N  BY <1>3, <1>4, <2>3, <2>8, <3>1
    <3>2. CASE m \notin N  BY <1>3, <1>4, <2>3, <3>2
    <3> QED BY <3>1, <3>2
  <2>10. due \ {x} = B
    <3> HIDE DEF due, B
    <3> QED BY <2>9
  <2> QED BY <2>7, <2>10 DEF mm, hit
<1> QED BY <1>7, <1>8
-----------------------------------------------------------------------------
(* The invariant of the loop: the list from *pl on without what is ahead to *)
(* be deleted is what should be left, and the nodes not yet passed are      *)
(* enough for what may still be counted.                                    *)
Calls == [busy : BOOLEAN, at : Link, pl : Link, key : Key \cup {Null}, no : 0 .. 2,
          nn : Nat, top : BOOLEAN]

Counting ==
  /\ call.no # 0 => call.nn <= call.no /\ (call.at # Null => call.nn < call.no)
  /\ call.nn + Cardinality(ListedIn(next, call.at)) <= Cardinality(Node)

Leaving ==
  /\ call.at # Null => call.at \in ListedIn(next, call.pl)
  /\ call.pl # Null => call.pl \in heap /\ prev[call.pl] = Null
  /\ OrderIn(next, ListedIn(next, call.pl)
                     \ AheadIn(next, key, call.at, call.key, call.no, call.nn)) = want

InLoop == /\ call.at # Null => call.at \in heap
          /\ Counting
          /\ call.top => Leaving

Fields == /\ key \in [Node -> Key \cup {Null}] /\ call \in Calls
          /\ want \subseteq Node \X Node
          /\ ~call.busy => call = Idle

KInv == CInv /\ Fields /\ (call.busy => InLoop)

LEMMA InitKInv == Init => KInv
<1> SUFFICES ASSUME Init PROVE KInv
  OBVIOUS
<1>1. CInv  BY InitCInv
<1>2. call = Idle /\ call.busy = FALSE  BY DEF Init, Idle
<1>3. Idle \in Calls  BY DEF Idle, Calls, Link
<1> QED BY <1>1, <1>2, <1>3 DEF Init, KInv, Fields

(* The other calls do not run while the loop does. *)
LEMMA CallLeavesLoop ==
  ASSUME KInv, CallOne
  PROVE  UNCHANGED loop /\ key' \in [Node -> Key \cup {Null}]
<1> DEFINE K == [Node -> Key \cup {Null}]
<1>0. key \in K /\ Null \in Key \cup {Null}  BY DEF KInv, Fields
<1>1. ASSUME NEW n \in Node, NEW k \in Key, Fresh(n, k) PROVE key' \in K
  BY <1>0, <1>1 DEF Fresh
<1>2. ASSUME NEW S, Free(S) PROVE key' \in K
  BY <1>0, <1>2 DEF Free
<1>3. ASSUME NEW n \in Node, NEW k \in Key, NewNode(n, k) PROVE UNCHANGED loop /\ key' \in K
  BY <1>1, <1>3 DEF NewNode
<1>4. ASSUME NEW n \in Node, NEW k \in Key, NEW p \in Node, AddNode(p, n, k)
      PROVE  UNCHANGED loop /\ key' \in K
  BY <1>1, <1>4 DEF AddNode
<1>5. ASSUME NEW n \in Node, NEW k \in Key, NEW p \in Node, NEW new \in Key, Update(p, n, k, new)
      PROVE  UNCHANGED loop /\ key' \in K
  <2>1. (\E m \in heap : key' = [key EXCEPT ![m] = new]) => key' \in K  BY <1>0
  <2>2. Fresh(n, new) => key' \in K  BY <1>1
  <2> HIDE DEF K
  <2> QED BY <1>5, <2>1, <2>2 DEF Update
<1>6. ASSUME NEW n \in Node, DelNode(n) \/ DelList(n) \/ DelAll(n)
      PROVE  UNCHANGED loop /\ key' \in K
  BY <1>2, <1>6 DEF DelNode, DelList, DelAll
<1>7. ASSUME NEW n \in Node, Dup(n) PROVE UNCHANGED loop /\ key' \in K
  <2>1. PICK copy \in [Reach(next, n) -> Node \ heap] : DupOf(n, copy)
    BY <1>7 DEF Dup
  <2> DEFINE Orig(c) == CHOOSE m \in DOMAIN copy : copy[m] = c
             IsCopy(c) == \E m \in DOMAIN copy : copy[m] = c
             k2 == [c \in Node |-> IF IsCopy(c) THEN key[Orig(c)] ELSE key[c]]
  <2>2. DOMAIN copy \subseteq Node  BY DEF Reach
  <2>3. \A c : IsCopy(c) => Orig(c) \in DOMAIN copy  OBVIOUS
  <2>4. key' = k2  BY <2>1 DEF DupOf
  <2> HIDE DEF Orig, IsCopy
  <2>5. \A c \in Node : (IF IsCopy(c) THEN key[Orig(c)] ELSE key[c]) \in Key \cup {Null}
    BY <1>0, <2>2, <2>3
  <2>6. k2 \in K  BY <2>5
  <2> QED BY <1>7, <2>4, <2>6 DEF Dup
<1>8. ASSUME NEW p \in Node, NEW n \in Node, SwapNode(p, n) PROVE UNCHANGED loop /\ key' \in K
  BY <1>0, <1>8 DEF SwapNode
<1>9. ASSUME NEW p \in Node, NEW n \in Node, MoveNode(p, n) \/ Insert(p, n) \/ AddEnd(p, n)
      PROVE  UNCHANGED loop /\ key' \in K
  BY <1>0, <1>9 DEF MoveNode, Insert, AddEnd
<1> HIDE DEF K
<1>10. UNCHANGED loop /\ key' \in K
  BY <1>3, <1>4, <1>5, <1>6, <1>7, <1>8, <1>9 DEF CallOne
<1> QED BY <1>10 DEF K

LEMMA CallStep ==
  ASSUME KInv, CInv', ~call.busy, CallOne
  PROVE  KInv'
<1>1. call' = call /\ want' = want /\ key' \in [Node -> Key \cup {Null}]
  BY CallLeavesLoop DEF loop
<1> QED BY <1>1 DEF KInv, Fields

(* The call begins: all victims are ahead. *)
LEMMA DelKeyStep ==
  ASSUME KInv, CInv', ~call.busy, NEW n \in Node, NEW k \in Key, NEW no \in 0 .. 2, DelKey(n, k, no)
  PROVE  KInv'
<1>1. /\ CInv /\ key \in [Node -> Key \cup {Null}] /\ n \in heap
      /\ heap' = heap /\ next' = next /\ prev' = prev /\ key' = key
  BY DEF KInv, Fields, DelKey, links
<1>2. /\ call' \in Calls /\ call'.busy /\ call'.at = n /\ call'.pl = n /\ call'.key = k /\ call'.no = no
      /\ call'.nn = 0 /\ (call'.top => prev[n] = Null)
  BY DEF DelKey, Idle, Calls, Link
<1>3. n # Null /\ ListedIn(next, n) = Reach(next, n) /\ Reach(next, n) \subseteq Node
  BY NullAssumption DEF ListedIn, Reach
<1> DEFINE V == {m \in MatchesIn(next, key, n, k) : no \in {0, Cardinality(UpToIn(next, key, m, n, k))}}
           left == ListedIn(next, n) \ V
<1>4. want' = OrderIn(next, left)  BY SameOperators DEF DelKey
<1>5. want' \subseteq Node \X Node  BY <1>3, <1>4 DEF OrderIn
<1>6. V = AheadIn(next, key, n, k, no, 0)
  <2>1. \A m \in MatchesIn(next, key, n, k) : Cardinality(UpToIn(next, key, m, n, k)) \in Nat
    <3>1. \A m : UpToIn(next, key, m, n, k) \subseteq Node  BY <1>3 DEF UpToIn, MatchesIn
    <3> QED BY <3>1, CountedNodes
  <2> QED BY <2>1 DEF AheadIn
<1>7. Counting'
  <2>1. Cardinality(Reach(next, n)) \in Nat /\ Cardinality(Reach(next, n)) <= Cardinality(Node)
    BY <1>3, CountedNodes
  <2> QED BY <1>1, <1>2, <1>3, <2>1 DEF Counting
<1>8. call'.top => Leaving'
  <2>1. n \in ListedIn(next, n)  BY <1>3, ReachStart
  <2>2. OrderIn(next, ListedIn(next, n) \ AheadIn(next, key, n, k, no, 0)) = want'
    BY <1>4, <1>6
  <2> QED BY <1>1, <1>2, <2>1, <2>2 DEF Leaving
<1>9. InLoop'  BY <1>1, <1>2, <1>7, <1>8 DEF InLoop
<1> QED BY <1>1, <1>2, <1>5, <1>9 DEF KInv, Fields

(* The rest of the list is one node shorter. *)
LEMMA ListedBehind ==
  ASSUME NEW f, Links(f), Open(f), NEW x \in Node
  PROVE  /\ ListedIn(f, f[x]) = ListedIn(f, x) \ {x} /\ ListedIn(f, x) = Reach(f, x)
         /\ Cardinality(ListedIn(f, x)) \in Nat
         /\ Cardinality(ListedIn(f, f[x])) = Cardinality(ListedIn(f, x)) - 1
<1>1. ListedIn(f, x) = Reach(f, x)  BY NullAssumption DEF ListedIn
<1>2. ListedIn(f, f[x]) = Reach(f, x) \ {x}
  <2>1. CASE f[x] = Null  BY <2>1, ReachEnd DEF ListedIn
  <2>2. CASE f[x] # Null
    <3>1. x \notin Reach(f, f[x]) /\ Reach(f, x) = {x} \cup Reach(f, f[x])  BY <2>2, ReachSplit
    <3>2. ListedIn(f, f[x]) = Reach(f, f[x])  BY <2>2 DEF ListedIn
    <3> QED BY <3>1, <3>2
  <2> QED BY <2>1, <2>2
<1>3. Reach(f, x) \subseteq Node /\ x \in Reach(f, x)  BY ReachStart DEF Reach
<1>4. IsFiniteSet(Reach(f, x)) /\ Cardinality(Reach(f, x)) \in Nat  BY <1>3, CountedNodes
<1>5. Cardinality(Reach(f, x) \ {x}) = Cardinality(Reach(f, x)) - 1
  BY <1>3, <1>4, FS_RemoveElement
<1> QED BY <1>1, <1>2, <1>4, <1>5

(* What holds while the loop is at a node. *)
LEMMA AtNode ==
  ASSUME KInv, call.at # Null
  PROVE  /\ call.busy /\ call \in Calls /\ call.at \in heap /\ call.at \in Node
         /\ Links(next) /\ Open(next) /\ IInv /\ Counting /\ (call.top => Leaving)
<1>1. call.busy
  <2>1. Idle.at = Null  BY DEF Idle
  <2> QED BY <2>1 DEF KInv, Fields
<1> QED BY <1>1 DEF KInv, Fields, InLoop, CInv, IInv, Typed, Links

(* What a turn of the loop writes into its variables. *)
LEMMA TurnFields ==
  ASSUME NEW m \in Nat, NEW a \in Link, NEW p \in Link, call \in Calls,
         call' = [call EXCEPT !.nn = m, !.at = a, !.pl = p]
  PROVE  /\ call' \in Calls /\ call'.busy = call.busy /\ call'.at = a /\ call'.pl = p
         /\ call'.key = call.key /\ call'.no = call.no /\ call'.nn = m /\ call'.top = call.top
BY DEF Calls

(* The loop passes a node that stays. *)
LEMMA PassStep ==
  ASSUME KInv, CInv', DelKeyPass
  PROVE  KInv'
<1> DEFINE x  == call.at
           k  == call.key
           no == call.no
           mm == call.nn + (IF key[x] = k THEN 1 ELSE 0)
<1>1. x # Null /\ ~(key[x] = k /\ no \in {0, call.nn + 1})  BY DEF DelKeyPass, Hit
<1>2. /\ call.busy /\ call \in Calls /\ x \in heap /\ x \in Node
      /\ Links(next) /\ Open(next) /\ IInv /\ Counting /\ (call.top => Leaving)
  BY <1>1, AtNode
<1>3. heap' = heap /\ next' = next /\ prev' = prev /\ key' = key /\ want' = want
  BY DEF DelKeyPass, links
<1>4. next[x] \in Link /\ (next[x] # Null => next[x] \in heap)
  BY <1>2 DEF Links, IInv, LinksAgree
<1>5. no \in Nat /\ call.nn \in Nat /\ call.pl \in Link  BY <1>2 DEF Calls
<1>6. /\ call' \in Calls /\ call'.busy /\ call'.at = next[x] /\ call'.pl = call.pl /\ call'.key = k
      /\ call'.no = no /\ call'.nn = mm /\ call'.top = call.top
  <2>1. call' = [call EXCEPT !.nn = mm, !.at = next[x]]  BY DEF DelKeyPass, Hit
  <2>2. mm \in Nat  BY <1>5
  <2> HIDE DEF mm
  <2>3. call' = [call EXCEPT !.nn = mm, !.at = next[x], !.pl = call.pl]
    BY <1>2, <2>1 DEF Calls
  <2> HIDE DEF x
  <2> QED BY <1>2, <1>4, <1>5, <2>2, <2>3, TurnFields
<1>7. AheadIn(next, key, next[x], k, no, mm) = AheadIn(next, key, x, k, no, call.nn)
  <2>1. /\ x \in AheadIn(next, key, x, k, no, call.nn) <=> key[x] = k /\ no \in {0, call.nn + 1}
        /\ AheadIn(next, key, x, k, no, call.nn) \ {x} = AheadIn(next, key, next[x], k, no, mm)
    BY <1>2, <1>5, Turn
  <2> HIDE DEF x, k, no, mm
  <2> QED BY <1>1, <2>1
<1>8. Counting'
  <2>1. /\ Cardinality(ListedIn(next, x)) \in Nat
        /\ Cardinality(ListedIn(next, next[x])) = Cardinality(ListedIn(next, x)) - 1
        /\ Cardinality(Node) \in Nat
    BY <1>2, ListedBehind, CountedNodes
  <2>2. mm + Cardinality(ListedIn(next, next[x])) <= Cardinality(Node)
    BY <1>2, <1>5, <2>1 DEF Counting
  <2>3. no # 0 => mm < no
    BY <1>1, <1>2, <1>5 DEF Counting
  <2>4. no # 0 => mm <= no  BY <1>5, <2>3
  <2> HIDE DEF mm, x, k, no
  <2> QED BY <1>3, <1>6, <2>2, <2>3, <2>4 DEF Counting
<1>9. call.top => Leaving'
  <2> SUFFICES ASSUME call.top PROVE Leaving'  OBVIOUS
  <2>1. Leaving /\ x \in ListedIn(next, call.pl)  BY <1>1, <1>2 DEF Leaving
  <2>2. call.pl # Null /\ call.pl \in Node /\ x \in Reach(next, call.pl)
    BY <1>2, <2>1 DEF ListedIn, Calls, Link
  <2>3. next[x] # Null => next[x] \in ListedIn(next, call.pl)
    BY <1>2, <2>2, ReachClosed DEF ListedIn
  <2> HIDE DEF mm, k, no
  <2> QED BY <1>3, <1>6, <1>7, <2>1, <2>3 DEF Leaving, k, no
<1>10. InLoop'  BY <1>3, <1>4, <1>6, <1>8, <1>9 DEF InLoop
<1> HIDE DEF x, mm, k, no
<1> QED BY <1>3, <1>6, <1>10 DEF KInv, Fields

(* It takes the node it is at out of the list and frees it. *)
LEMMA DeleteStep ==
  ASSUME KInv, CInv', DelKeyDelete
  PROVE  KInv'
<1> DEFINE x  == call.at
           k  == call.key
           no == call.no
           mm == call.nn + 1
           at2 == IF no = 0 THEN next[x] ELSE Null
           pl2 == IF prev[x] = Null THEN next[x] ELSE call.pl
           due == AheadIn(next, key, x, k, no, call.nn)
           due2 == AheadIn(next', key', at2, k, no, mm)
<1>1. x # Null /\ key[x] = k /\ no \in {0, call.nn + 1}  BY DEF DelKeyDelete, Hit
<1>2. /\ call.busy /\ call \in Calls /\ x \in heap /\ x \in Node
      /\ Links(next) /\ Open(next) /\ IInv /\ Counting /\ (call.top => Leaving)
  BY <1>1, AtNode
<1>3. /\ Unlink(x) /\ heap' = heap \ {x} /\ want' = want
      /\ key' = [m \in Node |-> IF m \in {x} THEN Null ELSE key[m]]
  BY DEF DelKeyDelete, Free
<1>4. CInv /\ next \in [Node -> Link] /\ prev \in [Node -> Link] /\ key \in [Node -> Key \cup {Null}]
      /\ want \subseteq Node \X Node
  BY DEF KInv, Fields, CInv, IInv, Typed
<1>5. next[x] # x  BY <1>2, NoLoop
<1>6. next[x] \in Link /\ (next[x] # Null => next[x] \in heap')
  BY <1>2, <1>3, <1>5 DEF Links, IInv, LinksAgree
<1>7. no \in Nat /\ call.nn \in Nat /\ call.pl \in Link  BY <1>2 DEF Calls
<1>8. /\ call' \in Calls /\ call'.busy /\ call'.at = at2 /\ call'.pl = pl2 /\ call'.key = k
      /\ call'.no = no /\ call'.nn = mm /\ call'.top = call.top
  <2>1. call' = [call EXCEPT !.nn = mm, !.at = at2, !.pl = pl2]  BY DEF DelKeyDelete
  <2>2. mm \in Nat /\ at2 \in Link /\ pl2 \in Link  BY <1>6, <1>7 DEF Link
  <2> HIDE DEF mm, at2, pl2, x
  <2> QED BY <1>2, <2>1, <2>2, TurnFields
<1>9. \A y \in Node \ {x} : Reach(next', y) = Reach(next, y) \ {x}
  BY <1>2, <1>3, <1>4, UnlinkReach
<1>10. /\ ListedIn(next, next[x]) = ListedIn(next, x) \ {x} /\ ListedIn(next, x) = Reach(next, x)
       /\ Cardinality(ListedIn(next, x)) \in Nat
       /\ Cardinality(ListedIn(next, next[x])) = Cardinality(ListedIn(next, x)) - 1
  BY <1>2, ListedBehind
<1>11. ListedIn(next', next[x]) = ListedIn(next, x) \ {x}
  <2>1. CASE next[x] = Null  BY <1>10, <2>1 DEF ListedIn
  <2>2. CASE next[x] # Null
    <3>1. next[x] \in Node \ {x}  BY <1>5, <1>6, <2>2 DEF Link
    <3>2. ListedIn(next', next[x]) = Reach(next, next[x]) \ {x}  BY <1>9, <2>2, <3>1 DEF ListedIn
    <3>3. ListedIn(next, next[x]) = Reach(next, next[x])  BY <2>2 DEF ListedIn
    <3> QED BY <1>10, <3>2, <3>3
  <2> QED BY <2>1, <2>2
<1>12. /\ x \in due /\ due \ {x} = AheadIn(next, key, next[x], k, no, mm)
  <2>1. /\ x \in due <=> key[x] = k /\ no \in {0, call.nn + 1}
        /\ due \ {x} = AheadIn(next, key, next[x], k, no, call.nn + (IF key[x] = k THEN 1 ELSE 0))
    BY <1>2, <1>7, Turn
  <2> HIDE DEF due, x, k, no
  <2> QED BY <1>1, <2>1
<1> HIDE DEF due
<1>13. due2 = due \ {x}
  <2>1. CASE no = 0
    <3>1. due2 = MatchesIn(next', key', next[x], k)  BY <2>1 DEF AheadIn
    <3>2. due \ {x} = MatchesIn(next, key, next[x], k)  BY <1>12, <2>1 DEF AheadIn
    <3>3. \A m \in ListedIn(next, next[x]) : m \in Node /\ m # x
      BY <1>10 DEF Reach
    <3>4. \A m \in ListedIn(next, next[x]) : key'[m] = key[m]
      BY <1>3, <3>3
    <3>5. MatchesIn(next', key', next[x], k) = MatchesIn(next, key, next[x], k)
      BY <1>10, <1>11, <3>4 DEF MatchesIn
    <3> QED BY <3>1, <3>2, <3>5
  <2>2. CASE no # 0
    <3>1. due2 = {}  BY <2>2 DEF AheadIn, MatchesIn, ListedIn
    <3>2. ASSUME NEW m \in AheadIn(next, key, next[x], k, no, mm) PROVE FALSE
      <4> DEFINE U == UpToIn(next, key, m, next[x], k)
      <4>1. m \in MatchesIn(next, key, next[x], k) /\ mm + Cardinality(U) = no
        BY <2>2, <3>2 DEF AheadIn
      <4>2. no = mm  BY <1>1, <2>2
      <4>3. ListedIn(next, next[x]) \subseteq Node  BY <1>10 DEF Reach
      <4>4. m \in U  BY <4>1, <4>3, ReachStart DEF UpToIn, MatchesIn
      <4>5. U \subseteq Node  BY <4>3 DEF UpToIn, MatchesIn
      <4> HIDE DEF U, mm, no
      <4>6. IsFiniteSet(U) /\ Cardinality(U) \in Nat  BY <4>5, CountedNodes
      <4>7. Cardinality(U) # 0  BY <4>4, <4>6, FS_EmptySet
      <4> QED BY <1>7, <4>1, <4>2, <4>6, <4>7 DEF mm, no
    <3> HIDE DEF due2
    <3> QED BY <1>12, <3>1, <3>2
  <2> QED BY <2>1, <2>2
<1> HIDE DEF due2
<1>14. Counting'
  <2>1. Cardinality(Node) \in Nat  BY CountedNodes
  <2>2. Cardinality(ListedIn(next', at2)) \in Nat
        /\ Cardinality(ListedIn(next', at2)) <= Cardinality(ListedIn(next, x)) - 1
    <3>1. CASE no = 0
      <4>1. ListedIn(next', at2) = ListedIn(next, next[x])  BY <1>10, <1>11, <3>1
      <4>2. Cardinality(ListedIn(next, next[x])) \in Nat
        <5>1. ListedIn(next, next[x]) \subseteq Node  BY <1>10 DEF Reach
        <5> QED BY <5>1, CountedNodes
      <4> HIDE DEF at2, x
      <4> QED BY <1>10, <4>1, <4>2
    <3>2. CASE no # 0
      <4>1. ListedIn(next', at2) = {}  BY <3>2 DEF ListedIn
      <4>2. Cardinality(ListedIn(next', at2)) = 0  BY <4>1, FS_EmptySet
      <4>3. Cardinality(ListedIn(next, next[x])) \in Nat
        <5>1. ListedIn(next, next[x]) \subseteq Node  BY <1>10 DEF Reach
        <5> QED BY <5>1, CountedNodes
      <4> QED BY <1>10, <4>2, <4>3
    <3> QED BY <3>1, <3>2
  <2>3. call.nn + Cardinality(ListedIn(next, x)) <= Cardinality(Node)  BY <1>2 DEF Counting
  <2>4. mm + Cardinality(ListedIn(next', at2)) <= Cardinality(Node)
    <3> DEFINE c == Cardinality(ListedIn(next', at2))
               d == Cardinality(ListedIn(next, x))
    <3> HIDE DEF c, d
    <3>1. c \in Nat /\ c <= d - 1 /\ call.nn + d <= Cardinality(Node) /\ d \in Nat
      BY <1>10, <2>2, <2>3 DEF c, d
    <3> QED BY <1>7, <2>1, <3>1 DEF c
  <2>5. no # 0 => at2 = Null /\ mm <= no  BY <1>1, <1>7
  <2> HIDE DEF at2, mm, no
  <2> QED BY <1>8, <2>4, <2>5 DEF Counting
<1>15. call.top => Leaving'
  <2> SUFFICES ASSUME call.top PROVE Leaving'  OBVIOUS
  <2>1. Leaving /\ x \in ListedIn(next, call.pl)  BY <1>1, <1>2 DEF Leaving
  <2>2. /\ call.pl # Null /\ call.pl \in heap /\ call.pl \in Node /\ prev[call.pl] = Null
        /\ x \in Reach(next, call.pl) /\ ListedIn(next, call.pl) = Reach(next, call.pl)
    BY <1>2, <2>1 DEF ListedIn, Leaving, Calls, Link
  <2>3. prev[x] = Null <=> x = call.pl  BY <1>2, <2>2, FirstIsTop
  <2>4. ListedIn(next', pl2) = ListedIn(next, call.pl) \ {x}
    <3>1. CASE x = call.pl  BY <1>11, <2>3, <3>1
    <3>2. CASE x # call.pl
      <4>1. pl2 = call.pl  BY <2>3, <3>2
      <4> QED BY <1>9, <2>2, <3>2, <4>1 DEF ListedIn
    <3> QED BY <3>1, <3>2
  <2> DEFINE left == ListedIn(next, call.pl) \ due
  <2>5. ListedIn(next', pl2) \ due2 = left  BY <1>12, <1>13, <2>4
  <2>6. x \notin left /\ \A y \in left : y \in Node
    <3>1. \A y \in ListedIn(next, call.pl) : y \in Node  BY <2>2 DEF Reach
    <3> QED BY <1>12, <3>1
  <2> HIDE DEF left
  <2>7. OrderIn(next', left) = OrderIn(next, left)
    <3>1. \A y, z \in left : z \in Reach(next', y) <=> z \in Reach(next, y)
      BY <1>9, <2>6
    <3> QED BY <3>1 DEF OrderIn
  <2>8. OrderIn(next, left) = want  BY <2>1 DEF Leaving, left, due, x, k, no
  <2>9. at2 # Null => at2 \in ListedIn(next', pl2)
    <3> SUFFICES ASSUME at2 # Null PROVE at2 \in ListedIn(next', pl2)  OBVIOUS
    <3>1. at2 = next[x] /\ next[x] # Null  OBVIOUS
    <3>2. next[x] \in Reach(next, call.pl)  BY <1>2, <2>2, <3>1, ReachClosed
    <3> QED BY <1>5, <2>2, <2>4, <3>1, <3>2
  <2>10. pl2 # Null => pl2 \in heap' /\ prev'[pl2] = Null
    <3> SUFFICES ASSUME pl2 # Null PROVE pl2 \in heap' /\ prev'[pl2] = Null  OBVIOUS
    <3>1. CASE x = call.pl
      <4>1. pl2 = next[x] /\ prev[x] = Null  BY <2>3, <3>1
      <4>2. prev' = [Set(prev, next[x], prev[x]) EXCEPT ![x] = Null]  BY <1>3 DEF Unlink
      <4>3. pl2 \in Node  BY <1>6, <4>1 DEF Link
      <4>4. prev'[pl2] = Null  BY <1>4, <1>5, <4>1, <4>2, <4>3 DEF Set
      <4> QED BY <1>6, <4>1, <4>4
    <3>2. CASE x # call.pl
      <4>1. pl2 = call.pl  BY <2>3, <3>2
      <4>2. prev' = [Set(prev, next[x], prev[x]) EXCEPT ![x] = Null]  BY <1>3 DEF Unlink
      <4>3. next[x] # call.pl
        <5>1. next[x] # Null => prev[next[x]] = x  BY <1>2 DEF IInv, LinksAgree
        <5> QED BY <1>1, <2>2, <5>1
      <4>4. prev'[call.pl] = Null  BY <1>4, <2>2, <3>2, <4>2, <4>3 DEF Set
      <4> QED BY <1>3, <2>2, <3>2, <4>1, <4>4
    <3> QED BY <3>1, <3>2
  <2>11. OrderIn(next', ListedIn(next', pl2) \ due2) = want  BY <2>5, <2>7, <2>8
  <2>12. OrderIn(next', ListedIn(next', call'.pl)
                    \ AheadIn(next', key', call'.at, call'.key, call'.no, call'.nn)) = want'
    BY <1>3, <1>8, <2>11 DEF due2
  <2> HIDE DEF at2, pl2
  <2> QED BY <1>8, <2>9, <2>10, <2>12 DEF Leaving
<1>16. at2 # Null => at2 \in heap'  BY <1>6
<1> HIDE DEF at2, pl2, x, k, no, mm
<1>17. InLoop'  BY <1>8, <1>14, <1>15, <1>16 DEF InLoop
<1>18. key' \in [Node -> Key \cup {Null}]  BY <1>3, <1>4
<1> QED BY <1>3, <1>4, <1>8, <1>17, <1>18 DEF KInv, Fields

LEMMA NextKInv == KInv /\ [Next]_vars => KInv'
<1> SUFFICES ASSUME KInv, [Next]_vars PROVE KInv'
  OBVIOUS
<1>1. CInv'  BY NextCInv DEF KInv
<1>2. CASE ~call.busy /\ CallOne  BY <1>1, <1>2, CallStep
<1>3. ASSUME ~call.busy, NEW n \in Node, NEW k \in Key, NEW no \in 0 .. 2, DelKey(n, k, no)
      PROVE  KInv'
  BY <1>1, <1>3, DelKeyStep
<1>4. CASE DelKeyPass  BY <1>1, <1>4, PassStep
<1>5. CASE DelKeyDelete  BY <1>1, <1>5, DeleteStep
<1>6. CASE DelKeyReturn
  <2>1. call' = Idle /\ want' = {} /\ key' = key  BY <1>6 DEF DelKeyReturn
  <2>2. Idle \in Calls /\ Idle.busy = FALSE  BY DEF Idle, Calls, Link
  <2> QED BY <1>1, <2>1, <2>2 DEF KInv, Fields
<1>7. CASE UNCHANGED vars
  <2>1. heap' = heap /\ next' = next /\ prev' = prev /\ key' = key /\ call' = call /\ want' = want
    BY <1>7 DEF vars
  <2>2. KInv /\ call.busy => InLoop  BY DEF KInv
  <2>3. InLoop => InLoop'  BY <2>1 DEF InLoop, Counting, Leaving
  <2> QED BY <1>1, <2>1, <2>2, <2>3 DEF KInv, Fields
<1> QED BY <1>2, <1>3, <1>4, <1>5, <1>6, <1>7 DEF Next

(* Every field has its type: in particular the loop of del_tList_key counts *)
(* no further than the match it looks for, nor than there are nodes.        *)
THEOREM TypeCorrect == Spec => []TypeOK
<1>1. ASSUME KInv PROVE TypeOK
  <2>1. /\ heap \subseteq Node /\ next \in [Node -> Link] /\ prev \in [Node -> Link]
        /\ key \in [Node -> Key \cup {Null}] /\ want \subseteq Node \X Node /\ call \in Calls
    BY <1>1 DEF KInv, Fields, CInv, IInv, Typed
  <2>2. Cardinality(Node) \in Nat  BY CountedNodes
  <2>3. call.nn <= Cardinality(Node) /\ (call.no # 0 => call.nn <= call.no)
    <3>1. CASE ~call.busy
      <4>1. call.nn = 0 /\ call.no = 0  BY <1>1, <3>1 DEF KInv, Fields, Idle
      <4> QED BY <2>2, <4>1
    <3>2. CASE call.busy
      <4> DEFINE c == Cardinality(ListedIn(next, call.at))
      <4>1. call.nn + c <= Cardinality(Node) /\ (call.no # 0 => call.nn <= call.no)
        BY <1>1, <3>2 DEF KInv, InLoop, Counting
      <4>2. c \in Nat
        <5>1. ListedIn(next, call.at) \subseteq Node  BY DEF ListedIn, Reach
        <5> QED BY <5>1, CountedNodes
      <4>3. call.nn \in Nat  BY <2>1 DEF Calls
      <4> HIDE DEF c
      <4> QED BY <2>2, <4>1, <4>2, <4>3
    <3> QED BY <3>1, <3>2
  <2>4. call \in Call  BY <2>1, <2>2, <2>3 DEF Calls, Call
  <2> QED BY <2>1, <2>3, <2>4 DEF TypeOK
<1> QED BY <1>1, InitKInv, NextKInv, PTL DEF Spec

(* del_tList_key deletes the no-th match, or all of them, and nothing else, *)
(* keeps the order of the others, and leaves *pl at the top of what is      *)
(* left: for lists of any length, when it is called with a top.             *)
THEOREM KeyIsDeleted == Spec => []KeyDeleted
<1>1. ASSUME KInv, call.busy, call.at = Null, call.top
      PROVE  (call.pl # Null => prev[call.pl] = Null) /\ Order(Listed(call.pl)) = want
  <2>1. Leaving  BY <1>1 DEF KInv, InLoop
  <2>2. AheadIn(next, key, call.at, call.key, call.no, call.nn) = {}
    BY <1>1 DEF AheadIn, MatchesIn, ListedIn
  <2>3. OrderIn(next, ListedIn(next, call.pl)) = want  BY <2>1, <2>2 DEF Leaving
  <2> QED BY <2>1, <2>3, SameOperators DEF Leaving
<1>2. KInv => KeyDeleted  BY <1>1 DEF KeyDeleted
<1> QED BY <1>2, InitKInv, NextKInv, PTL DEF Spec
-----------------------------------------------------------------------------
(* The lists as sequences, for any fields f (next) and g (prev) of the      *)
(* nodes H that fit.                                                        *)
Well(H, f, g) == /\ H \subseteq Node /\ Links(f) /\ Links(g)
                 /\ Agree(H, f, g) /\ Open(f)

(* What holds of 1 and passes from each number to the next holds up to n.   *)
LEMMA Climb ==
  ASSUME NEW n \in Nat, NEW S, 1 \in S, \A i \in 1 .. n - 1 : i \in S => i + 1 \in S
  PROVE  \A i \in 1 .. n : i \in S
<1> DEFINE I == {i \in 1 .. n : i \notin S}
<1> SUFFICES ASSUME I # {} PROVE FALSE
  OBVIOUS
<1>1. I \in SUBSET Nat  OBVIOUS
<1> HIDE DEF I
<1>2. PICK m \in I : \A y \in I : ~(<<y, m>> \in OpToRel(<, Nat))
  BY <1>1, NatLessThanWellFounded, WFMin
<1>3. m \in 1 .. n /\ m \notin S /\ m # 1  BY DEF I
<1>4. m - 1 \in 1 .. n - 1 /\ m - 1 + 1 = m  BY <1>3
<1>5. m - 1 \in I  BY <1>3, <1>4 DEF I
<1>6. m - 1 \in Nat /\ m \in Nat /\ m - 1 < m  BY <1>3, <1>4
<1> QED BY <1>2, <1>5, <1>6 DEF OpToRel

(* How many nodes there are from x on. *)
Count(f, x) == Cardinality(Reach(f, x))

LEMMA CountNext ==
  ASSUME NEW f, Links(f), Open(f), NEW x \in Node
  PROVE  /\ Count(f, x) \in Nat /\ Count(f, x) >= 1
         /\ f[x] = Null => Count(f, x) = 1
         /\ f[x] # Null => f[x] \in Node /\ Count(f, f[x]) = Count(f, x) - 1
<1>1. /\ ListedIn(f, x) = Reach(f, x) /\ Cardinality(ListedIn(f, x)) \in Nat
      /\ Cardinality(ListedIn(f, f[x])) = Cardinality(ListedIn(f, x)) - 1
  BY ListedBehind
<1>2. CASE f[x] = Null
  <2>1. ListedIn(f, f[x]) = {}  BY <1>2 DEF ListedIn
  <2>2. Cardinality(ListedIn(f, f[x])) = 0  BY <2>1, FS_EmptySet
  <2> QED BY <1>1, <1>2, <2>2 DEF Count
<1>3. CASE f[x] # Null
  <2>1. f[x] \in Node  BY <1>3 DEF Links, Link
  <2>2. ListedIn(f, f[x]) = Reach(f, f[x])  BY <1>3 DEF ListedIn
  <2>3. Cardinality(Reach(f, f[x])) \in Nat  BY CountedNodes DEF Reach
  <2> QED BY <1>1, <1>3, <2>1, <2>2, <2>3 DEF Count
<1> QED BY <1>2, <1>3

(* There are fewer nodes from y on when y comes behind x. *)
LEMMA CountFalls ==
  ASSUME NEW f, Links(f), Open(f), NEW x \in Node, NEW y \in Reach(f, x)
  PROVE  y \in Node /\ Count(f, y) <= Count(f, x) /\ (y # x => Count(f, y) < Count(f, x))
<1>1. y \in Node  BY DEF Reach
<1>2. ASSUME NEW z \in Node, y \in Reach(f, z) PROVE Count(f, y) <= Count(f, z)
  <2>1. Reach(f, y) \subseteq Reach(f, z)  BY <1>1, <1>2, ReachTrans
  <2>2. IsFiniteSet(Reach(f, z))  BY CountedNodes DEF Reach
  <2> QED BY <2>1, <2>2, FS_Subset DEF Count
<1>3. CASE y = x  BY <1>1, <1>3, CountNext
<1>4. CASE y # x
  <2>1. f[x] # Null  BY <1>4, ReachEnd
  <2>2. f[x] \in Node /\ Count(f, f[x]) = Count(f, x) - 1  BY <2>1, CountNext
  <2>3. y \in Reach(f, f[x])  BY <1>4, <2>1, ReachNext
  <2>4. Count(f, y) <= Count(f, f[x])  BY <1>2, <2>2, <2>3
  <2>5. Count(f, y) \in Nat /\ Count(f, x) \in Nat  BY <1>1, CountNext
  <2> QED BY <1>1, <2>2, <2>4, <2>5
<1> QED BY <1>3, <1>4

(* All that is reached from n but n itself is next of something reached.    *)
LEMMA ReachedFrom ==
  ASSUME NEW f, Links(f), NEW n \in Node, NEW y \in Reach(f, n), y # n
  PROVE  \E z \in Reach(f, n) : f[z] = y
<1> SUFFICES ASSUME \A z \in Reach(f, n) : f[z] # y PROVE FALSE
  OBVIOUS
<1> DEFINE S == Reach(f, n) \ {y}
<1>1. S \in SUBSET Node /\ n \in S  BY ReachStart DEF Reach
<1>2. \A z \in S : f[z] \in S \cup {Null}  BY ReachClosed
<1>3. Reach(f, n) \subseteq S
  <2> HIDE DEF S
  <2> QED BY <1>1, <1>2, ReachLeast
<1> QED BY <1>3

(* The number of nodes from x on tells x among the nodes from n on, *)
LEMMA CountIsPlace ==
  ASSUME NEW f, Links(f), Open(f), NEW n \in Node,
         NEW x \in Reach(f, n), NEW y \in Reach(f, n), Count(f, x) = Count(f, y)
  PROVE  x = y
<1> DEFINE S == {u \in Reach(f, n) : \A v \in Reach(f, n) : Count(f, v) = Count(f, u) => v = u}
<1>1. S \in SUBSET Node  BY DEF Reach
<1>2. n \in S
  <2>1. n \in Reach(f, n)  BY ReachStart
  <2>2. \A v \in Reach(f, n) : v # n => Count(f, v) < Count(f, n) /\ v \in Node
    BY CountFalls
  <2>3. \A v \in Reach(f, n) : v # n => Count(f, v) # Count(f, n)
    BY <2>2, CountNext
  <2> QED BY <2>1, <2>3
<1>3. ASSUME NEW u \in S PROVE f[u] \in S \cup {Null}
  <2> SUFFICES ASSUME f[u] # Null PROVE f[u] \in S
    OBVIOUS
  <2>1. u \in Node /\ u \in Reach(f, n)  BY <1>1
  <2>2. f[u] \in Node /\ Count(f, f[u]) = Count(f, u) - 1 /\ Count(f, u) \in Nat
    BY <2>1, CountNext
  <2>3. f[u] \in Reach(f, n)  BY <2>1, ReachClosed
  <2>4. Count(f, u) <= Count(f, n) /\ Count(f, n) \in Nat  BY <2>1, CountFalls, CountNext
  <2>5. ASSUME NEW v \in Reach(f, n), Count(f, v) = Count(f, f[u]) PROVE v = f[u]
    <3>1. v # n  BY <2>2, <2>4, <2>5
    <3>2. PICK z \in Reach(f, n) : f[z] = v  BY <3>1, ReachedFrom
    <3>3. z \in Node /\ v \in Node  BY DEF Reach
    <3>4. Count(f, v) = Count(f, z) - 1 /\ Count(f, z) \in Nat
      BY <3>2, <3>3, NullAssumption, CountNext
    <3>5. Count(f, z) = Count(f, u)  BY <2>2, <2>5, <3>4
    <3>6. z = u  BY <3>5
    <3> QED BY <3>2, <3>6
  <2> QED BY <2>3, <2>5
<1>4. Reach(f, n) \subseteq S
  <2> HIDE DEF S
  <2> QED BY <1>1, <1>2, <1>3, ReachLeast
<1> QED BY <1>4

(* and each number up to that of n is taken. *)
LEMMA EachCount ==
  ASSUME NEW f, Links(f), Open(f), NEW n \in Node, NEW k \in 1 .. Count(f, n)
  PROVE  \E m \in Reach(f, n) : Count(f, m) = k
<1> DEFINE S == {m \in Reach(f, n) : Count(f, m) >= k}
<1>1. S \in SUBSET Node /\ n \in S
  <2>1. n \in Reach(f, n) /\ Count(f, n) \in Nat  BY ReachStart, CountNext
  <2> QED BY <2>1 DEF Reach
<1>2. PICK m \in S : f[m] \notin S
  <2> HIDE DEF S
  <2> QED BY <1>1, OpenAt
<1>3. m \in Node /\ m \in Reach(f, n) /\ Count(f, m) >= k /\ Count(f, m) \in Nat
  BY <1>1, CountNext
<1>4. CASE f[m] = Null
  <2>1. Count(f, m) = 1  BY <1>3, <1>4, CountNext
  <2> QED BY <1>3, <2>1
<1>5. CASE f[m] # Null
  <2>1. f[m] \in Reach(f, n)  BY <1>3, <1>5, ReachClosed
  <2>2. Count(f, f[m]) = Count(f, m) - 1  BY <1>3, <1>5, CountNext
  <2>3. ~(Count(f, f[m]) >= k)  BY <1>2, <2>1
  <2>4. Count(f, m) = k  BY <1>3, <2>2, <2>3
  <2> QED BY <1>3, <2>4
<1> QED BY <1>4, <1>5

(* l leads along f to an end. *)
Path(f, l) == /\ l \in Seq(Node) /\ l # <<>> /\ f[l[Len(l)]] = Null
              /\ \A i \in 1 .. Len(l) - 1 : f[l[i]] = l[i + 1]

LEMMA PathNodes ==
  ASSUME NEW f, NEW l, Path(f, l)
  PROVE  Len(l) \in Nat /\ Len(l) >= 1 /\ \A i \in 1 .. Len(l) : l[i] \in Node
<1>1. l \in Seq(Node) /\ l # <<>>  BY DEF Path
<1>2. Len(l) \in Nat /\ Len(l) # 0  BY <1>1, EmptySeq, LenProperties
<1> QED BY <1>1, <1>2, ElementOfSeq

(* The nodes of a path are what can be reached from its first one, each     *)
(* once, and its place tells how many are left.                             *)
LEMMA PathPlaces ==
  ASSUME NEW f, Links(f), Open(f), NEW l, Path(f, l)
  PROVE  \A i \in 1 .. Len(l) : l[i] \in Reach(f, l[1]) /\ Count(f, l[i]) = Len(l) - i + 1
<1> DEFINE n == Len(l)
<1>1. n \in Nat /\ n >= 1 /\ \A i \in 1 .. n : l[i] \in Node  BY PathNodes
<1>2. f[l[n]] = Null /\ \A i \in 1 .. n - 1 : f[l[i]] = l[i + 1]  BY DEF Path
<1> HIDE DEF n
<1>3. \A i \in 1 .. n : l[i] \in Reach(f, l[1])
  <2> DEFINE S == {i \in 1 .. n : l[i] \in Reach(f, l[1])}
  <2>1. 1 \in S  BY <1>1, ReachStart
  <2>2. ASSUME NEW i \in 1 .. n - 1, i \in S PROVE i + 1 \in S
    <3>1. f[l[i]] = l[i + 1] /\ l[i] \in Reach(f, l[1]) /\ i + 1 \in 1 .. n /\ 1 \in 1 .. n
      BY <1>1, <1>2, <2>2
    <3>2. f[l[i]] # Null /\ l[1] \in Node  BY <1>1, <3>1, NullAssumption
    <3> QED BY <3>1, <3>2, ReachClosed
  <2> HIDE DEF S
  <2>3. \A i \in 1 .. n : i \in S  BY <1>1, <2>1, <2>2, Climb
  <2> QED BY <2>3 DEF S
<1>4. \A j \in 1 .. n : Count(f, l[n - j + 1]) = j
  <2> DEFINE S == {j \in 1 .. n : Count(f, l[n - j + 1]) = j}
  <2>1. 1 \in S
    <3>1. n - 1 + 1 = n /\ l[n] \in Node /\ 1 \in 1 .. n  BY <1>1
    <3>2. Count(f, l[n]) = 1  BY <1>2, <3>1, CountNext
    <3> QED BY <3>1, <3>2
  <2>2. ASSUME NEW j \in 1 .. n - 1, j \in S PROVE j + 1 \in S
    <3> DEFINE i == n - j
    <3>1. /\ i \in 1 .. n - 1 /\ i \in 1 .. n /\ i + 1 \in 1 .. n /\ j + 1 \in 1 .. n
          /\ n - j + 1 = i + 1 /\ n - (j + 1) + 1 = i
      BY <1>1
    <3>2. Count(f, l[i + 1]) = j  BY <2>2, <3>1
    <3> HIDE DEF i
    <3>3. f[l[i]] = l[i + 1] /\ l[i] \in Node /\ l[i + 1] \in Node  BY <1>1, <1>2, <3>1
    <3>4. Count(f, l[i + 1]) = Count(f, l[i]) - 1 /\ Count(f, l[i]) \in Nat
      BY <3>3, NullAssumption, CountNext
    <3>5. Count(f, l[i]) = j + 1  BY <3>2, <3>4
    <3> QED BY <3>1, <3>5
  <2> HIDE DEF S
  <2>3. \A j \in 1 .. n : j \in S  BY <1>1, <2>1, <2>2, Climb
  <2> QED BY <2>3 DEF S
<1>5. ASSUME NEW i \in 1 .. n PROVE Count(f, l[i]) = n - i + 1
  <2>1. n - i + 1 \in 1 .. n /\ n - (n - i + 1) + 1 = i  BY <1>1
  <2> QED BY <1>4, <2>1
<1> QED BY <1>3, <1>5 DEF n

Nodes(l) == {l[i] : i \in 1 .. Len(l)}

LEMMA PathIsReach ==
  ASSUME NEW f, Links(f), Open(f), NEW l, Path(f, l)
  PROVE  Reach(f, l[1]) = Nodes(l)
<1>1. Len(l) \in Nat /\ Len(l) >= 1 /\ \A i \in 1 .. Len(l) : l[i] \in Node  BY PathNodes
<1>2. 1 \in 1 .. Len(l)  BY <1>1
<1> DEFINE S == Nodes(l)
<1>3. S \subseteq Reach(f, l[1])  BY PathPlaces DEF Nodes
<1>4. Reach(f, l[1]) \subseteq S
  <2>1. S \in SUBSET Node /\ l[1] \in S /\ l[1] \in Node  BY <1>1, <1>2 DEF Nodes
  <2>2. ASSUME NEW x \in S PROVE f[x] \in S \cup {Null}
    <3>1. PICK i \in 1 .. Len(l) : x = l[i]  BY DEF Nodes
    <3>2. CASE i = Len(l)  BY <3>1, <3>2 DEF Path
    <3>3. CASE i # Len(l)
      <4>1. i \in 1 .. Len(l) - 1 /\ i + 1 \in 1 .. Len(l)  BY <1>1, <3>3
      <4> QED BY <3>1, <4>1 DEF Path, Nodes
    <3> QED BY <3>2, <3>3
  <2> HIDE DEF S
  <2> QED BY <2>1, <2>2, ReachLeast
<1> QED BY <1>3, <1>4

LEMMA PathOnce ==
  ASSUME NEW f, Links(f), Open(f), NEW l, Path(f, l)
  PROVE  /\ Count(f, l[1]) = Len(l)
         /\ \A i, j \in 1 .. Len(l) : l[i] = l[j] => i = j
<1>1. Len(l) \in Nat /\ Len(l) >= 1  BY PathNodes
<1>2. 1 \in 1 .. Len(l)  BY <1>1
<1>3. Count(f, l[1]) = Len(l)  BY <1>1, <1>2, PathPlaces
<1>4. ASSUME NEW i \in 1 .. Len(l), NEW j \in 1 .. Len(l), l[i] = l[j] PROVE i = j
  <2>1. Len(l) - i + 1 = Len(l) - j + 1  BY <1>4, PathPlaces
  <2> QED BY <1>1, <2>1
<1> QED BY <1>3, <1>4

(* Along(f, n) is a path from n. *)
LEMMA AlongIsPath ==
  ASSUME NEW f, Links(f), Open(f), NEW n \in Node
  PROVE  Path(f, Along(f, n)) /\ Along(f, n)[1] = n
<1> DEFINE R == Reach(f, n)
           N == Cardinality(R)
           Goes(l) == l[1] = n /\ \A i \in DOMAIN l \ {1} : l[i] = f[l[i - 1]]
           w == [i \in 1 .. N |-> CHOOSE m \in R : Count(f, m) = N - i + 1]
           a == Along(f, n)
<1>1. /\ N \in Nat /\ N >= 1 /\ Count(f, n) = N /\ n \in R /\ R \subseteq Node
      /\ 1 \in 1 .. N /\ N \in 1 .. N
  <2>1. Count(f, n) \in Nat /\ Count(f, n) >= 1  BY CountNext
  <2>2. n \in R /\ R \subseteq Node  BY ReachStart DEF Reach
  <2>3. Count(f, n) = N  BY DEF Count
  <2> HIDE DEF N
  <2> QED BY <2>1, <2>2, <2>3
<1>2. ASSUME NEW i \in 1 .. N PROVE w[i] \in R /\ Count(f, w[i]) = N - i + 1
  <2>1. N - i + 1 \in 1 .. Count(f, n)
    <3> HIDE DEF N
    <3> QED BY <1>1
  <2>2. \E m \in R : Count(f, m) = N - i + 1  BY <2>1, EachCount
  <2> QED BY <2>2
<1>3. w \in [1 .. N -> R]  BY <1>2
<1> HIDE DEF w
<1>4. Goes(w)
  <2>1. w[1] = n
    <3>1. w[1] \in R /\ Count(f, w[1]) = Count(f, n)
      <4> HIDE DEF N, R
      <4> QED BY <1>1, <1>2
    <3> QED BY <1>1, <3>1, CountIsPlace
  <2>2. ASSUME NEW i \in 1 .. N \ {1} PROVE w[i] = f[w[i - 1]]
    <3> HIDE DEF N
    <3>1. i - 1 \in 1 .. N /\ i \in 1 .. N /\ N - (i - 1) + 1 # 1 /\ N - (i - 1) + 1 - 1 = N - i + 1
      BY <1>1
    <3>2. w[i - 1] \in R /\ w[i] \in R /\ w[i - 1] \in Node  BY <1>1, <1>2, <3>1
    <3>3. Count(f, w[i - 1]) = N - (i - 1) + 1 /\ Count(f, w[i]) = N - i + 1  BY <1>2, <3>1
    <3>4. f[w[i - 1]] # Null  BY <3>1, <3>2, <3>3, CountNext
    <3>5. Count(f, f[w[i - 1]]) = N - i + 1
      <4>1. Count(f, f[w[i - 1]]) = Count(f, w[i - 1]) - 1  BY <3>2, <3>4, CountNext
      <4> HIDE DEF w
      <4>2. Count(f, f[w[i - 1]]) = N - (i - 1) + 1 - 1  BY <1>1, <3>3, <4>1
      <4> QED BY <3>1, <4>2
    <3>6. f[w[i - 1]] \in R  BY <3>2, <3>4, ReachClosed
    <3> QED BY <3>2, <3>3, <3>5, <3>6, CountIsPlace
  <2>3. DOMAIN w = 1 .. N  BY <1>3
  <2> QED BY <2>1, <2>2, <2>3
<1>5. a \in [1 .. N -> R] /\ Goes(a)
  <2>1. a = CHOOSE l \in [1 .. N -> R] : Goes(l)  BY DEF Along
  <2> HIDE DEF a, N, R, Goes
  <2> QED BY <1>3, <1>4, <2>1
<1>6. a \in Seq(Node) /\ Len(a) = N /\ a # <<>> /\ DOMAIN a = 1 .. N
  <2> HIDE DEF a, N, R, Goes
  <2>1. a \in [1 .. N -> Node] /\ DOMAIN a = 1 .. N  BY <1>1, <1>5
  <2>2. a \in Seq(Node)  BY <1>1, <2>1, SeqDef
  <2>3. Len(a) = N  BY <1>1, <2>1, <2>2, LenProperties
  <2> QED BY <1>1, <2>1, <2>2, <2>3, EmptySeq
<1>7. a[1] = n /\ \A i \in 1 .. N \ {1} : a[i] = f[a[i - 1]]  BY <1>5, <1>6
<1>8. \A i \in 1 .. N : a[i] \in R /\ a[i] \in Node  BY <1>1, <1>5
<1> HIDE DEF a, N, R, Goes
<1>9. \A i \in 1 .. N - 1 : f[a[i]] = a[i + 1]
  <2>1. \A i \in 1 .. N - 1 : i + 1 \in 1 .. N \ {1} /\ i + 1 - 1 = i  BY <1>1
  <2> QED BY <1>7, <2>1
<1>10. \A i \in 1 .. N : Count(f, a[i]) = N - i + 1
  <2> DEFINE S == {i \in 1 .. N : Count(f, a[i]) = N - i + 1}
  <2>1. 1 \in S  BY <1>1, <1>7
  <2>2. ASSUME NEW i \in 1 .. N - 1, i \in S PROVE i + 1 \in S
    <3>1. i \in 1 .. N /\ i + 1 \in 1 .. N /\ N - i + 1 - 1 = N - (i + 1) + 1  BY <1>1
    <3>2. f[a[i]] = a[i + 1] /\ a[i] \in Node /\ a[i + 1] \in Node  BY <1>8, <1>9, <3>1
    <3>3. Count(f, a[i + 1]) = Count(f, a[i]) - 1  BY <3>2, NullAssumption, CountNext
    <3>4. Count(f, a[i]) = N - i + 1  BY <2>2
    <3>5. Count(f, a[i + 1]) = N - (i + 1) + 1  
      <4>1. Count(f, a[i + 1]) = N - i + 1 - 1  BY <1>1, <3>3, <3>4
      <4> QED BY <3>1, <4>1
    <3> QED BY <3>1, <3>5
  <2> HIDE DEF S
  <2>3. \A i \in 1 .. N : i \in S  BY <1>1, <2>1, <2>2, Climb
  <2> QED BY <2>3 DEF S
<1>11. f[a[N]] = Null
  <2>1. a[N] \in Node /\ Count(f, a[N]) = 1
    <3>1. N - N + 1 = 1  BY <1>1
    <3> QED BY <1>1, <1>8, <1>10, <3>1
  <2> SUFFICES ASSUME f[a[N]] # Null PROVE FALSE
    OBVIOUS
  <2>2. f[a[N]] \in Node /\ Count(f, f[a[N]]) = 0  BY <2>1, CountNext
  <2>3. Count(f, f[a[N]]) >= 1  BY <2>2, CountNext
  <2> QED BY <2>2, <2>3
<1>12. Path(f, a)  BY <1>6, <1>9, <1>11 DEF Path
<1> QED BY <1>7, <1>12 DEF a

LEMMA PathIsAlong ==
  ASSUME NEW f, Links(f), Open(f), NEW l, Path(f, l)
  PROVE  l[1] \in Node /\ l = Along(f, l[1])
<1> DEFINE a == Along(f, l[1])
<1>1. l \in Seq(Node) /\ Len(l) \in Nat /\ 1 \in 1 .. Len(l) /\ l[1] \in Node
  BY PathNodes DEF Path
<1>2. Path(f, a) /\ a[1] = l[1]  BY <1>1, AlongIsPath
<1> HIDE DEF a
<1>3. a \in Seq(Node)  BY <1>2 DEF Path
<1>4. Len(a) = Len(l)  BY <1>2, PathOnce
<1>5. ASSUME NEW i \in 1 .. Len(l) PROVE l[i] = a[i]
  <2>1. l[i] \in Reach(f, l[1]) /\ Count(f, l[i]) = Len(l) - i + 1  BY PathPlaces
  <2>2. a[i] \in Reach(f, l[1]) /\ Count(f, a[i]) = Len(l) - i + 1  BY <1>2, <1>4, PathPlaces
  <2> QED BY <1>1, <2>1, <2>2, CountIsPlace
<1>6. l = a  BY <1>1, <1>3, <1>4, <1>5, SeqEqual
<1> QED BY <1>1, <1>6 DEF a

-----------------------------------------------------------------------------
(* The lists of such nodes, as sequences. *)
ListsOf(H, f, g) == {Along(f, t) : t \in {n \in H : g[n] = Null}}

IsList(H, f, g, l) == Path(f, l) /\ g[l[1]] = Null /\ \A i \in 1 .. Len(l) : l[i] \in H

Covers(L, H) == \A n \in H : \E l \in L : \E i \in 1 .. Len(l) : l[i] = n

AreLists(H, f, g, L) == (\A l \in L : IsList(H, f, g, l)) /\ Covers(L, H)

Lined(H, f, g, L) ==
  /\ \A l \in L : IsList(H, f, g, l)
  /\ \A l \in L : \A i, j \in 1 .. Len(l) : l[i] = l[j] => i = j
  /\ \A l, m \in L : \A i \in 1 .. Len(l), j \in 1 .. Len(m) : l[i] = m[j] => l = m
  /\ Covers(L, H)

(* Every node is behind a top. *)
LEMMA TopOf ==
  ASSUME NEW H, NEW f, NEW g, Well(H, f, g), NEW n \in H
  PROVE  \E t \in H : g[t] = Null /\ n \in Reach(f, t)
<1>1. /\ n \in Node /\ Links(f) /\ Links(g) /\ Open(f) /\ H \in SUBSET Node
      /\ \A x \in Node : g[x] # Null => x \in H /\ g[x] \in H /\ f[g[x]] = x
  BY DEF Well, Agree
<1> DEFINE P == {x \in H : n \in Reach(f, x)}
<1>2. P \in SUBSET Node /\ n \in P  BY <1>1, ReachStart
<1> SUFFICES ASSUME \A t \in P : g[t] # Null PROVE FALSE
  OBVIOUS
<1>3. ASSUME NEW x \in P PROVE g[x] \in P /\ f[g[x]] = x
  <2>1. g[x] # Null /\ x \in Node /\ n \in Reach(f, x)  BY <1>2
  <2>2. g[x] \in H /\ g[x] \in Node /\ f[g[x]] = x /\ f[g[x]] # Null
    BY <1>1, <2>1, NullAssumption
  <2>3. x \in Reach(f, g[x])  BY <1>1, <2>2, ReachStart, ReachClosed
  <2> QED BY <1>1, <2>1, <2>2, <2>3, ReachTrans
<1> HIDE DEF P
<1> DEFINE h == [x \in P |-> g[x]]
<1>4. h \in Injection(P, P)  BY <1>3 DEF Injection, IsInjective
<1>5. IsFiniteSet(P)  BY <1>2, NodeAssumption, FS_Subset
<1>6. h \in Surjection(P, P)
  <2> HIDE DEF h
  <2> QED BY <1>4, <1>5, OntoItself
<1>7. \A y \in P : \E x \in P : g[x] = y  BY <1>6 DEF Surjection
<1>8. \A y \in P : f[y] \in P  BY <1>3, <1>7
<1> QED BY <1>1, <1>2, <1>8, OpenAt

(* What is behind a top is behind no other. *)
LEMMA OneTop ==
  ASSUME NEW H, NEW f, NEW g, Well(H, f, g), NEW t \in Node, NEW u \in Node,
         g[t] = Null, g[u] = Null, NEW x \in Reach(f, t), x \in Reach(f, u)
  PROVE  t = u
<1>1. Links(f) /\ \A y \in Node : f[y] # Null => g[f[y]] = y
  BY DEF Well, Agree
<1> DEFINE R == Reach(f, t)
           S == Node \ R
<1>2. ASSUME NEW y \in R, y # t PROVE \E z \in R : f[z] = y /\ g[y] = z /\ z \in Node /\ y \in Node
  <2>1. PICK z \in R : f[z] = y  BY <1>1, <1>2, ReachedFrom
  <2>2. z \in Node /\ y \in Node  BY DEF Reach
  <2> QED BY <1>1, <2>1, <2>2, NullAssumption
<1>3. u \in R
  <2> SUFFICES ASSUME u \notin R PROVE FALSE
    OBVIOUS
  <2>1. ASSUME NEW y \in S PROVE f[y] \in S \cup {Null}
    <3> SUFFICES ASSUME f[y] # Null, f[y] \in R PROVE FALSE
      BY <1>1 DEF Links, Link
    <3>1. g[f[y]] = y /\ y \in Node /\ y \notin R  BY <1>1
    <3>2. f[y] # t  BY <3>1, NullAssumption
    <3> QED BY <1>2, <3>1, <3>2
  <2>2. S \in SUBSET Node /\ u \in S  OBVIOUS
  <2>3. Reach(f, u) \subseteq S
    <3> HIDE DEF S
    <3> QED BY <2>1, <2>2, ReachLeast
  <2> QED BY <2>3
<1> QED BY <1>2, <1>3, NullAssumption

LEMMA ListsAreLined ==
  ASSUME NEW H, NEW f, NEW g, Well(H, f, g)
  PROVE  Lined(H, f, g, ListsOf(H, f, g))
<1> DEFINE L == ListsOf(H, f, g)
<1>1. /\ Links(f) /\ Open(f) /\ H \in SUBSET Node
      /\ \A x \in H : f[x] \in H \cup {Null}
  BY DEF Well, Agree
<1>2. ASSUME NEW t \in H
      PROVE  /\ t \in Node /\ Path(f, Along(f, t)) /\ Along(f, t)[1] = t
             /\ \A x : x \in Reach(f, t) <=> \E i \in 1 .. Len(Along(f, t)) : Along(f, t)[i] = x
             /\ Reach(f, t) \subseteq H
  <2>1. t \in Node  BY <1>1
  <2>2. Reach(f, t) \subseteq H  BY <1>1, <2>1, ReachLeast
  <2>3. Path(f, Along(f, t)) /\ Along(f, t)[1] = t  BY <1>1, <2>1, AlongIsPath
  <2>4. \A x : x \in Reach(f, t) <=> \E i \in 1 .. Len(Along(f, t)) : Along(f, t)[i] = x
    <3>1. Reach(f, Along(f, t)[1]) = Nodes(Along(f, t))  BY <1>1, <2>3, PathIsReach
    <3> QED BY <2>3, <3>1 DEF Nodes
  <2> QED BY <2>1, <2>2, <2>3, <2>4
<1>3. ASSUME NEW l \in L
      PROVE  /\ l = Along(f, l[1]) /\ l[1] \in H /\ l[1] \in Node /\ g[l[1]] = Null /\ Path(f, l)
             /\ \A i \in 1 .. Len(l) : l[i] \in Reach(f, l[1]) /\ l[i] \in H
  BY <1>2 DEF ListsOf
<1> HIDE DEF L
<1>4. \A l \in L : IsList(H, f, g, l)  BY <1>3 DEF IsList
<1>5. \A l \in L : \A i, j \in 1 .. Len(l) : l[i] = l[j] => i = j
  BY <1>1, <1>3, PathOnce
<1>6. ASSUME NEW l \in L, NEW m \in L, NEW i \in 1 .. Len(l), NEW j \in 1 .. Len(m), l[i] = m[j]
      PROVE  l = m
  <2>1. l[1] = m[1]  BY <1>3, <1>6, OneTop
  <2> QED BY <1>3, <2>1
<1>7. ASSUME NEW n \in H PROVE \E l \in L : \E i \in 1 .. Len(l) : l[i] = n
  <2>1. PICK t \in H : g[t] = Null /\ n \in Reach(f, t)  BY TopOf
  <2>2. Along(f, t) \in L  BY <2>1 DEF L, ListsOf
  <2> QED BY <1>2, <2>1, <2>2
<1> QED BY <1>4, <1>5, <1>6, <1>7 DEF Lined, Covers, L

(* Sequences that are lists of the fields, and hold every node, are all.    *)
LEMMA ListsBecome ==
  ASSUME NEW H, NEW f, NEW g, Well(H, f, g), NEW K, AreLists(H, f, g, K)
  PROVE  ListsOf(H, f, g) = K
<1> DEFINE L == ListsOf(H, f, g)
<1>1. Lined(H, f, g, L) /\ Links(f) /\ Open(f)  BY ListsAreLined DEF Well
<1>k. (\A l \in K : IsList(H, f, g, l)) /\ Covers(K, H)  BY DEF AreLists
<1>2. ASSUME NEW l \in K PROVE l \in L
  <2>1. Path(f, l) /\ g[l[1]] = Null /\ \A i \in 1 .. Len(l) : l[i] \in H  BY <1>k DEF IsList
  <2>2. 1 \in 1 .. Len(l)  BY <2>1, PathNodes
  <2>3. l = Along(f, l[1])  BY <1>1, <2>1, PathIsAlong
  <2> QED BY <2>1, <2>2, <2>3 DEF ListsOf
<1> HIDE DEF L
<1>3. ASSUME NEW l \in L PROVE l \in K
  <2>1. Path(f, l) /\ \A i \in 1 .. Len(l) : l[i] \in H  BY <1>1 DEF Lined, IsList
  <2>2. 1 \in 1 .. Len(l) /\ l[1] \in H  BY <2>1, PathNodes
  <2>3. PICK m \in K : \E i \in 1 .. Len(m) : m[i] = l[1]  BY <1>k, <2>2 DEF Covers
  <2>4. m \in L  BY <1>2
  <2>5. l = m  BY <1>1, <2>2, <2>3, <2>4 DEF Lined
  <2> QED BY <2>5
<1> QED BY <1>2, <1>3 DEF L

-----------------------------------------------------------------------------
(* What the promises speak of, when the lists are such: the list of a node  *)
(* and its place in it are the ones where it stands.                        *)
LEMMA InIs ==
  ASSUME NEW H, NEW f, NEW g, NEW L, Lined(H, f, g, L), NEW l \in L, NEW i \in 1 .. Len(l)
  PROVE  /\ A!In(L, l[i]) = l /\ A!Place(l, l[i]) = i
         /\ A!UpTo(l, l[i]) = SubSeq(l, 1, i) /\ A!From(l, l[i]) = SubSeq(l, i, Len(l))
         /\ A!ToSet(l) = {l[j] : j \in 1 .. Len(l)} /\ l \in Seq(Node)
<1> DEFINE n == l[i]
<1>1. ASSUME NEW m \in L
      PROVE  /\ m \in Seq(Node) /\ DOMAIN m = 1 .. Len(m)
             /\ A!ToSet(m) = {m[j] : j \in 1 .. Len(m)}
  <2>1. m \in Seq(Node)  BY DEF Lined, IsList, Path
  <2>2. DOMAIN m = 1 .. Len(m)  BY <2>1, LenProperties
  <2> QED BY <2>1, <2>2 DEF A!ToSet
<1>2. \A m \in L : n \in A!ToSet(m) <=> m = l
  <2>1. n \in A!ToSet(l)  BY <1>1
  <2>2. ASSUME NEW m \in L, n \in A!ToSet(m) PROVE m = l
    <3>1. PICK j \in 1 .. Len(m) : m[j] = l[i]  BY <1>1, <2>2
    <3> QED BY <3>1 DEF Lined
  <2> QED BY <2>1, <2>2
<1>3. \A j \in DOMAIN l : l[j] = n <=> j = i
  <2>1. DOMAIN l = 1 .. Len(l)  BY <1>1
  <2> QED BY <2>1 DEF Lined
<1>4. A!In(L, n) = l  BY <1>2 DEF A!In
<1>5. A!Place(l, n) = i
  <2>1. i \in DOMAIN l  BY <1>1
  <2> HIDE DEF n
  <2> QED BY <1>3, <2>1 DEF A!Place
<1> HIDE DEF n
<1>6. A!UpTo(l, n) = SubSeq(l, 1, i) /\ A!From(l, n) = SubSeq(l, i, Len(l))
  BY <1>5 DEF A!UpTo, A!From
<1> QED BY <1>1, <1>4, <1>5, <1>6 DEF n

(* The parts of a sequence. *)
LEMMA Part ==
  ASSUME NEW l \in Seq(Node), NEW i \in Nat, NEW j \in Nat, i <= j, j <= Len(l)
  PROVE  LET p == SubSeq(l, i + 1, j)
         IN  p \in Seq(Node) /\ Len(p) = j - i /\ \A k \in 1 .. j - i : p[k] = l[i + k]
<1> DEFINE p == SubSeq(l, i + 1, j)
<1>1. Len(l) \in Nat  BY LenProperties
<1>2. \A k \in i + 1 .. j : l[k] \in Node  BY <1>1, ElementOfSeq
<1>3. /\ p \in Seq(Node) /\ Len(p) = IF i + 1 <= j THEN j - (i + 1) + 1 ELSE 0
      /\ \A k \in 1 .. j - (i + 1) + 1 : p[k] = l[i + 1 + k - 1]
  BY <1>2, SubSeqProperties
<1> HIDE DEF p
<1>4. Len(p) = j - i  BY <1>3
<1>5. \A k \in 1 .. j - i : k \in 1 .. j - (i + 1) + 1 /\ i + 1 + k - 1 = i + k  BY <1>1
<1> QED BY <1>3, <1>4, <1>5 DEF p

LEMMA TailOfPart ==
  ASSUME NEW l \in Seq(Node), NEW i \in 1 .. Len(l)
  PROVE  Tail(SubSeq(l, i, Len(l))) = SubSeq(l, i + 1, Len(l))
BY LenProperties, HeadTailOfSubSeq

(* s put in behind place i of l. *)
Spliced(l, i, s) == SubSeq(l, 1, i) \o s \o SubSeq(l, i + 1, Len(l))

LEMMA SplicedIs ==
  ASSUME NEW l \in Seq(Node), NEW i \in 0 .. Len(l), NEW s \in Seq(Node)
  PROVE  LET z == Spliced(l, i, s)
         IN  /\ z \in Seq(Node) /\ Len(z) = Len(l) + Len(s)
             /\ \A k \in 1 .. i : z[k] = l[k]
             /\ \A k \in 1 .. Len(s) : z[i + k] = s[k]
             /\ \A k \in i + 1 .. Len(l) : z[Len(s) + k] = l[k]
<1> DEFINE a == SubSeq(l, 1, i)
           b == SubSeq(l, i + 1, Len(l))
           c == a \o s
           z == c \o b
<1>1. Len(l) \in Nat /\ Len(s) \in Nat /\ i \in Nat /\ i <= Len(l)  BY LenProperties
<1>2. a \in Seq(Node) /\ Len(a) = i /\ \A k \in 1 .. i : a[k] = l[k]
  <2> DEFINE p == SubSeq(l, 0 + 1, i)
  <2>1. p \in Seq(Node) /\ Len(p) = i - 0 /\ \A k \in 1 .. i - 0 : p[k] = l[0 + k]  BY <1>1, Part
  <2>2. p = a  OBVIOUS
  <2> HIDE DEF p, a
  <2> QED BY <1>1, <2>1, <2>2
<1>3. b \in Seq(Node) /\ Len(b) = Len(l) - i /\ \A k \in 1 .. Len(l) - i : b[k] = l[i + k]
  BY <1>1, Part
<1> HIDE DEF a, b
<1>4. /\ c \in Seq(Node) /\ Len(c) = i + Len(s)
      /\ \A k \in 1 .. i + Len(s) : c[k] = IF k <= i THEN a[k] ELSE s[k - i]
  BY <1>2, ConcatProperties
<1> HIDE DEF c
<1>5. /\ z \in Seq(Node) /\ Len(z) = Len(c) + Len(b)
      /\ \A k \in 1 .. Len(c) + Len(b) : z[k] = IF k <= Len(c) THEN c[k] ELSE b[k - Len(c)]
  BY <1>3, <1>4, ConcatProperties
<1> HIDE DEF z
<1>6. Len(z) = Len(l) + Len(s)  BY <1>1, <1>3, <1>4, <1>5
<1>7. ASSUME NEW k \in 1 .. i PROVE z[k] = l[k]
  <2>1. k \in 1 .. i + Len(s) /\ k \in 1 .. Len(c) + Len(b) /\ k <= Len(c) /\ k <= i
    BY <1>1, <1>3, <1>4
  <2> QED BY <1>2, <1>4, <1>5, <2>1
<1>8. ASSUME NEW k \in 1 .. Len(s) PROVE z[i + k] = s[k]
  <2>1. /\ i + k \in 1 .. i + Len(s) /\ i + k \in 1 .. Len(c) + Len(b) /\ i + k <= Len(c)
        /\ ~(i + k <= i) /\ i + k - i = k
    BY <1>1, <1>3, <1>4
  <2>2. z[i + k] = c[i + k] /\ c[i + k] = s[i + k - i]  BY <1>4, <1>5, <2>1
  <2> QED BY <2>1, <2>2
<1>9. ASSUME NEW k \in i + 1 .. Len(l) PROVE z[Len(s) + k] = l[k]
  <2>1. /\ Len(s) + k \in 1 .. Len(c) + Len(b) /\ ~(Len(s) + k <= Len(c))
        /\ Len(s) + k - Len(c) = k - i /\ k - i \in 1 .. Len(l) - i /\ i + (k - i) = k
    BY <1>1, <1>3, <1>4
  <2>2. z[Len(s) + k] = b[k - i] /\ b[k - i] = l[i + (k - i)]  BY <1>3, <1>5, <2>1
  <2> QED BY <2>1, <2>2
<1> QED BY <1>5, <1>6, <1>7, <1>8, <1>9 DEF Spliced, z, c, a, b
-----------------------------------------------------------------------------
(* How the lists change when the fields do.  Nodes s that are in no list    *)
(* are put in behind p.                                                     *)
LEMMA BehindLined ==
  ASSUME NEW H, NEW f, NEW g, NEW L, Lined(H, f, g, L), NEW p \in H,
         NEW s \in Seq(Node), Len(s) >= 1, \A i \in 1 .. Len(s) : s[i] \notin H,
         NEW H2, NEW f2, NEW g2,
         \A x : x \in H2 <=> x \in H \/ \E i \in 1 .. Len(s) : s[i] = x,
         f2[p] = s[1], f2[s[Len(s)]] = f[p], \A i \in 1 .. Len(s) - 1 : f2[s[i]] = s[i + 1],
         \A x \in H \ {p} : f2[x] = f[x], \A x \in H : g[x] = Null => g2[x] = Null
  PROVE  AreLists(H2, f2, g2, A!Behind(L, p, s))
<1>1. PICK l \in L : \E i \in 1 .. Len(l) : l[i] = p  BY DEF Lined, Covers
<1>2. PICK i \in 1 .. Len(l) : l[i] = p  BY <1>1
<1> DEFINE z == Spliced(l, i, s)
           K == (L \ {l}) \cup {z}
           n == Len(l)
           o == Len(s)
<1>3. A!Behind(L, p, s) = K
  <2>1. /\ A!In(L, p) = l /\ A!UpTo(l, p) = SubSeq(l, 1, i)
        /\ A!From(l, p) = SubSeq(l, i, Len(l)) /\ l \in Seq(Node)
    BY <1>2, InIs
  <2>2. Tail(A!From(l, p)) = SubSeq(l, i + 1, Len(l))  BY <2>1, TailOfPart
  <2> QED BY <2>1, <2>2 DEF A!Behind, Spliced
<1>4. /\ IsList(H, f, g, l) /\ l \in Seq(Node) /\ n \in Nat /\ o \in Nat /\ o >= 1 /\ i \in 1 .. n
      /\ f[l[n]] = Null /\ g[l[1]] = Null
      /\ \A k \in 1 .. n - 1 : f[l[k]] = l[k + 1]
      /\ \A k \in 1 .. n : l[k] \in H /\ (k # i => l[k] # p)
  BY <1>2, LenProperties DEF Lined, IsList, Path
<1>5. /\ z \in Seq(Node) /\ Len(z) = n + o
      /\ \A k \in 1 .. i : z[k] = l[k]
      /\ \A k \in 1 .. o : z[i + k] = s[k]
      /\ \A k \in i + 1 .. n : z[o + k] = l[k]
  <2>1. l \in Seq(Node) /\ i \in 0 .. n
    <3> HIDE DEF n
    <3> QED BY <1>4
  <2> QED BY <2>1, SplicedIs, Zenon
<1> HIDE DEF z
<1> HIDE DEF n, o
<1>e. \A k \in i + 1 .. i + o : k - i \in 1 .. o /\ z[k] = s[k - i]
  <2> TAKE k \in i + 1 .. i + o
  <2>1. k - i \in 1 .. o /\ i + (k - i) = k  BY <1>4
  <2>2. z[i + (k - i)] = s[k - i]  BY <1>5, <2>1
  <2> QED BY <2>1, <2>2
<1>f. \A k \in i + o + 1 .. n + o : k - o \in i + 1 .. n /\ z[k] = l[k - o]
  <2> TAKE k \in i + o + 1 .. n + o
  <2>1. k - o \in i + 1 .. n /\ o + (k - o) = k  BY <1>4
  <2>2. z[o + (k - o)] = l[k - o]  BY <1>5, <2>1
  <2> QED BY <2>1, <2>2
<1>6. IsList(H2, f2, g2, z)
  <2>1. ASSUME NEW k \in 1 .. n + o - 1 PROVE f2[z[k]] = z[k + 1]
    <3>1. CASE k < i
      <4>1. k \in 1 .. i /\ k + 1 \in 1 .. i /\ k \in 1 .. n /\ k # i /\ k \in 1 .. n - 1
        BY <1>4, <3>1
      <4>2. f2[l[k]] = f[l[k]]
        <5>1. l[k] \in H /\ l[k] # p  BY <1>4, <4>1
        <5> QED BY <5>1
      <4>3. f[l[k]] = l[k + 1]  BY <1>4, <4>1
      <4>4. z[k] = l[k]  BY <1>5, <4>1
      <4>5. z[k + 1] = l[k + 1]
        <5> DEFINE q == k + 1
        <5> HIDE DEF q
        <5>1. q \in 1 .. i  BY <4>1 DEF q
        <5>2. z[q] = l[q]  BY <1>5, <5>1
        <5> QED BY <5>2 DEF q
      <4> QED BY <4>2, <4>3, <4>4, <4>5
    <3>2. CASE k = i
      <4>1. k \in 1 .. i /\ 1 \in 1 .. o  BY <1>4, <3>2
      <4>2. z[i] = p /\ z[i + 1] = s[1]  BY <1>2, <1>5, <3>2, <4>1
      <4> QED BY <3>2, <4>2
    <3>3. CASE i < k /\ k < i + o
      <4>1. /\ k \in i + 1 .. i + o /\ k + 1 \in i + 1 .. i + o
            /\ k - i \in 1 .. o - 1 /\ k + 1 - i = k - i + 1
        BY <1>4, <3>3
      <4>2. z[k] = s[k - i] /\ z[k + 1] = s[k - i + 1]
        <5>1. z[k + 1] = s[k + 1 - i]  BY <1>e, <4>1
        <5> QED BY <1>e, <4>1, <5>1
      <4> QED BY <4>1, <4>2 DEF o
    <3>4. CASE k = i + o
      <4>1. /\ o \in 1 .. o /\ i + 1 \in i + 1 .. n /\ o + (i + 1) = k + 1 /\ i \in 1 .. n - 1
        BY <1>4, <3>4
      <4>2. z[k] = s[o] /\ z[k + 1] = l[i + 1]  BY <1>5, <3>4, <4>1
      <4> QED BY <1>2, <1>4, <4>1, <4>2 DEF o
    <3>5. CASE k > i + o
      <4>1. /\ k \in i + o + 1 .. n + o /\ k + 1 \in i + o + 1 .. n + o
            /\ k + 1 - o = k - o + 1 /\ k - o \in 1 .. n - 1 /\ k - o \in 1 .. n /\ k - o # i
        BY <1>4, <3>5
      <4>2. z[k] = l[k - o] /\ z[k + 1] = l[k - o + 1]
        <5> DEFINE q == k + 1
        <5> HIDE DEF q
        <5>1. q \in i + o + 1 .. n + o /\ q - o = k - o + 1  BY <1>4, <4>1 DEF q
        <5>2. z[q] = l[q - o]  BY <1>f, <5>1
        <5>3. z[k + 1] = l[k - o + 1]  BY <5>1, <5>2 DEF q
        <5> QED BY <1>f, <4>1, <5>3
      <4>3. f[l[k - o]] = l[k - o + 1] /\ l[k - o] \in H /\ l[k - o] # p  BY <1>4, <4>1
      <4> QED BY <4>2, <4>3
    <3> QED BY <1>4, <3>1, <3>2, <3>3, <3>4, <3>5
  <2>2. f2[z[n + o]] = Null
    <3>1. CASE i = n
      <4>1. o \in 1 .. o /\ i + o = n + o  BY <1>4, <3>1
      <4>2. z[n + o] = s[o]  BY <1>5, <4>1
      <4> QED BY <1>2, <1>4, <3>1, <4>2 DEF o
    <3>2. CASE i # n
      <4>1. n \in i + 1 .. n /\ o + n = n + o /\ n \in 1 .. n /\ n # i  BY <1>4, <3>2
      <4>2. z[n + o] = l[n]  BY <1>5, <4>1
      <4> QED BY <1>4, <4>1, <4>2
    <3> QED BY <3>1, <3>2
  <2>3. z[1] = l[1] /\ g2[z[1]] = Null
    <3>1. 1 \in 1 .. i /\ 1 \in 1 .. n  BY <1>4
    <3> QED BY <1>4, <1>5, <3>1
  <2>4. ASSUME NEW k \in 1 .. n + o PROVE z[k] \in H2
    <3>1. CASE k <= i
      <4>1. k \in 1 .. i /\ k \in 1 .. n  BY <1>4, <3>1
      <4> QED BY <1>4, <1>5, <4>1
    <3>2. CASE i < k /\ k <= i + o
      <4>1. k \in i + 1 .. i + o  BY <1>4, <3>2
      <4>2. k - i \in 1 .. o /\ z[k] = s[k - i]  BY <1>e, <4>1
      <4> QED BY <4>2 DEF o
    <3>3. CASE k > i + o
      <4>1. k \in i + o + 1 .. n + o /\ k - o \in 1 .. n  BY <1>4, <3>3
      <4>2. z[k] = l[k - o]  BY <1>f, <4>1
      <4> QED BY <1>4, <4>1, <4>2
    <3> QED BY <1>4, <3>1, <3>2, <3>3
  <2>5. z # <<>>
    <3>1. Len(z) # 0  BY <1>4, <1>5
    <3> QED BY <1>5, <3>1, EmptySeq
  <2>6. Path(f2, z)
    <3>1. \A k \in 1 .. Len(z) - 1 : f2[z[k]] = z[k + 1]  BY <1>4, <1>5, <2>1
    <3>2. f2[z[Len(z)]] = Null  BY <1>5, <2>2
    <3> QED BY <1>5, <2>5, <3>1, <3>2 DEF Path
  <2> QED BY <1>5, <2>3, <2>4, <2>6 DEF IsList
<1>7. ASSUME NEW m \in L \ {l} PROVE IsList(H2, f2, g2, m)
  <2>1. /\ m \in Seq(Node) /\ m # <<>> /\ f[m[Len(m)]] = Null /\ g[m[1]] = Null
        /\ \A k \in 1 .. Len(m) - 1 : f[m[k]] = m[k + 1]
        /\ \A k \in 1 .. Len(m) : m[k] \in H
    BY DEF Lined, IsList, Path
  <2>2. Len(m) \in Nat /\ Len(m) >= 1  BY <2>1, EmptySeq, LenProperties
  <2>3. \A k \in 1 .. Len(m) : m[k] # p  BY <1>2 DEF Lined
  <2>4. \A k \in 1 .. Len(m) : f2[m[k]] = f[m[k]]  BY <2>1, <2>3
  <2>5. \A k \in 1 .. Len(m) - 1 : k \in 1 .. Len(m)  BY <2>2
  <2>6. Len(m) \in 1 .. Len(m) /\ 1 \in 1 .. Len(m)  BY <2>2
  <2> QED BY <2>1, <2>4, <2>5, <2>6 DEF IsList, Path
<1>8. ASSUME NEW x \in H2 PROVE \E m \in K : \E k \in 1 .. Len(m) : m[k] = x
  <2>1. CASE x \in H
    <3>1. PICK m \in L : \E k \in 1 .. Len(m) : m[k] = x  BY <2>1 DEF Lined, Covers
    <3>2. CASE m = l
      <4>1. PICK k \in 1 .. n : l[k] = x  BY <3>1, <3>2 DEF n
      <4>2. CASE k <= i
        <5>1. k \in 1 .. i /\ k \in 1 .. n + o  BY <1>4, <4>2
        <5> QED BY <1>5, <4>1, <5>1
      <4>3. CASE k > i
        <5>1. k \in i + 1 .. n /\ o + k \in 1 .. n + o  BY <1>4, <4>3
        <5>2. z[o + k] = x  BY <1>5, <4>1, <5>1
        <5> QED BY <1>5, <5>1, <5>2
      <4> QED BY <1>4, <4>2, <4>3
    <3> QED BY <3>1, <3>2
  <2>2. CASE x \notin H
    <3>1. PICK k \in 1 .. o : s[k] = x  BY <2>2 DEF o
    <3>2. i + k \in 1 .. n + o  BY <1>4
    <3>3. z[i + k] = x  BY <1>5, <3>1
    <3> QED BY <1>5, <3>2, <3>3
  <2> QED BY <2>1, <2>2
<1> QED BY <1>3, <1>6, <1>7, <1>8 DEF AreLists, Covers
-----------------------------------------------------------------------------
(* l without what is at place i. *)
Dropped(l, i) == SubSeq(l, 1, i - 1) \o SubSeq(l, i + 1, Len(l))

LEMMA DroppedIs ==
  ASSUME NEW l \in Seq(Node), NEW i \in 1 .. Len(l)
  PROVE  LET z == Dropped(l, i)
         IN  /\ z \in Seq(Node) /\ Len(z) = Len(l) - 1
             /\ \A k \in 1 .. i - 1 : z[k] = l[k]
             /\ \A k \in i .. Len(l) - 1 : z[k] = l[k + 1]
<1> DEFINE a == SubSeq(l, 1, i - 1)
           b == SubSeq(l, i + 1, Len(l))
           z == a \o b
<1>1. Len(l) \in Nat /\ i \in Nat /\ i >= 1 /\ i <= Len(l) /\ i - 1 \in Nat /\ i - 1 <= Len(l)
  BY LenProperties
<1>2. a \in Seq(Node) /\ Len(a) = i - 1 /\ \A k \in 1 .. i - 1 : a[k] = l[k]
  <2> DEFINE p == SubSeq(l, 0 + 1, i - 1)
  <2>1. p \in Seq(Node) /\ Len(p) = i - 1 - 0 /\ \A k \in 1 .. i - 1 - 0 : p[k] = l[0 + k]
    BY <1>1, Part
  <2>2. p = a  OBVIOUS
  <2> HIDE DEF p, a
  <2> QED BY <1>1, <2>1, <2>2
<1>3. b \in Seq(Node) /\ Len(b) = Len(l) - i /\ \A k \in 1 .. Len(l) - i : b[k] = l[i + k]
  BY <1>1, Part
<1> HIDE DEF a, b
<1>4. /\ z \in Seq(Node) /\ Len(z) = Len(a) + Len(b)
      /\ \A k \in 1 .. Len(a) + Len(b) : z[k] = IF k <= Len(a) THEN a[k] ELSE b[k - Len(a)]
  BY <1>2, <1>3, ConcatProperties
<1> HIDE DEF z
<1>5. Len(z) = Len(l) - 1  BY <1>1, <1>2, <1>3, <1>4
<1>6. ASSUME NEW k \in 1 .. i - 1 PROVE z[k] = l[k]
  <2>1. k \in 1 .. Len(a) + Len(b) /\ k <= Len(a)  BY <1>1, <1>2, <1>3
  <2> QED BY <1>2, <1>4, <2>1
<1>7. ASSUME NEW k \in i .. Len(l) - 1 PROVE z[k] = l[k + 1]
  <2>1. /\ k \in 1 .. Len(a) + Len(b) /\ ~(k <= Len(a)) /\ k - Len(a) = k - i + 1
        /\ k - i + 1 \in 1 .. Len(l) - i /\ i + (k - i + 1) = k + 1
    BY <1>1, <1>2, <1>3
  <2>2. z[k] = b[k - i + 1] /\ b[k - i + 1] = l[i + (k - i + 1)]  BY <1>3, <1>4, <2>1
  <2> QED BY <2>1, <2>2
<1> QED BY <1>4, <1>5, <1>6, <1>7 DEF Dropped, z, a, b

(* What a list is, in one place. *)
LEMMA ListIs ==
  ASSUME NEW H, NEW f, NEW g, NEW L, Lined(H, f, g, L), NEW m \in L
  PROVE  /\ m \in Seq(Node) /\ Len(m) \in Nat /\ Len(m) >= 1
         /\ f[m[Len(m)]] = Null /\ g[m[1]] = Null
         /\ \A k \in 1 .. Len(m) - 1 : f[m[k]] = m[k + 1]
         /\ \A k \in 1 .. Len(m) : m[k] \in H
         /\ \A j, k \in 1 .. Len(m) : m[j] = m[k] => j = k
<1>1. /\ m \in Seq(Node) /\ m # <<>> /\ f[m[Len(m)]] = Null /\ g[m[1]] = Null
      /\ \A k \in 1 .. Len(m) - 1 : f[m[k]] = m[k + 1]
      /\ \A k \in 1 .. Len(m) : m[k] \in H
      /\ \A j, k \in 1 .. Len(m) : m[j] = m[k] => j = k
  BY DEF Lined, IsList, Path
<1>2. Len(m) \in Nat /\ Len(m) >= 1  BY <1>1, EmptySeq, LenProperties
<1> QED BY <1>1, <1>2

(* The node n is taken out. *)
LEMMA WithoutLined ==
  ASSUME NEW H, NEW f, NEW g, NEW L, Lined(H, f, g, L), NEW n \in H, Null \notin H,
         \A x \in H : f[x] # Null => g[f[x]] = x,
         NEW f2, NEW g2,
         \A x \in H \ {n} : f2[x] = IF f[x] = n THEN f[n] ELSE f[x],
         \A x \in H \ {n} : g2[x] = IF g[x] = n THEN g[n] ELSE g[x]
  PROVE  Lined(H \ {n}, f2, g2, A!Without(L, n))
<1>1. PICK l \in L : \E i \in 1 .. Len(l) : l[i] = n  BY DEF Lined, Covers
<1>2. PICK i \in 1 .. Len(l) : l[i] = n  BY <1>1
<1> DEFINE z == Dropped(l, i)
           K == (L \ {l}) \cup ({z} \ {<<>>})
           N == Len(l)
<1>3. A!Without(L, n) = K
  <2>1. /\ A!In(L, n) = l /\ A!Place(l, n) = i
        /\ A!From(l, n) = SubSeq(l, i, Len(l)) /\ l \in Seq(Node)
    BY <1>2, InIs
  <2>2. Tail(A!From(l, n)) = SubSeq(l, i + 1, Len(l))  BY <2>1, TailOfPart
  <2> QED BY <2>1, <2>2 DEF A!Without, Dropped
<1>4. /\ l \in Seq(Node) /\ N \in Nat /\ N >= 1 /\ i \in 1 .. N
      /\ f[l[N]] = Null /\ g[l[1]] = Null
      /\ \A k \in 1 .. N - 1 : f[l[k]] = l[k + 1]
      /\ \A k \in 1 .. N : l[k] \in H /\ (l[k] = n => k = i)
      /\ \A j, k \in 1 .. N : l[j] = l[k] => j = k
  BY <1>2, ListIs
<1>5. /\ z \in Seq(Node) /\ Len(z) = N - 1
      /\ \A k \in 1 .. i - 1 : z[k] = l[k]
      /\ \A k \in i .. N - 1 : z[k] = l[k + 1]
  BY <1>4, DroppedIs, Zenon
<1> HIDE DEF z, N
<1>6. \A k \in 1 .. N - 1 : /\ z[k] = l[IF k < i THEN k ELSE k + 1]
                            /\ (IF k < i THEN k ELSE k + 1) \in 1 .. N
                            /\ z[k] \in H \ {n}
  <2> TAKE k \in 1 .. N - 1
  <2>1. CASE k < i
    <3>1. k \in 1 .. i - 1 /\ k \in 1 .. N /\ k # i  BY <1>4, <2>1
    <3> QED BY <1>4, <1>5, <2>1, <3>1
  <2>2. CASE ~(k < i)
    <3>1. k \in i .. N - 1 /\ k + 1 \in 1 .. N /\ k + 1 # i  BY <1>4, <2>2
    <3> QED BY <1>4, <1>5, <2>2, <3>1
  <2> QED BY <2>1, <2>2
<1>7. \A x \in H \ {n} : (f[x] # n => f2[x] = f[x]) /\ (f[x] = n => f2[x] = f[n])
  OBVIOUS
<1>8. ASSUME z # <<>> PROVE IsList(H \ {n}, f2, g2, z)
  <2>1. N - 1 \in Nat /\ N - 1 >= 1
    <3>1. Len(z) # 0  BY <1>5, <1>8, EmptySeq
    <3> QED BY <1>4, <1>5, <3>1
  <2>2. ASSUME NEW k \in 1 .. N - 1 - 1 PROVE f2[z[k]] = z[k + 1]
    <3>0. k \in 1 .. N - 1 /\ k + 1 \in 1 .. N - 1  BY <2>1
    <3>1. CASE k + 1 < i
      <4>1. k \in 1 .. N - 1 /\ k + 1 \in 1 .. N /\ k < i /\ k + 1 # i  BY <1>4, <3>1
      <4>2. z[k] = l[k] /\ z[k + 1] = l[k + 1]  BY <1>6, <3>0, <3>1, <4>1
      <4>3. f[l[k]] = l[k + 1] /\ l[k + 1] # n  BY <1>4, <4>1
      <4> QED BY <1>6, <1>7, <3>0, <4>2, <4>3
    <3>2. CASE k + 1 = i
      <4>1. k < i /\ ~(k + 1 < i) /\ i \in 1 .. N - 1  BY <1>4, <2>1, <3>2
      <4>2. z[k] = l[k] /\ z[k + 1] = l[i + 1]  BY <1>6, <3>0, <3>2, <4>1
      <4>3. f[l[k]] = n /\ f[n] = l[i + 1]  BY <1>2, <1>4, <3>0, <3>2, <4>1
      <4> QED BY <1>6, <1>7, <3>0, <4>2, <4>3
    <3>3. CASE k + 1 > i
      <4>1. /\ ~(k < i) /\ ~(k + 1 < i) /\ k + 1 \in 1 .. N - 1 /\ k + 1 + 1 # i
            /\ k + 1 + 1 \in 1 .. N
        BY <1>4, <2>1, <3>3
      <4>2. z[k] = l[k + 1] /\ z[k + 1] = l[k + 1 + 1]  BY <1>6, <3>0, <4>1
      <4>3. f[l[k + 1]] = l[k + 1 + 1] /\ l[k + 1 + 1] # n  BY <1>4, <4>1
      <4> QED BY <1>6, <1>7, <3>0, <4>2, <4>3
    <3> QED BY <1>4, <2>1, <3>1, <3>2, <3>3
  <2>3. f2[z[N - 1]] = Null
    <3>0. N - 1 \in 1 .. N - 1  BY <2>1
    <3>1. CASE i = N
      <4>1. N - 1 < i /\ N - 1 + 1 = N  BY <1>4, <3>1
      <4>2. z[N - 1] = l[N - 1]  BY <1>6, <3>0, <4>1
      <4>3. f[l[N - 1]] = n /\ f[n] = Null  BY <1>2, <1>4, <3>0, <3>1, <4>1
      <4> QED BY <1>6, <1>7, <3>0, <4>2, <4>3
    <3>2. CASE i # N
      <4>1. ~(N - 1 < i) /\ N - 1 + 1 = N  BY <1>4, <3>2
      <4>2. z[N - 1] = l[N]  BY <1>6, <3>0, <4>1
      <4>3. f[l[N]] = Null /\ Null # n  BY <1>4
      <4> QED BY <1>6, <1>7, <3>0, <4>2, <4>3
    <3> QED BY <3>1, <3>2
  <2>4. g2[z[1]] = Null
    <3>0. 1 \in 1 .. N - 1 /\ z[1] \in H \ {n} /\ Null # n  BY <1>6, <2>1
    <3>1. CASE i = 1
      <4>1. z[1] = l[2] /\ f[l[1]] = l[2] /\ l[1] = n
        <5>1. ~(1 < i) /\ 1 + 1 = 2  BY <3>1
        <5> QED BY <1>2, <1>4, <1>6, <3>0, <3>1, <5>1
      <4>2. g[z[1]] = n  BY <3>0, <4>1
      <4> QED BY <1>4, <3>0, <4>1, <4>2
    <3>2. CASE i # 1
      <4>1. 1 < i  BY <1>4, <3>2
      <4>2. z[1] = l[1]  BY <1>6, <3>0, <4>1
      <4> QED BY <1>4, <3>0, <4>2
    <3> QED BY <3>1, <3>2
  <2>5. Path(f2, z)
    <3>1. \A k \in 1 .. Len(z) - 1 : f2[z[k]] = z[k + 1]  BY <1>4, <1>5, <2>2
    <3>2. f2[z[Len(z)]] = Null  BY <1>5, <2>3
    <3> QED BY <1>5, <1>8, <3>1, <3>2 DEF Path
  <2>6. \A k \in 1 .. Len(z) : z[k] \in H \ {n}  BY <1>5, <1>6
  <2> QED BY <2>4, <2>5, <2>6 DEF IsList
<1>9. ASSUME NEW m \in L \ {l} PROVE IsList(H \ {n}, f2, g2, m)
  <2>1. /\ m \in Seq(Node) /\ Len(m) \in Nat /\ Len(m) >= 1
        /\ f[m[Len(m)]] = Null /\ g[m[1]] = Null
        /\ \A k \in 1 .. Len(m) - 1 : f[m[k]] = m[k + 1]
        /\ \A k \in 1 .. Len(m) : m[k] \in H
    BY ListIs
  <2>2. \A k \in 1 .. Len(m) : m[k] \in H \ {n}  BY <1>2, <2>1 DEF Lined
  <2>3. /\ \A k \in 1 .. Len(m) - 1 : k \in 1 .. Len(m) /\ k + 1 \in 1 .. Len(m)
        /\ Len(m) \in 1 .. Len(m) /\ 1 \in 1 .. Len(m) /\ Null # n
    BY <2>1
  <2>4. \A k \in 1 .. Len(m) - 1 : f2[m[k]] = m[k + 1]  BY <2>1, <2>2, <2>3
  <2>5. f2[m[Len(m)]] = Null /\ g2[m[1]] = Null  BY <2>1, <2>2, <2>3
  <2>6. m # <<>>  BY <2>1
  <2> QED BY <2>1, <2>2, <2>4, <2>5, <2>6 DEF IsList, Path
<1>10. \A m \in K : IsList(H \ {n}, f2, g2, m)  BY <1>8, <1>9
<1>11. ASSUME NEW m \in K PROVE \A j, k \in 1 .. Len(m) : m[j] = m[k] => j = k
  <2>1. CASE m \in L  BY <2>1 DEF Lined
  <2>2. CASE m = z
    <3> SUFFICES ASSUME NEW j \in 1 .. N - 1, NEW k \in 1 .. N - 1, z[j] = z[k] PROVE j = k
      BY <1>5, <2>2
    <3> DEFINE a == IF j < i THEN j ELSE j + 1
               b == IF k < i THEN k ELSE k + 1
    <3>1. a \in 1 .. N /\ b \in 1 .. N /\ l[a] = l[b]  BY <1>6, <2>2
    <3> HIDE DEF a, b
    <3>2. a = b  BY <1>4, <3>1
    <3> QED BY <1>4, <3>2 DEF a, b
  <2> QED BY <2>1, <2>2
<1>12. ASSUME NEW m \in K, m \notin L, NEW k \in 1 .. Len(m)
       PROVE  \E j \in 1 .. N : l[j] = m[k]
  BY <1>5, <1>6, <1>12
<1>13. ASSUME NEW m \in K, NEW q \in K, NEW j \in 1 .. Len(m), NEW k \in 1 .. Len(q), m[j] = q[k]
       PROVE  m = q
  <2>1. CASE m \in L /\ q \in L  BY <1>13, <2>1 DEF Lined
  <2>2. CASE m \notin L /\ q \notin L  BY <2>2
  <2>3. ASSUME NEW x \in K, NEW y \in K, x \in L, y \notin L,
               NEW a \in 1 .. Len(x), NEW b \in 1 .. Len(y), x[a] = y[b]
        PROVE  x = l
    <3>1. PICK c \in 1 .. N : l[c] = y[b]  BY <1>12, <2>3
    <3> QED BY <2>3, <3>1 DEF Lined, N
  <2>4. CASE m \in L /\ q \notin L
    <3>1. m = l  BY <1>13, <2>3, <2>4
    <3>2. m = z  BY <2>4, <3>1
    <3> QED BY <2>4, <3>2
  <2>5. CASE q \in L /\ m \notin L
    <3>1. q = l  BY <1>13, <2>3, <2>5
    <3>2. q = z  BY <2>5, <3>1
    <3> QED BY <2>5, <3>2
  <2> QED BY <2>1, <2>2, <2>4, <2>5
<1>14. ASSUME NEW x \in H \ {n} PROVE \E m \in K : \E k \in 1 .. Len(m) : m[k] = x
  <2>1. PICK m \in L : \E k \in 1 .. Len(m) : m[k] = x  BY DEF Lined, Covers
  <2>2. CASE m = l
    <3>1. PICK k \in 1 .. N : l[k] = x  BY <2>1, <2>2 DEF N
    <3>2. k # i  BY <1>2, <3>1
    <3> DEFINE j == IF k < i THEN k ELSE k - 1
    <3>3. j \in 1 .. N - 1 /\ (IF j < i THEN j ELSE j + 1) = k  BY <1>4, <3>2
    <3> HIDE DEF j
    <3>4. z[j] = x  BY <1>6, <3>1, <3>3
    <3>5. z # <<>>
      <4>1. N - 1 # 0  BY <1>4, <3>3
      <4> QED BY <1>5, <4>1
    <3> QED BY <1>5, <3>3, <3>4, <3>5
  <2> QED BY <2>1, <2>2
<1>15. Covers(K, H \ {n})  BY <1>14 DEF Covers
<1>16. Lined(H \ {n}, f2, g2, K)
  <2> HIDE DEF K
  <2> QED BY <1>10, <1>11, <1>13, <1>15 DEF Lined
<1> QED BY <1>3, <1>16
-----------------------------------------------------------------------------
(* The fields of other nodes may change, *)
LEMMA StillList ==
  ASSUME NEW H, NEW f, NEW g, NEW L, Lined(H, f, g, L), NEW m \in L,
         NEW H2, NEW f2, NEW g2,
         \A k \in 1 .. Len(m) : /\ m[k] \in H2 /\ f2[m[k]] = f[m[k]]
                                /\ g[m[k]] = Null => g2[m[k]] = Null
  PROVE  IsList(H2, f2, g2, m)
<1>1. /\ m \in Seq(Node) /\ Len(m) \in Nat /\ Len(m) >= 1
      /\ f[m[Len(m)]] = Null /\ g[m[1]] = Null
      /\ \A k \in 1 .. Len(m) - 1 : f[m[k]] = m[k + 1]
  BY ListIs
<1>2. /\ \A k \in 1 .. Len(m) - 1 : k \in 1 .. Len(m)
      /\ Len(m) \in 1 .. Len(m) /\ 1 \in 1 .. Len(m)
  BY <1>1
<1>3. m # <<>>  BY <1>1
<1> QED BY <1>1, <1>2, <1>3 DEF IsList, Path

(* and a whole list may go. *)
LEMMA FewerLined ==
  ASSUME NEW H, NEW f, NEW g, NEW L, Lined(H, f, g, L), NEW l \in L,
         NEW H2, \A x : x \in H2 <=> x \in H /\ \A j \in 1 .. Len(l) : l[j] # x
  PROVE  Lined(H2, f, g, L \ {l})
<1> DEFINE K == L \ {l}
<1>1. ASSUME NEW m \in K PROVE IsList(H2, f, g, m)
  <2>1. \A k \in 1 .. Len(m) : m[k] \in H  BY ListIs
  <2>2. \A k \in 1 .. Len(m), j \in 1 .. Len(l) : m[k] # l[j]  BY DEF Lined
  <2>3. \A k \in 1 .. Len(m) : m[k] \in H2  BY <2>1, <2>2
  <2> QED BY <2>3, StillList
<1>2. ASSUME NEW x \in H2 PROVE \E m \in K : \E k \in 1 .. Len(m) : m[k] = x
  <2>1. PICK m \in L : \E k \in 1 .. Len(m) : m[k] = x  BY DEF Lined, Covers
  <2> QED BY <2>1
<1>3. Covers(K, H2)
  <2> HIDE DEF K
  <2> QED BY <1>2 DEF Covers
<1>4. /\ \A m \in K : \A i, j \in 1 .. Len(m) : m[i] = m[j] => i = j
      /\ \A m, q \in K : \A i \in 1 .. Len(m), j \in 1 .. Len(q) : m[i] = q[j] => m = q
  BY DEF Lined
<1> HIDE DEF K
<1>5. Lined(H2, f, g, K)  BY <1>1, <1>3, <1>4 DEF Lined
<1> QED BY <1>5 DEF K

(* From place i on, a list is a path, *)
LEMMA RestIsPath ==
  ASSUME NEW H, NEW f, NEW g, NEW L, Lined(H, f, g, L), Links(f), Open(f),
         NEW l \in L, NEW i \in 1 .. Len(l)
  PROVE  LET s == SubSeq(l, i, Len(l))
         IN  /\ Path(f, s) /\ Len(s) = Len(l) - i + 1
             /\ \A k \in 1 .. Len(l) - i + 1 : s[k] = l[i + k - 1]
<1> DEFINE s == SubSeq(l, i, Len(l))
           n == Len(l)
           o == n - i + 1
<1>1. /\ l \in Seq(Node) /\ n \in Nat /\ n >= 1 /\ f[l[n]] = Null
      /\ \A k \in 1 .. n - 1 : f[l[k]] = l[k + 1]
      /\ i \in 1 .. n
  BY ListIs
<1>2. s \in Seq(Node) /\ Len(s) = o /\ \A k \in 1 .. o : s[k] = l[i + k - 1]
  <2> DEFINE p == SubSeq(l, (i - 1) + 1, n)
  <2>1. i - 1 \in Nat /\ i - 1 <= n /\ (i - 1) + 1 = i /\ n - (i - 1) = o
    <3> HIDE DEF n
    <3> QED BY <1>1
  <2>2. /\ p \in Seq(Node) /\ Len(p) = n - (i - 1)
        /\ \A k \in 1 .. n - (i - 1) : p[k] = l[(i - 1) + k]
    <3> HIDE DEF n
    <3>1. n = Len(l)  BY DEF n
    <3> QED BY <1>1, <2>1, <3>1, Part
  <2>3. p = s  BY <2>1
  <2> HIDE DEF p, s, n, o
  <2>4. \A k \in 1 .. o : (i - 1) + k = i + k - 1  BY <1>1 DEF o
  <2> QED BY <2>1, <2>2, <2>3, <2>4
<1> HIDE DEF s, n
<1>3. o \in Nat /\ o >= 1  BY <1>1
<1>4. \A k \in 1 .. o - 1 : f[s[k]] = s[k + 1]
  <2> TAKE k \in 1 .. o - 1
  <2>1. k \in 1 .. o /\ k + 1 \in 1 .. o /\ i + k - 1 \in 1 .. n - 1 /\ i + (k + 1) - 1 = (i + k - 1) + 1
    BY <1>1, <1>3
  <2>2. s[k] = l[i + k - 1] /\ s[k + 1] = l[i + (k + 1) - 1]  BY <1>2, <2>1
  <2> HIDE DEF o
  <2> QED BY <1>1, <2>1, <2>2
<1>5. f[s[o]] = Null
  <2>1. o \in 1 .. o /\ i + o - 1 = n  BY <1>1, <1>3
  <2> HIDE DEF o
  <2> QED BY <1>1, <1>2, <2>1
<1> HIDE DEF o
<1>6. Path(f, s)
  <2>1. \A k \in 1 .. Len(s) - 1 : f[s[k]] = s[k + 1]  BY <1>2, <1>4
  <2>2. f[s[Len(s)]] = Null  BY <1>2, <1>5
  <2>3. s # <<>>  BY <1>2, <1>3
  <2> QED BY <1>2, <2>1, <2>2, <2>3 DEF Path
<1> QED BY <1>2, <1>6 DEF s, n, o

(* and it has what can be reached. *)
NodesFrom(l, i) == {l[j] : j \in i .. Len(l)}

LEMMA RestIsReach ==
  ASSUME NEW H, NEW f, NEW g, NEW L, Lined(H, f, g, L), Links(f), Open(f),
         NEW l \in L, NEW i \in 1 .. Len(l)
  PROVE  /\ Reach(f, l[i]) = NodesFrom(l, i)
         /\ A!ToSet(SubSeq(l, i, Len(l))) = Reach(f, l[i])
<1> DEFINE s == SubSeq(l, i, Len(l))
           n == Len(l)
           o == n - i + 1
<1>1. n \in Nat /\ n >= 1 /\ i \in 1 .. n
  BY ListIs
<1>2. Path(f, s) /\ Len(s) = o /\ \A k \in 1 .. o : s[k] = l[i + k - 1]
  BY RestIsPath
<1> HIDE DEF s, n
<1>3. o \in Nat /\ o >= 1 /\ s \in Seq(Node)  BY <1>1, <1>2 DEF Path
<1> HIDE DEF o
<1>7. s[1] = l[i]
  <2>1. 1 \in 1 .. o /\ i + 1 - 1 = i  BY <1>1, <1>3
  <2> QED BY <1>2, <2>1
<1>8. \A x : x \in Reach(f, l[i]) <=> \E k \in 1 .. Len(s) : s[k] = x
  <2>1. Path(f, s)  BY <1>2
  <2>2. Reach(f, s[1]) = Nodes(s)  BY <2>1, PathIsReach
  <2> QED BY <1>7, <2>2 DEF Nodes
<1>9. ASSUME NEW x PROVE (\E k \in 1 .. o : s[k] = x) <=> (\E j \in i .. n : l[j] = x)
  <2>1. ASSUME NEW k \in 1 .. o, s[k] = x PROVE \E j \in i .. n : l[j] = x
    <3>1. i + k - 1 \in i .. n  BY <1>1, <1>3 DEF o
    <3> QED BY <1>2, <2>1, <3>1
  <2>2. ASSUME NEW j \in i .. n, l[j] = x PROVE \E k \in 1 .. o : s[k] = x
    <3>1. j - i + 1 \in 1 .. o /\ i + (j - i + 1) - 1 = j  BY <1>1, <1>3 DEF o
    <3>2. s[j - i + 1] = l[i + (j - i + 1) - 1]  BY <1>2, <3>1
    <3> QED BY <2>2, <3>1, <3>2
  <2> QED BY <2>1, <2>2
<1>10. Reach(f, l[i]) = NodesFrom(l, i)
  <2>1. \A x : x \in Reach(f, l[i]) <=> \E j \in i .. n : l[j] = x  BY <1>2, <1>8, <1>9
  <2> QED BY <2>1 DEF NodesFrom, n
<1>11. A!ToSet(s) = Reach(f, l[i])
  <2>1. DOMAIN s = 1 .. Len(s)  BY <1>3, LenProperties
  <2> QED BY <1>8, <2>1 DEF A!ToSet
<1> QED BY <1>10, <1>11 DEF s, n

(* The end that can be reached is the last one. *)
LEMMA EndIsLast ==
  ASSUME NEW H, NEW f, NEW g, NEW L, Lined(H, f, g, L), Links(f), Open(f),
         NEW l \in L, NEW i \in 1 .. Len(l), NEW e \in Reach(f, l[i]), f[e] = Null
  PROVE  e = l[Len(l)] /\ A!Last(l) = e
<1>0. Reach(f, l[i]) = NodesFrom(l, i)  BY RestIsReach
<1>1. PICK j \in i .. Len(l) : l[j] = e  BY <1>0 DEF NodesFrom
<1>2. /\ l \in Seq(Node) /\ Len(l) \in Nat
      /\ \A k \in 1 .. Len(l) - 1 : f[l[k]] = l[k + 1]
      /\ \A k \in 1 .. Len(l) : l[k] \in Node
  BY ListIs, ElementOfSeq
<1>3. ASSUME j # Len(l) PROVE FALSE
  <2>1. j \in 1 .. Len(l) - 1 /\ j + 1 \in 1 .. Len(l)  BY <1>2, <1>3
  <2> QED BY <1>1, <1>2, <2>1, NullAssumption
<1> QED BY <1>1, <1>3 DEF A!Last

(* The list that begins with t. *)
LEMMA TopList ==
  ASSUME NEW H, NEW f, NEW g, Well(H, f, g), NEW t \in H, g[t] = Null
  PROVE  LET L == ListsOf(H, f, g)
             l == Along(f, t)
         IN  /\ l \in L /\ l[1] = t /\ Path(f, l) /\ A!In(L, t) = l
             /\ \A x : x \in Reach(f, t) <=> \E j \in 1 .. Len(l) : l[j] = x
<1> DEFINE L == ListsOf(H, f, g)
           l == Along(f, t)
<1>1. Lined(H, f, g, L) /\ Links(f) /\ Open(f) /\ t \in Node  BY ListsAreLined DEF Well
<1>2. Path(f, l) /\ l[1] = t  BY <1>1, AlongIsPath
<1>3. l \in L  BY DEF ListsOf
<1> HIDE DEF l, L
<1>4. 1 \in 1 .. Len(l)  BY <1>2, PathNodes
<1>5. A!In(L, t) = l  BY <1>1, <1>2, <1>3, <1>4, InIs
<1>6. \A x : x \in Reach(f, t) <=> \E j \in 1 .. Len(l) : l[j] = x
  <2>1. \A x : x \in Reach(f, l[1]) <=> \E j \in 1 .. Len(l) : l[j] = x
    <3>1. Reach(f, l[1]) = Nodes(l)  BY <1>1, <1>2, PathIsReach
    <3> QED BY <3>1 DEF Nodes
  <2> QED BY <1>2, <2>1
<1> QED BY <1>2, <1>3, <1>5, <1>6 DEF l, L

(* n, at place i, and all that is behind it go. *)
LEMMA CutLined ==
  ASSUME NEW H, NEW f, NEW g, NEW L, Lined(H, f, g, L), NEW l \in L, NEW i \in 1 .. Len(l),
         Null \notin H,
         NEW f2, NEW g2, NEW H2,
         \A x : x \in H2 <=> x \in H /\ \A j \in i .. Len(l) : l[j] # x,
         \A x \in H2 : f2[x] = (IF f[x] = l[i] THEN Null ELSE f[x]) /\ (g[x] = Null => g2[x] = Null)
  PROVE  AreLists(H2, f2, g2, (L \ {l}) \cup ({SubSeq(l, 1, i - 1)} \ {<<>>}))
<1> DEFINE z == SubSeq(l, 1, i - 1)
           K == (L \ {l}) \cup ({z} \ {<<>>})
           n == Len(l)
<1>1. /\ l \in Seq(Node) /\ n \in Nat /\ i \in 1 .. n /\ g[l[1]] = Null
      /\ \A k \in 1 .. n - 1 : f[l[k]] = l[k + 1]
      /\ \A k \in 1 .. n : l[k] \in H
      /\ \A j, k \in 1 .. n : l[j] = l[k] => j = k
  BY ListIs
<1>2. z \in Seq(Node) /\ Len(z) = i - 1 /\ \A k \in 1 .. i - 1 : z[k] = l[k]
  <2> DEFINE p == SubSeq(l, 0 + 1, i - 1)
  <2>1. i - 1 \in Nat /\ i - 1 <= Len(l) /\ i - 1 - 0 = i - 1 /\ \A k \in 1 .. i - 1 : 0 + k = k
    BY <1>1
  <2>2. p \in Seq(Node) /\ Len(p) = i - 1 - 0 /\ \A k \in 1 .. i - 1 - 0 : p[k] = l[0 + k]
    BY <1>1, <2>1, Part
  <2>3. p = z  OBVIOUS
  <2> HIDE DEF p, z
  <2> QED BY <2>1, <2>2, <2>3
<1> HIDE DEF z, n
<1>3. ASSUME NEW k \in 1 .. i - 1 PROVE z[k] = l[k] /\ l[k] \in H2 /\ k \in 1 .. n - 1
  <2>1. k \in 1 .. n /\ k \in 1 .. n - 1 /\ \A j \in i .. n : j \in 1 .. n /\ j # k  BY <1>1
  <2>2. \A j \in i .. n : l[k] # l[j]  BY <1>1, <2>1
  <2> QED BY <1>1, <1>2, <2>1, <2>2 DEF n
<1>4. ASSUME z # <<>> PROVE IsList(H2, f2, g2, z)
  <2>1. i - 1 \in 1 .. i - 1 /\ 1 \in 1 .. i - 1 /\ i - 1 + 1 = i
    <3>1. Len(z) # 0  BY <1>2, <1>4, EmptySeq
    <3> QED BY <1>1, <1>2, <3>1
  <2>2. ASSUME NEW k \in 1 .. i - 1 - 1 PROVE f2[z[k]] = z[k + 1]
    <3>1. k \in 1 .. i - 1 /\ k + 1 \in 1 .. i - 1 /\ k + 1 # i /\ k + 1 \in 1 .. n  BY <1>1
    <3>2. f[l[k]] = l[k + 1] /\ l[k + 1] # l[i] /\ l[k] \in H2  BY <1>1, <1>3, <3>1
    <3>3. f2[l[k]] = l[k + 1]  BY <3>2
    <3> QED BY <1>2, <3>1, <3>3
  <2>3. f2[z[i - 1]] = Null
    <3>1. f[l[i - 1]] = l[i] /\ l[i - 1] \in H2  BY <1>1, <1>3, <2>1
    <3>2. f2[l[i - 1]] = Null  BY <3>1
    <3> QED BY <1>2, <2>1, <3>2
  <2>4. g2[z[1]] = Null  BY <1>1, <1>3, <2>1
  <2>5. Path(f2, z)
    <3>1. \A k \in 1 .. Len(z) - 1 : f2[z[k]] = z[k + 1]  BY <1>1, <1>2, <2>2
    <3>2. f2[z[Len(z)]] = Null  BY <1>2, <2>3
    <3> QED BY <1>2, <1>4, <3>1, <3>2 DEF Path
  <2>6. \A k \in 1 .. Len(z) : z[k] \in H2  BY <1>2, <1>3
  <2> QED BY <2>4, <2>5, <2>6 DEF IsList
<1>5. ASSUME NEW m \in L \ {l} PROVE IsList(H2, f2, g2, m)
  <2>1. /\ Len(m) \in Nat /\ f[m[Len(m)]] = Null
        /\ \A k \in 1 .. Len(m) - 1 : f[m[k]] = m[k + 1]
        /\ \A k \in 1 .. Len(m) : m[k] \in H
    BY ListIs
  <2>2. \A k \in 1 .. Len(m), j \in 1 .. n : m[k] # l[j]  BY DEF Lined, n
  <2>3. \A j \in i .. n : j \in 1 .. n  BY <1>1
  <2>4. \A k \in 1 .. Len(m) : m[k] \in H2  BY <2>1, <2>2, <2>3 DEF n
  <2>5. ASSUME NEW k \in 1 .. Len(m) PROVE f[m[k]] # l[i]
    <3>1. CASE k = Len(m)  BY <1>1, <2>1, <3>1
    <3>2. CASE k # Len(m)
      <4>1. k \in 1 .. Len(m) - 1 /\ k + 1 \in 1 .. Len(m)  BY <2>1, <3>2
      <4> QED BY <1>1, <2>1, <2>2, <4>1
    <3> QED BY <3>1, <3>2
  <2>6. \A k \in 1 .. Len(m) : f2[m[k]] = f[m[k]] /\ (g[m[k]] = Null => g2[m[k]] = Null)
    BY <2>4, <2>5
  <2> QED BY <2>4, <2>6, StillList
<1>6. ASSUME NEW x \in H2 PROVE \E m \in K : \E k \in 1 .. Len(m) : m[k] = x
  <2>1. PICK m \in L : \E k \in 1 .. Len(m) : m[k] = x  BY DEF Lined, Covers
  <2>2. CASE m = l
    <3>1. PICK k \in 1 .. n : l[k] = x  BY <2>1, <2>2 DEF n
    <3>2. k \notin i .. n  BY <3>1 DEF n
    <3>3. k \in 1 .. i - 1  BY <1>1, <3>2
    <3>4. z[k] = x /\ k \in 1 .. Len(z) /\ z # <<>>
      <4>1. i - 1 # 0  BY <1>1, <3>3
      <4> QED BY <1>2, <3>1, <3>3, <4>1
    <3> QED BY <3>4
  <2> QED BY <2>1, <2>2
<1>7. Covers(K, H2)
  <2> HIDE DEF K
  <2> QED BY <1>6 DEF Covers
<1>8. \A m \in K : IsList(H2, f2, g2, m)  BY <1>4, <1>5
<1> QED BY <1>7, <1>8 DEF z, AreLists
-----------------------------------------------------------------------------
(* The calls.  The lists before a step and after it: *)
LEMMA ListsNow ==
  ASSUME CInv
  PROVE  /\ Well(heap, next, prev) /\ Lists = ListsOf(heap, next, prev)
         /\ Lined(heap, next, prev, Lists)
         /\ Links(next) /\ Links(prev) /\ Open(next) /\ heap \subseteq Node /\ Null \notin heap
         /\ \A x \in Node : /\ next[x] # Null => x \in heap /\ next[x] \in heap /\ prev[next[x]] = x
                            /\ prev[x] # Null => x \in heap /\ prev[x] \in heap /\ next[prev[x]] = x
<1>1. /\ Links(next) /\ Links(prev) /\ Open(next) /\ heap \subseteq Node
      /\ \A x \in Node : /\ next[x] # Null => x \in heap /\ next[x] \in heap /\ prev[next[x]] = x
                         /\ prev[x] # Null => x \in heap /\ prev[x] \in heap /\ next[prev[x]] = x
  BY DEF CInv, IInv, Typed, LinksAgree, Links
<1>2. Well(heap, next, prev)  BY <1>1 DEF Well, Agree
<1>3. Lists = ListsOf(heap, next, prev)  BY DEF Lists, ListsOf
<1>4. Lined(heap, next, prev, ListsOf(heap, next, prev))  BY <1>2, ListsAreLined
<1>5. Null \notin heap  BY <1>1, NullAssumption
<1> QED BY <1>1, <1>2, <1>3, <1>4, <1>5

LEMMA ListsThen ==
  ASSUME CInv', NEW K, AreLists(heap', next', prev', K)
  PROVE  Lists' = K
<1>1. /\ Links(next') /\ Links(prev') /\ Open(next') /\ heap' \subseteq Node
      /\ \A x \in Node : /\ next'[x] # Null => x \in heap' /\ next'[x] \in heap' /\ prev'[next'[x]] = x
                         /\ prev'[x] # Null => x \in heap' /\ prev'[x] \in heap' /\ next'[prev'[x]] = x
  BY DEF CInv, IInv, Typed, LinksAgree, Links
<1>2. Well(heap', next', prev')  BY <1>1 DEF Well, Agree
<1>3. Lists' = ListsOf(heap', next', prev')  BY DEF Lists, ListsOf
<1> QED BY <1>2, <1>3, ListsBecome

LEMMA NewNodeKeeps ==
  ASSUME CInv, CInv', NEW n \in Node, NEW k \in Key, NewNode(n, k)
  PROVE  A!NewNode(n, k)
<1>1. /\ n \notin heap /\ heap' = heap \cup {n} /\ next' = next /\ prev' = prev
      /\ key' = [key EXCEPT ![n] = k]
  BY DEF NewNode, Fresh
<1> DEFINE K == Lists \cup {<<n>>}
<1>2. \A l \in Lists : IsList(heap', next', prev', l)
  <2> SUFFICES ASSUME NEW l \in Lists PROVE IsList(heap', next', prev', l)
    OBVIOUS
  <2>1. IsList(heap, next, prev, l)  BY ListsNow DEF Lined
  <2> QED BY <1>1, <2>1 DEF IsList
<1>3. IsList(heap', next', prev', <<n>>)
  <2>1. next[n] = Null /\ prev[n] = Null  BY <1>1, ListsNow
  <2>2. <<n>> \in Seq(Node) /\ Len(<<n>>) = 1 /\ <<n>>[1] = n /\ <<n>> # <<>>  OBVIOUS
  <2>3. n \in heap'  BY <1>1
  <2> HIDE DEF K
  <2> QED BY <1>1, <2>1, <2>2, <2>3 DEF IsList, Path
<1>4. Covers(K, heap')
  <2> SUFFICES ASSUME NEW x \in heap' PROVE \E l \in K : \E i \in 1 .. Len(l) : l[i] = x
    BY DEF Covers
  <2>1. CASE x \in heap  BY <2>1, ListsNow DEF Lined, Covers
  <2>2. CASE x = n
    <3>1. 1 \in 1 .. Len(<<n>>) /\ <<n>>[1] = n  OBVIOUS
    <3> QED BY <2>2, <3>1
  <2> QED BY <1>1, <2>1, <2>2
<1>5. \A l \in K : IsList(heap', next', prev', l)  BY <1>2, <1>3
<1> HIDE DEF K
<1>6. Lists' = K  BY <1>4, <1>5, ListsThen DEF AreLists
<1> QED BY <1>1, <1>6 DEF A!NewNode, K

(* A new node is put in behind p. *)
LEMMA AddedBehind ==
  ASSUME CInv, CInv', NEW p \in heap, NEW n \in Node \ heap, heap' = heap \cup {n}, AddBehind(p, n)
  PROVE  Lists' = A!Behind(Lists, p, <<n>>)
<1>1. Lined(heap, next, prev, Lists) /\ p \in Node /\ next[n] = Null /\ p # n /\ n # Null
  BY ListsNow, NullAssumption
<1>2. \A x \in Node : next[x] # n /\ (next[p] = x => x = Null \/ prev[x] = p)  BY <1>1, ListsNow
<1>3. /\ \A m \in Node : next'[m] = IF m = p THEN n ELSE IF m = n THEN next[p] ELSE next[m]
      /\ \A m \in Node : prev'[m] = IF m = n THEN p ELSE IF m = next[p] THEN n ELSE prev[m]
  BY <1>1, <1>2, ListsNow, NullAssumption DEF AddBehind, Set, Links, Link
<1> DEFINE s == <<n>>
           K == A!Behind(Lists, p, s)
<1>4. s \in Seq(Node) /\ Len(s) = 1 /\ s[1] = n  OBVIOUS
<1> HIDE DEF s
<1>5. /\ Len(s) >= 1 /\ \A i \in 1 .. Len(s) : s[i] \notin heap
      /\ \A x : x \in heap' <=> x \in heap \/ \E i \in 1 .. Len(s) : s[i] = x
      /\ \A i \in 1 .. Len(s) - 1 : next'[s[i]] = s[i + 1]
  BY <1>4
<1>6. next'[p] = s[1] /\ next'[s[Len(s)]] = next[p]  BY <1>1, <1>3, <1>4
<1>7. heap \subseteq Node  BY ListsNow
<1>8. \A x \in heap \ {p} : next'[x] = next[x]  BY <1>3, <1>7
<1>9. \A x \in heap : prev[x] = Null => prev'[x] = Null
  <2> SUFFICES ASSUME NEW x \in heap, prev[x] = Null PROVE prev'[x] = Null  OBVIOUS
  <2>1. x # n /\ x \in Node /\ p # Null  BY <1>1, <1>7, ListsNow
  <2>2. x # next[p]  BY <1>2, <2>1, ListsNow
  <2> QED BY <1>3, <2>1, <2>2
<1> HIDE DEF K
<1>10. AreLists(heap', next', prev', K)
  BY <1>1, <1>4, <1>5, <1>6, <1>8, <1>9, BehindLined DEF K
<1>11. Lists' = K  BY <1>10, ListsThen
<1> QED BY <1>11 DEF K, s

LEMMA AddNodeKeeps ==
  ASSUME CInv, CInv', NEW p \in Node, NEW n \in Node, NEW k \in Key, AddNode(p, n, k)
  PROVE  A!AddNode(p, n, k)
<1>1. /\ p \in heap /\ n \in Node \ heap /\ heap' = heap \cup {n} /\ AddBehind(p, n)
      /\ key' = [key EXCEPT ![n] = k]
  BY DEF AddNode, Fresh
<1>2. Lists' = A!Behind(Lists, p, <<n>>)  BY <1>1, AddedBehind
<1> QED BY <1>1, <1>2 DEF A!AddNode

(* Where a node is, and what is from it on. *)
LEMMA WhereIs ==
  ASSUME CInv, NEW n \in heap
  PROVE  \E l \in Lists : \E i \in 1 .. Len(l) :
           /\ l[i] = n /\ A!In(Lists, n) = l /\ A!Place(l, n) = i /\ l \in Seq(Node)
           /\ A!From(l, n) = SubSeq(l, i, Len(l)) /\ A!ToSet(A!From(l, n)) = Reach(next, n)
           /\ \A e \in Reach(next, n) : next[e] = Null => A!Last(l) = e
<1>1. Lined(heap, next, prev, Lists) /\ Links(next) /\ Open(next)  BY ListsNow
<1>2. PICK l \in Lists : \E i \in 1 .. Len(l) : l[i] = n  BY <1>1 DEF Lined, Covers
<1>3. PICK i \in 1 .. Len(l) : l[i] = n  BY <1>2
<1>4. /\ A!In(Lists, n) = l /\ A!Place(l, n) = i /\ l \in Seq(Node)
      /\ A!From(l, n) = SubSeq(l, i, Len(l))
  BY <1>1, <1>3, InIs
<1>5. A!ToSet(SubSeq(l, i, Len(l))) = Reach(next, n)  BY <1>1, <1>3, RestIsReach
<1>6. \A e \in Reach(next, n) : next[e] = Null => A!Last(l) = e  BY <1>1, <1>3, EndIsLast
<1> QED BY <1>3, <1>4, <1>5, <1>6

(* Nothing changes but the data. *)
LEMMA SameLists ==
  ASSUME UNCHANGED links
  PROVE  Lists' = Lists
BY DEF links, Lists, Along, Reach

LEMMA UpdateKeeps ==
  ASSUME CInv, CInv', NEW p \in Node, NEW n \in Node, NEW k \in Key, NEW new \in Key,
         Update(p, n, k, new)
  PROVE  A!Update(p, n, k, new)
<1>1. p \in heap /\ Lined(heap, next, prev, Lists) /\ Links(next) /\ Open(next)
  BY ListsNow DEF Update
<1>2. PICK l \in Lists : \E i \in 1 .. Len(l) :
        /\ l[i] = p /\ A!In(Lists, p) = l /\ A!Place(l, p) = i /\ l \in Seq(Node)
        /\ \A e \in Reach(next, p) : next[e] = Null => A!Last(l) = e
  BY <1>1, WhereIs
<1> DEFINE i == A!Place(l, p)
           hits == {j \in i .. Len(l) : key[l[j]] = k}
<1>3. i \in 1 .. Len(l) /\ l[i] = p /\ Len(l) \in Nat  BY <1>2
<1>4. ASSUME NEW j \in i .. Len(l) PROVE Reach(next, l[j]) = {l[q] : q \in j .. Len(l)}
  <2>1. j \in 1 .. Len(l)  BY <1>3
  <2> QED BY <1>1, <2>1, RestIsReach DEF NodesFrom
<1>5. Reach(next, p) = {l[q] : q \in i .. Len(l)}
  <2>1. i \in i .. Len(l)  BY <1>3
  <2> QED BY <1>3, <1>4, <2>1
<1>6. \A q, j \in 1 .. Len(l) : l[q] = l[j] => q = j  BY <1>1 DEF Lined
<1> HIDE DEF i
<1>7. A!Update(p, n, k, new) <=>
        IF hits = {} THEN A!AddNode(A!Last(l), n, new)
        ELSE /\ UNCHANGED Lists
             /\ \E j \in hits : (\A q \in hits : j <= q) /\ key' = [key EXCEPT ![l[j]] = new]
  BY <1>2 DEF A!Update, i
<1>8. CASE (\E m \in heap : Finds(p, k, m) /\ key' = [key EXCEPT ![m] = new]) /\ UNCHANGED links
  <2>1. Lists' = Lists  BY <1>8, SameLists
  <2>2. PICK m \in heap : Finds(p, k, m) /\ key' = [key EXCEPT ![m] = new]  BY <1>8
  <2>3. PICK j \in i .. Len(l) : l[j] = m  BY <1>5, <2>2 DEF Finds
  <2>4. j \in hits  BY <2>2, <2>3 DEF Finds
  <2>5. ASSUME NEW q \in hits PROVE j <= q
    <3>1. q \in i .. Len(l) /\ key[l[q]] = k /\ l[q] \in Reach(next, p)  BY <1>5
    <3>2. l[q] \in Reach(next, l[j])  BY <2>2, <2>3, <3>1 DEF Finds
    <3>3. PICK x \in j .. Len(l) : l[q] = l[x]  BY <1>4, <3>2
    <3>4. q = x  BY <1>3, <1>6, <3>1, <3>3
    <3> QED BY <1>3, <3>3, <3>4
  <2> HIDE DEF hits
  <2> QED BY <1>7, <2>1, <2>2, <2>3, <2>4, <2>5
<1>9. CASE /\ \A m \in Reach(next, p) : key[m] # k
           /\ Fresh(n, new)
           /\ \E e \in heap : IsEnd(p, e) /\ AddBehind(e, n)
  <2>1. PICK e \in heap : IsEnd(p, e) /\ AddBehind(e, n)  BY <1>9
  <2>2. A!Last(l) = e  BY <1>2, <2>1 DEF IsEnd
  <2>3. n \in Node \ heap /\ heap' = heap \cup {n} /\ key' = [key EXCEPT ![n] = new]  BY <1>9 DEF Fresh
  <2>4. Lists' = A!Behind(Lists, e, <<n>>)  BY <2>1, <2>3, AddedBehind
  <2>5. A!AddNode(e, n, new)  BY <2>3, <2>4 DEF A!AddNode
  <2>6. hits = {}  BY <1>9, <1>5
  <2> HIDE DEF hits
  <2> QED BY <1>7, <2>2, <2>5, <2>6
<1> QED BY <1>8, <1>9 DEF Update
-----------------------------------------------------------------------------
LEMMA DelNodeKeeps ==
  ASSUME CInv, CInv', DOMAIN key = Node, NEW n \in Node, DelNode(n)
  PROVE  A!DelNode(n)
<1>1. n \in heap /\ Unlink(n) /\ heap' = heap \ {n}
      /\ key' = [x \in Node |-> IF x \in {n} THEN Null ELSE key[x]]
  BY DEF DelNode, Free
<1>2. /\ Lined(heap, next, prev, Lists) /\ Null \notin heap /\ heap \subseteq Node
      /\ \A x \in heap : next[x] # Null => prev[next[x]] = x
      /\ \A x \in Node : (x = prev[n] <=> next[x] = n) /\ (x = next[n] <=> prev[x] = n)
  BY <1>1, ListsNow, NullAssumption
<1>3. /\ \A x \in Node : next'[x] = IF x = n THEN Null ELSE IF x = prev[n] THEN next[n] ELSE next[x]
      /\ \A x \in Node : prev'[x] = IF x = n THEN Null ELSE IF x = next[n] THEN prev[n] ELSE prev[x]
  BY <1>1, ListsNow, NullAssumption DEF Unlink, Set, Links, Link
<1>4. \A x \in heap \ {n} : next'[x] = IF next[x] = n THEN next[n] ELSE next[x]  BY <1>2, <1>3
<1>5. \A x \in heap \ {n} : prev'[x] = IF prev[x] = n THEN prev[n] ELSE prev[x]  BY <1>2, <1>3
<1>6. Lined(heap \ {n}, next', prev', A!Without(Lists, n))
  BY <1>1, <1>2, <1>4, <1>5, WithoutLined
<1>7. AreLists(heap', next', prev', A!Without(Lists, n))  BY <1>1, <1>6 DEF Lined, AreLists
<1>8. Lists' = A!Without(Lists, n)  BY <1>7, ListsThen
<1> QED BY <1>1, <1>8 DEF A!DelNode, A!Forget

LEMMA SwapNodeKeeps ==
  ASSUME NEW p \in Node, NEW n \in Node, SwapNode(p, n)
  PROVE  A!SwapNode(p, n)
<1>1. UNCHANGED links /\ key' = [key EXCEPT ![p] = key[n], ![n] = key[p]]  BY DEF SwapNode
<1>2. Lists' = Lists  BY <1>1, SameLists
<1> QED BY <1>1, <1>2 DEF A!SwapNode

LEMMA MoveNodeKeeps ==
  ASSUME CInv, CInv', NEW p \in Node, NEW n \in Node, MoveNode(p, n)
  PROVE  A!MoveNode(p, n)
<1> DEFINE nx == Set(next, prev[n], next[n])
           pv == Set(prev, next[n], prev[n])
           H  == heap \ {n}
           K  == A!Without(Lists, n)
           s  == <<n>>
           M  == A!Behind(K, p, s)
<1>1. /\ p \in heap /\ n \in heap /\ p # n /\ heap' = heap /\ key' = key
      /\ next' = [nx EXCEPT ![n] = nx[p], ![p] = n]
      /\ prev' = Set([pv EXCEPT ![n] = p], nx[p], n)
  BY DEF MoveNode
<1>2. /\ Lined(heap, next, prev, Lists) /\ Null \notin heap /\ heap \subseteq Node
      /\ \A x \in heap : next[x] # Null => prev[next[x]] = x
      /\ \A x \in Node : (x = prev[n] <=> next[x] = n) /\ (x = next[n] <=> prev[x] = n)
  BY <1>1, ListsNow, NullAssumption
<1>3. /\ nx \in [Node -> Link] /\ pv \in [Node -> Link]
      /\ \A x \in Node : nx[x] = IF x = prev[n] THEN next[n] ELSE next[x]
      /\ \A x \in Node : pv[x] = IF x = next[n] THEN prev[n] ELSE prev[x]
  BY <1>1, ListsNow, NullAssumption DEF Set, Links, Link
<1> HIDE DEF nx, pv
<1>4. \A x \in heap \ {n} : nx[x] = IF next[x] = n THEN next[n] ELSE next[x]  BY <1>2, <1>3
<1>5. \A x \in heap \ {n} : pv[x] = IF prev[x] = n THEN prev[n] ELSE prev[x]  BY <1>2, <1>3
<1>6. Lined(H, nx, pv, K)
  BY <1>1, <1>2, <1>4, <1>5, WithoutLined
<1>7. next[n] # n /\ prev[n] # n /\ \A x \in H : nx[p] = x => pv[x] = p
  <2>1. next[n] # n  BY <1>1, <1>2, ListsNow, NoLoop
  <2>2. prev[n] # n  BY <1>1, <1>2, <2>1
  <2> QED BY <1>1, <1>2, <1>3, <2>1, <2>2, ListsNow
<1>8. nx[p] # n  BY <1>1, <1>2, <1>3, <1>7
<1>9. /\ \A x \in Node : next'[x] = IF x = p THEN n ELSE IF x = n THEN nx[p] ELSE nx[x]
      /\ \A x \in Node : prev'[x] = IF x = n THEN p ELSE IF x = nx[p] THEN n ELSE pv[x]
  BY <1>1, <1>2, <1>3, <1>8, NullAssumption DEF Set, Link
<1>10. s \in Seq(Node) /\ Len(s) = 1 /\ s[1] = n  BY <1>1
<1> HIDE DEF s
<1>11. /\ Len(s) >= 1 /\ \A i \in 1 .. Len(s) : s[i] \notin H
       /\ \A x : x \in heap' <=> x \in H \/ \E i \in 1 .. Len(s) : s[i] = x
       /\ \A i \in 1 .. Len(s) - 1 : next'[s[i]] = s[i + 1]
  BY <1>1, <1>10
<1>12. next'[p] = s[1] /\ next'[s[Len(s)]] = nx[p] /\ p \in H  BY <1>1, <1>2, <1>9, <1>10
<1>13. \A x \in H \ {p} : next'[x] = nx[x]  BY <1>2, <1>9
<1>14. \A x \in H : pv[x] = Null => prev'[x] = Null
  <2> SUFFICES ASSUME NEW x \in H, pv[x] = Null PROVE prev'[x] = Null  OBVIOUS
  <2>1. x # n /\ x \in Node /\ p # Null  BY <1>1, <1>2
  <2>2. x # nx[p]  BY <1>7, <2>1
  <2> QED BY <1>9, <2>1, <2>2
<1> HIDE DEF K, H, M
<1>15. AreLists(heap', next', prev', M)
  <2>1. p \in H /\ s \in Seq(Node) /\ Len(s) >= 1  BY <1>10, <1>12
  <2>2. \A i \in 1 .. Len(s) : s[i] \notin H  BY <1>11
  <2>3. \A x : x \in heap' <=> x \in H \/ \E i \in 1 .. Len(s) : s[i] = x  BY <1>11
  <2>4. \A i \in 1 .. Len(s) - 1 : next'[s[i]] = s[i + 1]  BY <1>11
  <2>5. next'[p] = s[1] /\ next'[s[Len(s)]] = nx[p]  BY <1>12
  <2> QED BY <1>6, <1>13, <1>14, <2>1, <2>2, <2>3, <2>4, <2>5, BehindLined DEF M
<1>16. Lists' = M  BY <1>15, ListsThen
<1> QED BY <1>1, <1>16 DEF A!MoveNode, M, K, s

LEMMA DelListKeeps ==
  ASSUME CInv, CInv', DOMAIN key = Node, NEW n \in Node, DelList(n)
  PROVE  A!DelList(n)
<1> DEFINE S == Reach(next, n)
<1>1. /\ n \in heap /\ heap' = heap \ S
      /\ key' = [x \in Node |-> IF x \in S THEN Null ELSE key[x]]
      /\ next' = [m \in Node |-> IF m \in S \cup {prev[n]} THEN Null ELSE next[m]]
      /\ prev' = [m \in Node |-> IF m \in S THEN Null ELSE prev[m]]
  BY DEF DelList, Free
<1> HIDE DEF S
<1>2. /\ Lined(heap, next, prev, Lists) /\ Null \notin heap /\ heap \subseteq Node
      /\ Links(next) /\ Open(next) /\ \A x \in Node : x = prev[n] <=> next[x] = n
  BY <1>1, ListsNow, NullAssumption
<1>3. PICK l \in Lists : \E i \in 1 .. Len(l) :
        /\ l[i] = n /\ A!In(Lists, n) = l /\ A!Place(l, n) = i
        /\ A!ToSet(A!From(l, n)) = S
  BY <1>1, WhereIs DEF S
<1>4. PICK i \in 1 .. Len(l) :
        /\ l[i] = n /\ A!In(Lists, n) = l /\ A!Place(l, n) = i
        /\ A!ToSet(A!From(l, n)) = S
  BY <1>3
<1>5. \A x : x \in S <=> \E j \in i .. Len(l) : l[j] = x
  <2>1. Reach(next, l[i]) = NodesFrom(l, i)  BY <1>2, RestIsReach
  <2> QED BY <1>4, <2>1 DEF S, NodesFrom
<1>6. \A x : x \in heap' <=> x \in heap /\ \A j \in i .. Len(l) : l[j] # x  BY <1>1, <1>5
<1>7. \A x \in heap' : /\ next'[x] = IF next[x] = l[i] THEN Null ELSE next[x]
                       /\ prev[x] = Null => prev'[x] = Null
  BY <1>1, <1>2, <1>4
<1> DEFINE K == (Lists \ {l}) \cup ({SubSeq(l, 1, i - 1)} \ {<<>>})
<1> HIDE DEF K
<1>8. AreLists(heap', next', prev', K)
  BY <1>2, <1>6, <1>7, CutLined DEF K
<1>9. Lists' = K  BY <1>8, ListsThen
<1> QED BY <1>1, <1>4, <1>9 DEF A!DelList, A!Forget, K

LEMMA DelAllKeeps ==
  ASSUME CInv, CInv', DOMAIN key = Node, NEW n \in Node, DelAll(n)
  PROVE  A!DelAll(n)
<1> DEFINE S == Reach(next, n) \cup Reach(prev, n)
<1>1. /\ n \in heap /\ heap' = heap \ S
      /\ key' = [x \in Node |-> IF x \in S THEN Null ELSE key[x]]
      /\ next' = [m \in Node |-> IF m \in S THEN Null ELSE next[m]]
      /\ prev' = [m \in Node |-> IF m \in S THEN Null ELSE prev[m]]
  BY DEF DelAll, Free
<1>2. /\ Lined(heap, next, prev, Lists) /\ Null \notin heap /\ heap \subseteq Node
      /\ Links(next) /\ Links(prev) /\ Open(next)
      /\ \A x \in Node : /\ next[x] # Null => next[x] \in heap /\ prev[next[x]] = x
                         /\ prev[x] # Null => prev[x] \in heap /\ next[prev[x]] = x
  BY ListsNow
<1>3. PICK l \in Lists : \E i \in 1 .. Len(l) : l[i] = n /\ A!In(Lists, n) = l
  BY <1>1, WhereIs
<1>4. PICK i \in 1 .. Len(l) : l[i] = n /\ A!In(Lists, n) = l
  BY <1>3
<1>5. /\ l \in Seq(Node) /\ Len(l) \in Nat /\ Len(l) >= 1 /\ prev[l[1]] = Null
      /\ \A k \in 1 .. Len(l) - 1 : next[l[k]] = l[k + 1]
      /\ \A k \in 1 .. Len(l) : l[k] \in heap /\ l[k] \in Node
  <2>1. Lined(heap, next, prev, Lists)  BY <1>2
  <2>2. /\ l \in Seq(Node) /\ Len(l) \in Nat /\ Len(l) >= 1 /\ prev[l[1]] = Null
        /\ \A k \in 1 .. Len(l) - 1 : next[l[k]] = l[k + 1]
        /\ \A k \in 1 .. Len(l) : l[k] \in heap
    BY <2>1, ListIs
  <2> QED BY <1>2, <2>2
<1>6. \A x : x \in Reach(next, n) <=> \E j \in i .. Len(l) : l[j] = x
  <2>1. Reach(next, l[i]) = NodesFrom(l, i)  BY <1>2, RestIsReach
  <2> QED BY <1>4, <2>1 DEF NodesFrom
(* All that is in front of n can be reached along prev, and nothing else.   *)
<1>7. \A j \in 1 .. i : l[j] \in Reach(prev, n)
  <2> DEFINE T == {j \in 1 .. i : l[i - j + 1] \in Reach(prev, n)}
  <2>1. 1 \in T
    <3>1. i - 1 + 1 = i /\ 1 \in 1 .. i  OBVIOUS
    <3> QED BY <1>4, <3>1, ReachStart
  <2>2. ASSUME NEW j \in 1 .. i - 1, j \in T PROVE j + 1 \in T
    <3>1. /\ i - (j + 1) + 1 \in 1 .. Len(l) - 1 /\ (i - (j + 1) + 1) + 1 = i - j + 1
          /\ j + 1 \in 1 .. i /\ i - (j + 1) + 1 \in 1 .. Len(l)
      BY <1>5
    <3>2. next[l[i - (j + 1) + 1]] = l[i - j + 1] /\ l[i - (j + 1) + 1] \in heap
          /\ l[i - (j + 1) + 1] \in Node
      BY <1>5, <3>1
    <3>3. i - j + 1 \in 1 .. Len(l)  BY <1>5
    <3>4. prev[l[i - j + 1]] = l[i - (j + 1) + 1] /\ prev[l[i - j + 1]] # Null
      <4>1. l[i - j + 1] # Null /\ l[i - (j + 1) + 1] # Null  BY <1>2, <1>5, <3>2, <3>3
      <4>2. prev[next[l[i - (j + 1) + 1]]] = l[i - (j + 1) + 1]  BY <1>2, <3>2, <4>1
      <4> QED BY <3>2, <4>1, <4>2
    <3>5. prev[l[i - j + 1]] \in Reach(prev, n)  BY <1>2, <2>2, <3>4, ReachClosed
    <3> QED BY <3>1, <3>4, <3>5
  <2>3. i \in Nat  OBVIOUS
  <2> HIDE DEF T
  <2>4. \A j \in 1 .. i : j \in T  BY <2>1, <2>2, <2>3, Climb
  <2> USE DEF T
  <2> TAKE j \in 1 .. i
  <2>5. i - j + 1 \in 1 .. i /\ i - (i - j + 1) + 1 = j  BY <2>3
  <2> QED BY <2>4, <2>5
<1>8. \A x \in Reach(prev, n) : \E j \in 1 .. Len(l) : l[j] = x
  <2> DEFINE T == {l[j] : j \in 1 .. Len(l)}
  <2>1. T \in SUBSET Node /\ n \in T  BY <1>4, <1>5
  <2>2. ASSUME NEW x \in T PROVE prev[x] \in T \cup {Null}
    <3>1. PICK j \in 1 .. Len(l) : l[j] = x  OBVIOUS
    <3>2. CASE j = 1  BY <1>5, <3>1, <3>2
    <3>3. CASE j # 1
      <4>1. j - 1 \in 1 .. Len(l) - 1 /\ j - 1 + 1 = j /\ j - 1 \in 1 .. Len(l)  BY <1>5, <3>3
      <4>2. next[l[j - 1]] = x /\ l[j - 1] \in Node /\ x # Null  BY <1>2, <1>5, <3>1, <4>1
      <4>3. prev[x] = l[j - 1]  BY <1>2, <4>2
      <4> QED BY <4>1, <4>3
    <3> QED BY <3>2, <3>3
  <2> HIDE DEF T
  <2>3. Reach(prev, n) \subseteq T  BY <2>1, <2>2, ReachLeast
  <2> QED BY <2>3 DEF T
<1>9. ASSUME NEW x PROVE x \in S <=> \E j \in 1 .. Len(l) : l[j] = x
  <2>1. \A j \in i .. Len(l) : j \in 1 .. Len(l)  OBVIOUS
  <2>2. \A j \in 1 .. Len(l) : j \in 1 .. i \/ j \in i .. Len(l)  BY <1>5
  <2> QED BY <1>6, <1>7, <1>8, <2>1, <2>2
<1> HIDE DEF S
<1>10. \A x : x \in heap' <=> x \in heap /\ \A j \in 1 .. Len(l) : l[j] # x  BY <1>1, <1>9
<1>11. Lined(heap', next, prev, Lists \ {l})  BY <1>2, <1>10, FewerLined
<1>12. \A m \in Lists \ {l} : IsList(heap', next', prev', m)
  <2> SUFFICES ASSUME NEW m \in Lists \ {l} PROVE IsList(heap', next', prev', m)
    OBVIOUS
  <2>1. \A k \in 1 .. Len(m) : m[k] \in heap'  BY <1>11, ListIs
  <2>2. \A k \in 1 .. Len(m) : /\ m[k] \in heap' /\ next'[m[k]] = next[m[k]]
                               /\ prev[m[k]] = Null => prev'[m[k]] = Null
    BY <1>1, <1>2, <2>1
  <2> QED BY <1>11, <2>2, StillList
<1>13. AreLists(heap', next', prev', Lists \ {l})  BY <1>11, <1>12 DEF AreLists, Lined
<1>14. Lists' = Lists \ {l}  BY <1>13, ListsThen
<1>15. A!ToSet(l) = S
  <2>1. DOMAIN l = 1 .. Len(l)  BY <1>5, LenProperties
  <2> QED BY <1>9, <2>1 DEF A!ToSet
<1> QED BY <1>1, <1>4, <1>14, <1>15 DEF A!DelAll, A!Forget
-----------------------------------------------------------------------------
(* The list t goes behind p: what insert_tList and add_tList_end share. *)
LEMMA ListGoesBehind ==
  ASSUME CInv, CInv', NEW p \in heap, NEW t \in heap, prev[t] = Null, p \notin Reach(next, t),
         NEW e \in Reach(next, t), next[e] = Null, heap' = heap,
         next'[p] = t, next'[e] = next[p],
         \A x \in Node : x # p /\ x # e => next'[x] = next[x],
         \A x \in Node : prev[x] = Null /\ x # t => prev'[x] = Null
  PROVE  LET s == A!In(Lists, t)
         IN  Lists' = A!Behind(Lists \ {s}, p, s)
<1> DEFINE s == Along(next, t)
           K == Lists \ {s}
           H == heap \ Reach(next, t)
           M == A!Behind(K, p, s)
<1>1. /\ Well(heap, next, prev) /\ Lists = ListsOf(heap, next, prev)
      /\ Lined(heap, next, prev, Lists) /\ Links(next) /\ Open(next) /\ heap \subseteq Node
  BY ListsNow
<1>2. /\ s \in Lists /\ s[1] = t /\ Path(next, s) /\ A!In(Lists, t) = s
      /\ \A x : x \in Reach(next, t) <=> \E j \in 1 .. Len(s) : s[j] = x
  BY <1>1, TopList
<1> HIDE DEF s
<1>3. \A x : x \in H <=> x \in heap /\ \A j \in 1 .. Len(s) : s[j] # x  BY <1>2
<1>4. Lined(H, next, prev, K)
  <2> HIDE DEF H
  <2> QED BY <1>1, <1>2, <1>3, FewerLined
<1>5. /\ s \in Seq(Node) /\ Len(s) \in Nat /\ Len(s) >= 1
      /\ \A k \in 1 .. Len(s) - 1 : next[s[k]] = s[k + 1]
      /\ \A k \in 1 .. Len(s) : s[k] \in heap /\ s[k] \in Node
      /\ \A j, k \in 1 .. Len(s) : s[j] = s[k] => j = k
  BY <1>1, <1>2, ListIs
<1>6. e = s[Len(s)]
  <2>1. PICK j \in 1 .. Len(s) : s[j] = e  BY <1>2
  <2>2. ASSUME j # Len(s) PROVE FALSE
    <3>1. j \in 1 .. Len(s) - 1 /\ j + 1 \in 1 .. Len(s)  BY <1>5, <2>2
    <3> QED BY <1>5, <2>1, <3>1, NullAssumption
  <2> QED BY <2>1, <2>2
<1>7. p \in H /\ t \notin H /\ \A i \in 1 .. Len(s) : s[i] \notin H  BY <1>2, ReachStart
<1>8. \A x : x \in heap' <=> x \in H \/ \E i \in 1 .. Len(s) : s[i] = x
  <2> TAKE x
  <2>1. x \in Reach(next, t) => x \in heap  BY <1>2, <1>5
  <2> QED BY <1>2, <2>1
<1>9. next'[p] = s[1] /\ next'[s[Len(s)]] = next[p]  BY <1>2, <1>6
<1>10. \A i \in 1 .. Len(s) - 1 : next'[s[i]] = s[i + 1]
  <2> TAKE i \in 1 .. Len(s) - 1
  <2>1. i \in 1 .. Len(s) /\ Len(s) \in 1 .. Len(s) /\ i # Len(s)  BY <1>5
  <2>2. s[i] # e /\ s[i] # p  BY <1>5, <1>6, <1>7, <2>1
  <2> QED BY <1>5, <2>1, <2>2
<1>11. \A x \in H \ {p} : next'[x] = next[x]
  <2>1. \A x \in H : x \in Node /\ x # e  BY <1>1
  <2> QED BY <2>1
<1>12. \A x \in H : prev[x] = Null => prev'[x] = Null  BY <1>1, <1>7
<1> HIDE DEF H, K, M
<1>13. AreLists(heap', next', prev', M)
  BY <1>4, <1>5, <1>7, <1>8, <1>9, <1>10, <1>11, <1>12, BehindLined DEF M
<1>14. Lists' = M  BY <1>13, ListsThen
<1> QED BY <1>2, <1>14 DEF M, K

LEMMA InsertKeeps ==
  ASSUME CInv, CInv', NEW p \in Node, NEW t \in Node, Insert(p, t)
  PROVE  A!Insert(p, t)
<1>1. p \in heap /\ t \in heap /\ prev[t] = Null /\ p \notin Reach(next, t)
      /\ heap' = heap /\ key' = key
  BY DEF Insert, OtherList
<1>2. PICK e \in heap : /\ IsEnd(t, e)
                        /\ prev' = [Set(prev, next[p], e) EXCEPT ![t] = p]
                        /\ next' = [next EXCEPT ![e] = next[p], ![p] = t]
  BY DEF Insert
<1>3. e \in Reach(next, t) /\ next[e] = Null /\ e # p  BY <1>1, <1>2 DEF IsEnd
<1>4. /\ next'[p] = t /\ next'[e] = next[p]
      /\ \A x \in Node : x # p /\ x # e => next'[x] = next[x]
  BY <1>2, <1>3, ListsNow DEF Links
<1>5. \A x \in Node : prev[x] = Null /\ x # t => prev'[x] = Null
  <2> SUFFICES ASSUME NEW x \in Node, prev[x] = Null, x # t PROVE prev'[x] = Null
    OBVIOUS
  <2>1. next[p] # x  BY <1>1, ListsNow, NullAssumption
  <2> QED BY <1>2, <2>1, ListsNow DEF Set, Links
<1>6. Lists' = A!Behind(Lists \ {A!In(Lists, t)}, p, A!In(Lists, t))
  BY <1>1, <1>3, <1>4, <1>5, ListGoesBehind
<1> QED BY <1>1, <1>6 DEF A!Insert

LEMMA AddEndKeeps ==
  ASSUME CInv, CInv', NEW p \in Node, NEW t \in Node, AddEnd(p, t)
  PROVE  A!AddEnd(p, t)
<1>1. p \in heap /\ t \in heap /\ prev[t] = Null /\ p \notin Reach(next, t)
      /\ heap' = heap /\ key' = key
  BY DEF AddEnd, OtherList
<1>2. PICK e \in heap : /\ IsEnd(p, e)
                        /\ next' = [next EXCEPT ![e] = t]
                        /\ prev' = [prev EXCEPT ![t] = e]
  BY DEF AddEnd
<1>3. e \in Reach(next, p) /\ next[e] = Null /\ e \in Node  BY <1>2, ListsNow DEF IsEnd
<1>4. A!Last(A!In(Lists, p)) = e  BY <1>1, <1>3, WhereIs
<1>5. \E f \in heap : IsEnd(t, f)  BY <1>1, EndIsReached DEF IsEnd
<1>6. PICK f \in heap : f \in Reach(next, t) /\ next[f] = Null  BY <1>5 DEF IsEnd
<1>7. e \notin Reach(next, t)
  <2> DEFINE R == Reach(next, t)
             S == Node \ R
  <2>1. Apart(next, R)  BY <1>1, TopIsApart DEF CInv, IInv
  <2> HIDE DEF R
  <2>2. S \in SUBSET Node /\ p \in S  BY <1>1 DEF R
  <2>3. \A x \in S : next[x] \in S \cup {Null}  BY <2>1, ListsNow DEF Apart, Links, Link
  <2> HIDE DEF S
  <2>4. Reach(next, p) \subseteq S  BY <2>2, <2>3, ReachLeast
  <2> QED BY <1>3, <2>4 DEF S, R
<1>8. /\ next'[e] = t /\ next'[f] = next[e]
      /\ \A x \in Node : x # e /\ x # f => next'[x] = next[x]
      /\ \A x \in Node : prev[x] = Null /\ x # t => prev'[x] = Null
  BY <1>2, <1>3, <1>6, <1>7, ListsNow DEF Links
<1>9. Lists' = A!Behind(Lists \ {A!In(Lists, t)}, e, A!In(Lists, t))
  BY <1>1, <1>6, <1>7, <1>8, ListGoesBehind
<1> QED BY <1>1, <1>4, <1>9 DEF A!AddEnd

LEMMA DupKeeps ==
  ASSUME CInv, CInv', key \in [Node -> Key \cup {Null}], NEW n \in Node, Dup(n)
  PROVE  A!Dup(n)
<1> DEFINE R == Reach(next, n)
<1>1. n \in heap /\ n \in R  BY ReachStart DEF Dup
<1>2. PICK copy \in [R -> Node \ heap] :
        /\ \A x, y \in DOMAIN copy : copy[x] = copy[y] => x = y
        /\ DupOf(n, copy)
  BY DEF Dup
<1>3. /\ Lined(heap, next, prev, Lists) /\ Links(next) /\ Open(next) /\ heap \subseteq Node
      /\ Links(prev)
  BY ListsNow
<1>4. PICK l \in Lists : \E i \in 1 .. Len(l) :
        /\ l[i] = n /\ A!In(Lists, n) = l /\ A!From(l, n) = SubSeq(l, i, Len(l))
  BY <1>1, WhereIs
<1>5. PICK i \in 1 .. Len(l) :
        /\ l[i] = n /\ A!In(Lists, n) = l /\ A!From(l, n) = SubSeq(l, i, Len(l))
  BY <1>4
<1> DEFINE o == SubSeq(l, i, Len(l))
<1>6. Path(next, o) /\ Len(o) = Len(l) - i + 1 /\ \A k \in 1 .. Len(l) - i + 1 : o[k] = l[i + k - 1]
  BY <1>3, RestIsPath
<1>7. o[1] = n
  <2>1. 1 \in 1 .. Len(l) - i + 1 /\ i + 1 - 1 = i  BY <1>3, ListIs
  <2> HIDE DEF o
  <2> QED BY <1>5, <1>6, <2>1
<1> HIDE DEF o
<1>8. /\ o \in Seq(Node) /\ Len(o) \in Nat /\ Len(o) >= 1 /\ next[o[Len(o)]] = Null
      /\ \A k \in 1 .. Len(o) - 1 : next[o[k]] = o[k + 1]
      /\ \A k \in 1 .. Len(o) : o[k] \in Node
  BY <1>6, PathNodes DEF Path
<1>9. \A x : x \in R <=> \E k \in 1 .. Len(o) : o[k] = x
  <2>1. \A x : x \in Reach(next, o[1]) <=> \E k \in 1 .. Len(o) : o[k] = x
    <3>1. Reach(next, o[1]) = Nodes(o)  BY <1>3, <1>6, PathIsReach
    <3> QED BY <3>1 DEF Nodes
  <2> QED BY <1>7, <2>1
<1> HIDE DEF R
<1>10. /\ heap' = heap \cup {copy[m] : m \in R}
       /\ \A x, y \in R : copy[x] = copy[y] => x = y
       /\ \A m \in R : copy[m] \in Node /\ copy[m] \notin heap
  BY <1>2 DEF DupOf
<1>11. ASSUME NEW m \in R
       PROVE  /\ next'[copy[m]] = IF next[m] = Null THEN Null ELSE copy[next[m]]
              /\ key'[copy[m]] = key[m]
              /\ m = n => prev'[copy[m]] = Null
  <2>1. (CHOOSE x \in DOMAIN copy : copy[x] = copy[m]) = m  BY <1>2, <1>10
  <2>2. \E x \in DOMAIN copy : copy[x] = copy[m]  BY <1>2
  <2> QED BY <1>2, <1>10, <2>1, <2>2 DEF DupOf
<1>12. ASSUME NEW c \in Node, \A m \in R : copy[m] # c
       PROVE  next'[c] = next[c] /\ prev'[c] = prev[c] /\ key'[c] = key[c]
  <2>1. ~ \E x \in DOMAIN copy : copy[x] = c  BY <1>2, <1>12
  <2> QED BY <1>2, <2>1 DEF DupOf
<1> DEFINE s == [k \in 1 .. Len(o) |-> copy[o[k]]]
           K == Lists \cup {s}
<1>13. /\ s \in Seq(Node) /\ Len(s) = Len(o) /\ DOMAIN s = 1 .. Len(o) /\ s # <<>>
       /\ \A k \in 1 .. Len(o) : s[k] = copy[o[k]] /\ o[k] \in R
  <2>1. \A k \in 1 .. Len(o) : s[k] = copy[o[k]] /\ o[k] \in R  BY <1>9
  <2>2. s \in [1 .. Len(o) -> Node]  BY <1>9, <1>10
  <2> HIDE DEF s
  <2>3. s \in Seq(Node)
    <3>1. Len(o) \in Nat  BY <1>8
    <3> QED BY <2>2, <3>1, SeqDef
  <2>4. DOMAIN s = 1 .. Len(o)  BY <2>2
  <2>5. Len(s) = Len(o)  BY <1>8, <2>3, <2>4, LenProperties
  <2>6. s # <<>>  BY <1>8, <2>5
  <2> QED BY <2>1, <2>3, <2>4, <2>5, <2>6
<1> HIDE DEF s
<1>14. IsList(heap', next', prev', s)
  <2>1. \A k \in 1 .. Len(s) - 1 : next'[s[k]] = s[k + 1]
    <3> TAKE k \in 1 .. Len(s) - 1
    <3>1. k \in 1 .. Len(o) - 1 /\ k \in 1 .. Len(o) /\ k + 1 \in 1 .. Len(o)  BY <1>8, <1>13
    <3>2. next[o[k]] = o[k + 1] /\ o[k + 1] # Null  BY <1>8, <3>1, NullAssumption
    <3> QED BY <1>11, <1>13, <3>1, <3>2
  <2>2. Len(s) \in 1 .. Len(o) /\ 1 \in 1 .. Len(o)  BY <1>8, <1>13
  <2>3. next'[s[Len(s)]] = Null  BY <1>8, <1>11, <1>13, <2>2
  <2>4. prev'[s[1]] = Null  BY <1>7, <1>11, <1>13, <2>2
  <2>5. \A k \in 1 .. Len(s) : s[k] \in heap'  BY <1>10, <1>13
  <2> QED BY <1>13, <2>1, <2>3, <2>4, <2>5 DEF IsList, Path
<1>15. ASSUME NEW m \in Lists PROVE IsList(heap', next', prev', m)
  <2>1. \A k \in 1 .. Len(m) : m[k] \in heap  BY <1>3, ListIs
  <2>2. \A x \in heap : x \in heap' /\ next'[x] = next[x] /\ prev'[x] = prev[x]
    BY <1>3, <1>10, <1>12
  <2>3. \A k \in 1 .. Len(m) : /\ m[k] \in heap' /\ next'[m[k]] = next[m[k]]
                               /\ prev[m[k]] = Null => prev'[m[k]] = Null
    BY <2>1, <2>2
  <2> QED BY <1>3, <2>3, StillList
<1>16. Covers(K, heap')
  <2> SUFFICES ASSUME NEW x \in heap' PROVE \E m \in K : \E k \in 1 .. Len(m) : m[k] = x
    BY DEF Covers
  <2>1. CASE x \in heap  BY <1>3, <2>1 DEF Lined, Covers
  <2>2. CASE x \notin heap
    <3>1. PICK m \in R : copy[m] = x  BY <1>10, <2>2
    <3>2. PICK k \in 1 .. Len(o) : o[k] = m  BY <1>9
    <3> QED BY <1>13, <3>1, <3>2
  <2> QED BY <2>1, <2>2
<1>17. \A m \in K : IsList(heap', next', prev', m)  BY <1>14, <1>15
<1> HIDE DEF K
<1>18. Lists' = K  BY <1>16, <1>17, ListsThen DEF AreLists
<1>19. s \notin Lists
  <2>1. 1 \in 1 .. Len(o)  BY <1>8
  <2>2. s[1] \notin heap /\ 1 \in 1 .. Len(s)  BY <1>10, <1>13, <2>1
  <2> QED BY <1>3, <2>2, ListIs
<1>20. A!ToSet(s) = {s[k] : k \in 1 .. Len(o)}  BY <1>13 DEF A!ToSet
<1>21. \A m \in Node \ A!ToSet(s) : key'[m] = key[m]
  <2> TAKE m \in Node \ A!ToSet(s)
  <2>1. \A x \in R : copy[x] # m  BY <1>9, <1>13, <1>20
  <2> QED BY <1>12, <2>1
<1>22. \A k \in DOMAIN s : key'[s[k]] = key[o[k]]  BY <1>11, <1>13
<1>23. s \in Lists' \ Lists /\ Lists' = Lists \cup {s}  BY <1>18, <1>19 DEF K
<1>24. A!From(A!In(Lists, n), n) = o  BY <1>5 DEF o
<1>25. DOMAIN key = Node  OBVIOUS
<1>26. Len(s) = Len(o)  BY <1>13
<1> QED BY <1>21, <1>22, <1>23, <1>24, <1>25, <1>26 DEF A!Dup
-----------------------------------------------------------------------------
(* Every function of the library does to the lists, seen as sequences of    *)
(* nodes, what it promises: for lists of any number and length.             *)
THEOREM FunctionsKeepPromises == Spec => CallsKeepPromises
<1>1. ASSUME KInv, KInv' PROVE Promises
  <2>1. CInv /\ CInv' /\ key \in [Node -> Key \cup {Null}] /\ DOMAIN key = Node
    BY <1>1 DEF KInv, Fields
  <2>2. ASSUME NEW n \in Node, NEW k \in Key
        PROVE  /\ NewNode(n, k) => A!NewNode(n, k)
               /\ \A p \in Node : AddNode(p, n, k) => A!AddNode(p, n, k)
    BY <2>1, NewNodeKeeps, AddNodeKeeps
  <2>3. ASSUME NEW p \in Node, NEW n \in Node, NEW k \in Key, NEW new \in Key
        PROVE  Update(p, n, k, new) => A!Update(p, n, k, new)
    BY <2>1, UpdateKeeps
  <2>4. ASSUME NEW n \in Node
        PROVE  /\ DelNode(n) => A!DelNode(n)
               /\ DelList(n) => A!DelList(n)
               /\ DelAll(n) => A!DelAll(n)
               /\ Dup(n) => A!Dup(n)
    BY <2>1, DelNodeKeeps, DelListKeeps, DelAllKeeps, DupKeeps
  <2>5. ASSUME NEW p \in Node, NEW n \in Node
        PROVE  /\ MoveNode(p, n) => A!MoveNode(p, n)
               /\ SwapNode(p, n) => A!SwapNode(p, n)
               /\ Insert(p, n) => A!Insert(p, n)
               /\ AddEnd(p, n) => A!AddEnd(p, n)
    BY <2>1, MoveNodeKeeps, SwapNodeKeeps, InsertKeeps, AddEndKeeps
  <2> QED BY <2>2, <2>3, <2>4, <2>5 DEF Promises
<1>2. KInv /\ KInv' => [Promises]_vars  BY <1>1
<1>3. Init => KInv  BY InitKInv
<1>4. KInv /\ [Next]_vars => KInv'  BY NextKInv
<1>5. Spec => [][Promises]_vars  BY <1>2, <1>3, <1>4, PTL DEF Spec
<1> QED BY <1>5 DEF Promises, CallsKeepPromises
=============================================================================
