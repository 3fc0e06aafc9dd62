------------------------------- MODULE Forest -------------------------------
(***************************************************************************)
(* What the functions of the Tiny Tree library (Lib/ttree.c) promise: any  *)
(* number of trees whose nodes have their children in order, no node       *)
(* twice.  Trees without a parent may be sisters too: they are a line, and *)
(* what is linked below a node is always the tree of another line.  There  *)
(* are no pointers here.                                                   *)
(***************************************************************************)
EXTENDS Naturals, SequencesExt

VARIABLES
  lines,  (* a set of sequences of sisters without a parent               *)
  kids    (* the children of each node                                    *)

nodes == DOMAIN kids
None  == [n \in nodes |-> <<>>]

(* Everything below the nodes S, and S. *)
Under(S) ==
  LET under[k \in Nat] == IF k = 0 THEN S
                          ELSE under[k - 1] \cup UNION {ToSet(kids[n]) : n \in under[k - 1]}
  IN under[Cardinality(nodes)]

Line(n)    == CHOOSE l \in lines : n \in ToSet(l)
IsTop(n)   == \E l \in lines : n \in ToSet(l)
Parent(n)  == CHOOSE p \in nodes : n \in ToSet(kids[p])
Sisters(n) == IF IsTop(n) THEN Line(n) ELSE kids[Parent(n)]

(* n is replaced by the nodes s, where it is. *)
Spliced(l, n, s) == FlattenSeq([i \in DOMAIN l |-> IF l[i] = n THEN s ELSE <<l[i]>>])
Some(L) == L \ {<<>>}
LinesWith(n, s) == IF IsTop(n) THEN Some((lines \ {Line(n)}) \cup {Spliced(Line(n), n, s)}) ELSE lines
KidsWith(n, s)  == IF IsTop(n) THEN kids ELSE [kids EXCEPT ![Parent(n)] = Spliced(@, n, s)]
Bare(k, S) == [m \in nodes |-> IF m \in S THEN <<>> ELSE k[m]]
-----------------------------------------------------------------------------
NewNode(n) == lines' = lines \cup {<<n>>} /\ UNCHANGED kids

(* Lone trees, and a line of them, go below p. *)
AddNode(p, n) ==
  lines' = lines \ {<<n>>} /\ kids' = [kids EXCEPT ![p] = Append(@, n)]
InsertNode(p, n) ==
  lines' = lines \ {<<n>>} /\ kids' = [kids EXCEPT ![p] = <<n>> \o @]
AddTree(p, n) ==
  lines' = lines \ {Line(n)} /\ kids' = [kids EXCEPT ![p] = @ \o Line(n)]

(* The children of the lone tree n go below p, and it goes. *)
JoinKids(p, n) ==
  lines' = lines \ {<<n>>} /\ kids' = [Bare(kids, {n}) EXCEPT ![p] = @ \o kids[n]]

(* The children of n take its place, and it goes, or goes below p. *)
DelNode(n) == lines' = LinesWith(n, kids[n]) /\ kids' = Bare(KidsWith(n, kids[n]), {n})
MoveNode(p, n) ==
  /\ lines' = LinesWith(n, kids[n])
  /\ kids' = [Bare(KidsWith(n, kids[n]), {n}) EXCEPT ![p] = Append(@, n)]

(* n goes with all below it; all below it goes; its sisters go too. *)
DelTree(n)     == lines' = LinesWith(n, <<>>) /\ kids' = Bare(KidsWith(n, <<>>), Under({n}))
DelChildren(n) == UNCHANGED lines /\ kids' = Bare(kids, Under({n}))
DelSisters(n)  == UNCHANGED lines /\ kids' = Bare(kids, Under({Parent(n)}))
DelAll(n)      == \E r \in nodes : IsTop(r) /\ n \in Under({r}) /\ DelTree(r)

(* n leaves its parent. *)
DivTree(n) == lines' = lines \cup {<<n>>} /\ kids' = KidsWith(n, <<>>)

(* Two trees change places. *)
Exchange(a, b) ==
  LET Swapped(l) == [i \in DOMAIN l |-> IF l[i] = a THEN b ELSE IF l[i] = b THEN a ELSE l[i]]
  IN lines' = {Swapped(l) : l \in lines} /\ kids' = [m \in nodes |-> Swapped(kids[m])]

(* The line of sisters that n is in is copied, with all below it, below p. *)
DupMerge(p, n) ==
  LET Copy(c, l) == [i \in DOMAIN l |-> c[l[i]]]
  IN \E c \in [Under(ToSet(Sisters(n))) -> nodes] :
       /\ IsInjective(c) /\ \A m \in Range(c) : ~IsTop(m) /\ \A q \in nodes : m \notin ToSet(kids[q])
       /\ lines' = lines
       /\ kids' = [m \in nodes |->
                     IF m = p THEN kids[p] \o Copy(c, Sisters(n))
                     ELSE IF m \in Range(c) THEN Copy(c, kids[CHOOSE o \in DOMAIN c : c[o] = m])
                     ELSE kids[m]]
=============================================================================
