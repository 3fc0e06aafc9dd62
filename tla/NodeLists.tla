----------------------------- MODULE NodeLists -----------------------------
(***************************************************************************)
(* What the functions of the Tiny List library (Lib/tlist.c) promise: any  *)
(* number of lists of nodes, no node twice, and each call changes one or   *)
(* two of them as a whole.  There are no pointers here.                    *)
(***************************************************************************)
EXTENDS Integers, Sequences, SequencesExt

CONSTANT Null

VARIABLES
  lists,  (* a set of sequences of nodes                                   *)
  key     (* of each node, Null when it is in no list                      *)

In(L, n)    == CHOOSE l \in L : n \in ToSet(l)
Place(l, n) == CHOOSE i \in DOMAIN l : l[i] = n
UpTo(l, n)  == SubSeq(l, 1, Place(l, n))
From(l, n)  == SubSeq(l, Place(l, n), Len(l))

(* The lists L without one node, and with the nodes s put in behind p. *)
Without(L, n)  == LET l == In(L, n)
                  IN  (L \ {l}) \cup ({SubSeq(l, 1, Place(l, n) - 1) \o Tail(From(l, n))} \ {<<>>})
Behind(L, p, s) == LET l == In(L, p)
                   IN  (L \ {l}) \cup {UpTo(l, p) \o s \o Tail(From(l, p))}

Forget(S) == key' = [n \in DOMAIN key |-> IF n \in S THEN Null ELSE key[n]]

NewNode(n, k)    == lists' = lists \cup {<<n>>} /\ key' = [key EXCEPT ![n] = k]
AddNode(p, n, k) == lists' = Behind(lists, p, <<n>>) /\ key' = [key EXCEPT ![n] = k]
DelNode(n)       == lists' = Without(lists, n) /\ Forget({n})
MoveNode(p, n)   == lists' = Behind(Without(lists, n), p, <<n>>) /\ UNCHANGED key
SwapNode(n, m)   == UNCHANGED lists /\ key' = [key EXCEPT ![n] = key[m], ![m] = key[n]]

(* n and everything behind it go; the whole list of n goes. *)
DelList(n) == LET l == In(lists, n)
              IN  /\ lists' = (lists \ {l}) \cup ({SubSeq(l, 1, Place(l, n) - 1)} \ {<<>>})
                  /\ Forget(ToSet(From(l, n)))
DelAll(n)  == lists' = lists \ {In(lists, n)} /\ Forget(ToSet(In(lists, n)))

(* The list t goes behind p, or to the end of the list of p. *)
Insert(p, t) == lists' = Behind(lists \ {In(lists, t)}, p, In(lists, t)) /\ UNCHANGED key
AddEnd(p, t) == /\ lists' = Behind(lists \ {In(lists, t)}, Last(In(lists, p)), In(lists, t))
                /\ UNCHANGED key

(* A new list has the keys of n and what is behind it. *)
Dup(n) == LET l == From(In(lists, n), n)
          IN  \E s \in lists' \ lists : /\ lists' = lists \cup {s} /\ Len(s) = Len(l)
                                        /\ \A i \in DOMAIN s : key'[s[i]] = key[l[i]]
                                        /\ \A m \in DOMAIN key \ ToSet(s) : key'[m] = key[m]

(* The first node of key k behind p (p included) gets the key new, else a   *)
(* new one at the end.                                                      *)
Update(p, n, k, new) ==
  LET l    == In(lists, p)
      hits == {i \in Place(l, p) .. Len(l) : key[l[i]] = k}
  IN  IF hits = {} THEN AddNode(Last(l), n, new)
      ELSE /\ UNCHANGED lists
           /\ \E i \in hits : (\A j \in hits : i <= j) /\ key' = [key EXCEPT ![l[i]] = new]
=============================================================================
