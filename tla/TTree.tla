-------------------------------- MODULE TTree --------------------------------
(***************************************************************************)
(* Lib/ttree.c: trees of nodes linked by five pointers.  next leads to the *)
(* eldest child, yngr to the youngest, prev to the parent, esis and ysis   *)
(* to the elder and the younger sister; num counts the children, depth the *)
(* distance from the top.  An anchor is a node of depth -1 that holds the  *)
(* trees of a line.  What a node carries is left out.                      *)
(*                                                                         *)
(* Callers see to it that a tree is not hung below itself.  Some calls     *)
(* that the comments allow leave links that do not fit: they set torn, and *)
(* the model ends there.                                                   *)
(***************************************************************************)
EXTENDS Integers, SequencesExt

CONSTANTS
  Nodes,  (* bound: the memory that nodes are taken from                   *)
  Null

ASSUME NullAssumption == Null \notin Nodes

VARIABLES
  live,    (* the nodes allocated                                          *)
  t,       (* the fields of the nodes                                      *)
  anchors, (* the live nodes that are anchors                              *)
  torn     (* a call broke the links                                       *)

vars == <<live, t, anchors, torn>>
Links == {"next", "prev", "yngr", "esis", "ysis"}
Blank(v) == [n \in Nodes |-> v]

Init == /\ live = {} /\ anchors = {} /\ torn = FALSE
        /\ t = [next |-> Blank(Null), prev |-> Blank(Null), yngr |-> Blank(Null),
                esis |-> Blank(Null), ysis |-> Blank(Null), num |-> Blank(0), depth |-> Blank(0)]
-----------------------------------------------------------------------------
(* Following a link from n until it is Null (or a circle is closed). *)
Walk(link, n) ==
  LET walk[k \in 0 .. Cardinality(Nodes), m \in Nodes \cup {Null}] ==
        IF k = 0 \/ m = Null THEN <<>> ELSE <<m>> \o walk[k - 1, link[m]]
  IN walk[Cardinality(Nodes), n]

Children(x, n) == Walk(x.ysis, x.next[n])
Top(x, n)      == Last(Walk(x.prev, n))
Itself(x, n) == n  \* a slip: the elder sisters are left behind
Eldest(x, n)   == Last(Walk(x.esis, n))

(* The nodes k levels below n, for every k, and all of them. *)
Levels(x, n) ==
  LET level[k \in 0 .. Cardinality(Nodes)] ==
        IF k = 0 THEN <<{n}>>
        ELSE LET above == level[k - 1]
             IN Append(above, UNION {ToSet(Children(x, m)) : m \in Last(above)})
  IN level[Cardinality(Nodes)]
Tree(x, n)  == UNION Range(Levels(x, n))
Below(x, n) == UNION Range(Tail(Levels(x, n)))

(* A node without a parent that still points to sisters that are not its own. *)
Stale(x, n) ==
  /\ x.prev[n] = Null
  /\ \/ x.ysis[n] # Null /\ (x.prev[x.ysis[n]] # Null \/ x.esis[x.ysis[n]] # n)
     \/ x.esis[n] # Null /\ (x.prev[x.esis[n]] # Null \/ x.ysis[x.esis[n]] # n)
Lone(x, n) == x.prev[n] = Null /\ (Stale(x, n) \/ (x.ysis[n] = Null /\ x.esis[n] = Null))

Put(f, n, v) == IF n = Null THEN f ELSE [f EXCEPT ![n] = v]

(* depth of n, and adjust_tTree_depth of what is below it. *)
Deep(x, n, d) ==
  LET levels == Levels(x, n)
      at(m)  == {k \in DOMAIN levels : m \in levels[k]}
  IN [x EXCEPT !.depth = [m \in Nodes |-> IF at(m) = {} THEN @[m] ELSE d - 1 + Min(at(m))]]

(* A slip: the youngest sister of before does not learn of n. *)
HungLoose(x, p, n) ==
  Deep([x EXCEPT !.prev[n] = p, !.esis[n] = x.yngr[p], !.ysis[n] = Null,
                 !.next[p] = IF @ = Null THEN n ELSE @,
                 !.yngr[p] = n, !.num[p] = @ + 1], n, x.depth[p] + 1)

(* n becomes the youngest child of p. *)
Hung(x, p, n) ==
  Deep([x EXCEPT !.prev[n] = p, !.esis[n] = x.yngr[p],
                 !.ysis = Put([@ EXCEPT ![n] = Null], x.yngr[p], n),
                 !.next[p] = IF @ = Null THEN n ELSE @,
                 !.yngr[p] = n, !.num[p] = @ + 1], n, x.depth[p] + 1)

(* n becomes the eldest; the youngest child of p is left as it is. *)
Inserted(x, p, n) ==
  Deep([x EXCEPT !.esis = Put([@ EXCEPT ![n] = Null], x.next[p], n), !.ysis[n] = x.next[p],
                 !.next[p] = n, !.prev[n] = p, !.num[p] = @ + 1], n, x.depth[p] + 1)

(* n leaves its place to its children, who are one level up then. *)
Unhooked(x, n) ==
  LET p == x.prev[n]  first == x.next[n]  kids == Children(x, n)
      e == x.esis[n]  y == x.ysis[n]
      eldest   == IF first = Null THEN y ELSE first
      youngest == IF first = Null THEN e ELSE Last(kids)
      up == IF first = Null \/ n \in anchors THEN x.depth ELSE
              [m \in Nodes |-> IF m \in Below(x, n) THEN x.depth[m] - 1 ELSE x.depth[m]]
  IN [x EXCEPT
       !.prev  = [m \in Nodes |-> IF m \in ToSet(kids) THEN p ELSE @[m]],
       !.ysis  = Put(IF first = Null THEN @ ELSE [@ EXCEPT ![Last(kids)] = y], e, eldest),
       !.esis  = Put(IF first = Null THEN @ ELSE [@ EXCEPT ![first] = e], y, youngest),
       !.next  = IF p # Null /\ x.next[p] = n THEN [@ EXCEPT ![p] = eldest] ELSE @,
       !.yngr  = IF p # Null /\ x.yngr[p] = n THEN [@ EXCEPT ![p] = youngest] ELSE @,
       !.num   = Put(@, p, IF p = Null THEN 0 ELSE @[p] + @[n] - 1),
       !.depth = up]

(* free(): the fields are gone. *)
Cleared(x, S) ==
  [f \in DOMAIN x |-> [m \in Nodes |-> IF m \notin S THEN x[f][m] ELSE IF f \in Links THEN Null ELSE 0]]
Free(x, S) == live' = live \ S /\ anchors' = anchors \ S /\ t' = Cleared(x, S)
Keep == UNCHANGED <<live, anchors>>
-----------------------------------------------------------------------------
new_tTree_node(n) ==
  /\ n \notin live /\ live' = live \cup {n}
  /\ UNCHANGED <<t, anchors, torn>>

new_tTree_anchor_node(n) ==
  /\ n \notin live /\ live' = live \cup {n} /\ anchors' = anchors \cup {n}
  /\ t' = [t EXCEPT !.depth[n] = -1]
  /\ UNCHANGED torn

Other(p, n) == p \notin Tree(t, n)

(* add_tTree_node: instead of an anchor, its eldest child is hung, twice then. *)
add_tTree_node(p, n) ==
  LET m == IF n \in anchors THEN t.next[n] ELSE n
  IN /\ Other(p, n) /\ m # Null /\ Keep
     /\ torn' = (n \in anchors \/ ~Lone(t, n)) /\ t' = Hung(t, p, m)

insert_tTree_node(p, n) ==
  /\ Other(p, n) /\ Keep
  /\ torn' = (t.next[p] = Null \/ n \in anchors \/ ~Lone(t, n))
  /\ t' = Inserted(t, p, n)

(* free_tTree_node and free, of del_tTree_node and of del_tTree_anchor_node. *)
del_tTree_node(n) ==
  /\ Free(Unhooked(t, n), {n}) /\ torn' = Stale(t, n)

(* n keeps the links to the children that took its place. *)
move_tTree_node(p, n) ==
  /\ Other(p, n) /\ Keep
  /\ torn' = (t.next[n] # Null \/ n \in anchors \/ Stale(t, n))
  /\ t' = Hung(Unhooked(t, n), p, n)
-----------------------------------------------------------------------------
(* del_tTree: all below n goes, then n from between its sisters. *)
Cut(x, n) ==
  LET p == x.prev[n]  y == x.ysis[n]  e == x.esis[n]
  IN [x EXCEPT !.next = IF p # Null /\ @[p] = n THEN [@ EXCEPT ![p] = IF y # Null THEN y ELSE e] ELSE @,
               !.yngr = IF p # Null /\ @[p] = n THEN [@ EXCEPT ![p] = e] ELSE @,
               !.num  = Put(@, p, IF p = Null THEN 0 ELSE @[p] - 1),
               !.esis = Put(@, y, e), !.ysis = Put(@, e, y)]

del_tTree(n) == Free(Cut(t, n), Tree(t, n)) /\ torn' = Stale(t, n)

del_children_tTree(n) ==
  /\ Free([t EXCEPT !.next[n] = Null, !.yngr[n] = Null, !.num[n] = 0], Below(t, n))
  /\ UNCHANGED torn

(* Without a parent the call runs into a null pointer. *)
del_sisters_tTree(n) ==
  LET p == t.prev[n]
  IN IF p = Null THEN torn' = TRUE /\ UNCHANGED <<live, t, anchors>>
     ELSE /\ Free([t EXCEPT !.next[p] = Null, !.yngr[p] = Null, !.num[p] = 0], Below(t, p))
          /\ UNCHANGED torn

(* The same, but the parent goes on counting the children it had. *)
del_sisters_children_tTree(n) ==
  LET p == t.prev[n]
  IN /\ p # Null /\ Free([t EXCEPT !.next[p] = Null, !.yngr[p] = Null], Below(t, p))
     /\ torn' = TRUE

del_all_tTree(n) == del_tTree(Top(t, n))

(* The line that n is in goes below p as a whole. *)
Joined(x, p, n) ==
  LET line == Walk(x.ysis, Eldest(x, n))
      y == x.yngr[p]
      linked == [x EXCEPT !.esis[line[1]] = y, !.ysis = Put(@, y, line[1]),
                          !.next[p] = IF @ = Null THEN line[1] ELSE @,
                          !.prev = [m \in Nodes |-> IF m \in ToSet(line) THEN p ELSE @[m]],
                          !.yngr[p] = Last(line), !.num[p] = @ + Len(line)]
  IN FoldLeft(LAMBDA z, m : Deep(z, m, x.depth[p] + 1), linked, line)

add_tTree(p, n) ==
  /\ \A m \in ToSet(Walk(t.ysis, Eldest(t, n))) : Other(p, m)
  /\ torn' = (n \in anchors \/ t.prev[n] # Null \/ Stale(t, n))
  /\ Keep /\ t' = Joined(t, p, n)

(* json_insert_child of Lib/tjson.c: the members of the object c go to the  *)
(* object p, and c is freed, wherever it is; an anchor stands for its       *)
(* eldest child.  add_tTree takes all members at the first one, and at the  *)
(* second it closes them to a circle and follows it for ever.               *)
Inside(n) == IF n \in anchors THEN t.next[n] ELSE n
json_insert_child(parent, child) ==
  LET p == Inside(parent)  c == Inside(child)
  IN /\ Null \notin {p, c} /\ {p, c} \cap anchors = {} /\ Other(p, c)
     /\ Free(IF t.next[c] = Null THEN t ELSE Joined(t, p, t.next[c]), {c})
     /\ torn' = (~Lone(t, c) \/ Len(Children(t, c)) > 1)

(* div_tTree: n forgets its parent, but not its sisters. *)
div_tTree(n) ==
  LET p == t.prev[n]
      x == [t EXCEPT !.next = IF @[p] = n THEN [@ EXCEPT ![p] = t.ysis[n]] ELSE @,
                     !.yngr = IF @[p] = n THEN [@ EXCEPT ![p] = t.esis[n]] ELSE @,
                     !.esis = Put(@, t.ysis[n], t.esis[n]), !.ysis = Put(@, t.esis[n], t.ysis[n]),
                     !.num[p] = @ - 1]
  IN /\ p # Null /\ Keep /\ UNCHANGED torn
     /\ t' = [Deep(x, n, 0) EXCEPT !.prev[n] = Null]

(* Two trees change places: a takes the links of b, and b those of a. *)
Instead(f, p, a, b) == IF p # Null /\ f[p] = a THEN [f EXCEPT ![p] = b] ELSE f
Exchanged(x, a, b) ==
  LET Ends(f) == Instead(Instead(f, x.prev[a], a, b), x.prev[b], b, a)
      Sis(f, g) ==  \* f of the sisters that g leads to, then of a and b
        LET b1 == Put(f, g[a], b)
            b2 == [b1 EXCEPT ![b] = b1[a]]
        IN [Put(b2, g[b], a) EXCEPT ![a] = f[b]]
  IN Deep(Deep([x EXCEPT !.ysis = Sis(@, x.esis), !.esis = Sis(@, x.ysis),
                         !.next = Ends(@), !.yngr = Ends(@),
                         !.prev[a] = x.prev[b], !.prev[b] = x.prev[a]],
               b, x.depth[a]), a, x.depth[b])

(* Neighbours come to be sisters of themselves, and children of one parent  *)
(* exchange its links to them twice.                                        *)
exchange_tTree(a, b) ==
  /\ Other(a, b) /\ Other(b, a) /\ Keep
  /\ torn' = \/ {a, b} \cap anchors # {} \/ Stale(t, a) \/ Stale(t, b)
             \/ t.prev[a] # Null /\ t.prev[a] = t.prev[b]
             \/ t.ysis[a] = b \/ t.ysis[b] = a
  /\ t' = Exchanged(t, a, b)

(* The nodes of the domain of c are copied to c; children are hung below a  *)
(* copy that has the count of the original already.                         *)
Copied(x, c) ==
  LET image(m) == IF m \in DOMAIN c THEN c[m] ELSE Null
      of(k)    == CHOOSE m \in DOMAIN c : c[m] = k
      copy(f)  == [k \in Nodes |-> IF k \notin Range(c) THEN f[k] ELSE image(f[of(k)])]
  IN [x EXCEPT !.next = copy(@), !.prev = copy(@), !.yngr = copy(@),
               !.esis = copy(@), !.ysis = copy(@),
               !.num = [k \in Nodes |-> IF k \notin Range(c) THEN @[k] ELSE 2 * @[of(k)]]]

(* The line of n is copied below p; n is not below p already, or the loop   *)
(* would go on with its own copies.                                         *)
dup_merge_tTree(p, n) ==
  LET line  == Walk(t.ysis, Eldest(t, n))
      whole == UNION {Tree(t, m) : m \in ToSet(line)}
  IN /\ p \notin whole /\ t.prev[n] # p
     /\ \E c \in [whole -> Nodes \ live] :
          /\ IsInjective(c)
          /\ live' = live \cup Range(c)
          /\ anchors' = anchors \cup {c[m] : m \in whole \cap anchors}
          /\ t' = Joined(Copied(t, c), p, c[line[1]])
     /\ torn' = (whole \cap anchors # {} \/ Stale(t, n) \/ \E m \in whole : t.num[m] > 0)
-----------------------------------------------------------------------------
Next ==
  /\ ~torn
  /\ \/ \E n \in Nodes : new_tTree_node(n) \/ new_tTree_anchor_node(n)
     \/ \E n \in live :
          \/ del_tTree_node(n) \/ del_tTree(n) \/ del_children_tTree(n) \/ del_sisters_tTree(n)
          \/ del_sisters_children_tTree(n) \/ del_all_tTree(n) \/ div_tTree(n)
     \/ \E p, n \in live :
          \/ add_tTree_node(p, n) \/ insert_tTree_node(p, n) \/ move_tTree_node(p, n)
          \/ add_tTree(p, n) \/ json_insert_child(p, n)
          \/ exchange_tTree(p, n) \/ dup_merge_tTree(p, n)
Spec == Init /\ [][Next]_vars
-----------------------------------------------------------------------------
(* The links of live nodes lead to live nodes, and those of a node and its *)
(* children say the same: next and yngr are the ends of the sisters, esis  *)
(* turns ysis round, prev is the parent, num and depth count.  What a call *)
(* deletes is in no link (all functions of ttree.c, while none tore them). *)
LinksAgree ==
  ~torn => \A n \in live :
    LET s == Children(t, n)
    IN /\ ToSet(s) \subseteq live /\ IsInjective(s) /\ t.num[n] = Len(s)
       /\ t.yngr[n] = IF s = <<>> THEN Null ELSE Last(s)
       /\ \A i \in DOMAIN s :
            /\ t.prev[s[i]] = n /\ t.depth[s[i]] = t.depth[n] + 1
            /\ t.esis[s[i]] = IF i = 1 THEN Null ELSE s[i - 1]
       /\ t.prev[n] # Null => n \in ToSet(Children(t, t.prev[n]))
       /\ t.prev[n] = Null => t.depth[n] = IF n \in anchors THEN -1 ELSE 0

(* The trees, read off the links. *)
Lines == {IF Stale(t, n) THEN <<n>> ELSE Walk(t.ysis, n)
            : n \in {m \in live : t.prev[m] = Null /\ (t.esis[m] = Null \/ Stale(t, m))}}
Kids  == [n \in Nodes |-> IF n \in live THEN Children(t, n) ELSE <<>>]
F == INSTANCE Forest WITH lines <- Lines, kids <- Kids

(* Every call does to the trees what the comment on it says, and nothing   *)
(* else: sisters keep their order, children take the place of their parent,*)
(* what is below a node goes or stays with it.                             *)
Keeps(p, n) ==
  /\ add_tTree_node(p, n)    => F!AddNode(p, n)
  /\ insert_tTree_node(p, n) => F!InsertNode(p, n)
  /\ move_tTree_node(p, n)   => F!MoveNode(p, n)
  /\ add_tTree(p, n)         => F!AddTree(p, n)
  /\ json_insert_child(p, n) => F!JoinKids(Inside(p), n)
  /\ exchange_tTree(p, n)    => F!Exchange(p, n)
  /\ dup_merge_tTree(p, n)   => F!DupMerge(p, n)
KeepsAlone(n) ==
  /\ new_tTree_node(n) \/ new_tTree_anchor_node(n) => F!NewNode(n)
  /\ n \in live =>
       /\ del_tTree_node(n)     => F!DelNode(n)
       /\ del_tTree(n)          => F!DelTree(n)
       /\ del_children_tTree(n) => F!DelChildren(n)
       /\ del_sisters_tTree(n)  => F!DelSisters(n)
       /\ del_all_tTree(n)      => F!DelAll(n)
       /\ div_tTree(n)          => F!DivTree(n)
CallsKeepPromises ==
  [][~torn' => (\A n \in Nodes : KeepsAlone(n)) /\ (\A p, n \in live : Keeps(p, n))]_vars
=============================================================================
