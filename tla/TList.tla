------------------------------- MODULE TList -------------------------------
(***************************************************************************)
(* The Tiny List, Lib/tlist.c: nodes on the heap that are linked by next   *)
(* and prev.  There is no list object: a list is known by any pointer to   *)
(* one of its nodes.  Nodes are malloc'ed and freed; the data of a node is *)
(* abstracted to its key.  One call runs at a time, and is called with     *)
(* nodes that exist; what is inserted or appended is the top of another    *)
(* list, and a node is not moved behind itself.                            *)
(***************************************************************************)
EXTENDS Integers, FiniteSets

CONSTANTS
  Node,   (* addresses malloc can return                                   *)
  Key,    (* keys of nodes                                                 *)
  Null

ASSUME NullAssumption == Null \notin Node \cup Key
ASSUME NodeAssumption == IsFiniteSet(Node)

VARIABLES
  heap,   (* the nodes that are allocated                                  *)
  next, prev, key,  (* their fields                                        *)
  call,   (* del_tList_key: its loop and the caller's pointer *pl          *)
  want    (* history: the order of the list that del_tList_key should leave *)

vars  == <<heap, next, prev, key, call, want>>
links == <<heap, next, prev>>
loop  == <<call, want>>

Link == Node \cup {Null}
Idle == [busy |-> FALSE, at |-> Null, pl |-> Null, key |-> Null, no |-> 0, nn |-> 0, top |-> FALSE]

(* The nodes one can reach from n along f: next or prev. *)
Reach(f, n) == {m \in Node : \A S \in SUBSET Node :
                  (n \in S /\ \A x \in S : f[x] \in S \cup {Null}) => m \in S}

(* find_tList_end, if its loop ends. *)
IsEnd(n, e) == e \in Reach(next, n) /\ next[e] = Null

(* An assignment to a field of n, when n is a node. *)
Set(f, n, v) == IF n = Null THEN f ELSE [f EXCEPT ![n] = v]

Init == /\ heap = {} /\ call = Idle /\ want = {}
        /\ next = [n \in Node |-> Null] /\ prev = next /\ key = next
-----------------------------------------------------------------------------
Fresh(n, k) == n \in Node \ heap /\ heap' = heap \cup {n} /\ key' = [key EXCEPT ![n] = k]

(* add_tList_node_bydata, _bystr and _byBuffer: without a list... *)
NewNode(n, k) == Fresh(n, k) /\ UNCHANGED <<next, prev, loop>>

(* ...and behind the node p. *)
AddBehind(p, n) == /\ next' = [next EXCEPT ![n] = next[p], ![p] = n]
                   /\ prev' = Set([prev EXCEPT ![n] = p], next[p], n)
AddNode(p, n, k) == Fresh(n, k) /\ p \in heap /\ AddBehind(p, n) /\ UNCHANGED loop

(* free_tList_node takes the node n out of its list; del_tList_node frees it. *)
UnlinkForward(n) ==  \* a slip: the node behind n keeps its prev
  next' = [Set(next, prev[n], next[n]) EXCEPT ![n] = Null] /\ prev' = [prev EXCEPT ![n] = Null]

Unlink(n) == /\ next' = [Set(next, prev[n], next[n]) EXCEPT ![n] = Null]
             /\ prev' = [Set(prev, next[n], prev[n]) EXCEPT ![n] = Null]
Free(S)   == heap' = heap \ S /\ key' = [n \in Node |-> IF n \in S THEN Null ELSE key[n]]

DelNode(n) == n \in heap /\ Unlink(n) /\ Free({n}) /\ UNCHANGED loop

(* move_tList_node: n goes from its list to the place behind p. *)
MoveNodeEarly(p, n) ==  \* a slip: p->next is read before n is taken out
  /\ p \in heap /\ n \in heap /\ p # n
  /\ LET nx == Set(next, prev[n], next[n])
         pv == Set(prev, next[n], prev[n])
     IN  /\ next' = [nx EXCEPT ![n] = next[p], ![p] = n]
         /\ prev' = Set([pv EXCEPT ![n] = p], next[p], n)
  /\ UNCHANGED <<heap, key, loop>>

MoveNode(p, n) ==
  /\ p \in heap /\ n \in heap /\ p # n
  /\ LET nx == Set(next, prev[n], next[n])
         pv == Set(prev, next[n], prev[n])
     IN  /\ next' = [nx EXCEPT ![n] = nx[p], ![p] = n]
         /\ prev' = Set([pv EXCEPT ![n] = p], nx[p], n)
  /\ UNCHANGED <<heap, key, loop>>

(* swap_tList_node exchanges the data, and the links stay. *)
SwapNode(n, m) == /\ n \in heap /\ m \in heap
                  /\ key' = [key EXCEPT ![n] = key[m], ![m] = key[n]]
                  /\ UNCHANGED <<links, loop>>

(* del_tList: n and all that is behind it; the node before n is the end. *)
DelList(n) == /\ n \in heap
              /\ LET S == Reach(next, n)
                 IN  /\ Free(S)
                     /\ next' = [m \in Node |-> IF m \in S \cup {prev[n]} THEN Null ELSE next[m]]
                     /\ prev' = [m \in Node |-> IF m \in S THEN Null ELSE prev[m]]
              /\ UNCHANGED loop

(* del_all_tList: the whole list, wherever in it n is. *)
DelAll(n) == /\ n \in heap
             /\ LET S == Reach(next, n) \cup Reach(prev, n)
                IN  /\ Free(S)
                    /\ next' = [m \in Node |-> IF m \in S THEN Null ELSE next[m]]
                    /\ prev' = [m \in Node |-> IF m \in S THEN Null ELSE prev[m]]
             /\ UNCHANGED loop

OtherList(p, t) == p \in heap /\ t \in heap /\ prev[t] = Null /\ p \notin Reach(next, t)

(* insert_tList: the list t behind p. *)
Insert(p, t) == /\ OtherList(p, t)
                /\ \E e \in heap :
                     /\ IsEnd(t, e)
                     /\ prev' = [Set(prev, next[p], e) EXCEPT ![t] = p]
                     /\ next' = [next EXCEPT ![e] = next[p], ![p] = t]
                /\ UNCHANGED <<heap, key, loop>>

AddEndHere(p, t) ==  \* a slip: the end is not looked for, the list goes behind p
  /\ OtherList(p, t)
  /\ \E e \in heap : /\ IsEnd(t, e)
                     /\ next' = [next EXCEPT ![p] = t, ![e] = next[p]]
                     /\ prev' = [Set(prev, next[p], e) EXCEPT ![t] = p]
  /\ UNCHANGED <<heap, key, loop>>

(* add_tList_end: the list t behind the end of the list p is in. *)
AddEnd(p, t) == /\ OtherList(p, t)
                /\ \E e \in heap : /\ IsEnd(p, e)
                                   /\ next' = [next EXCEPT ![e] = t]
                                   /\ prev' = [prev EXCEPT ![t] = e]
                /\ UNCHANGED <<heap, key, loop>>

(* dup_tList: copies of n and what is behind it; copy maps them to theirs.  *)
DupOf(n, copy) ==
  /\ heap' = heap \cup {copy[m] : m \in DOMAIN copy}
  /\ LET Orig(c) == CHOOSE m \in DOMAIN copy : copy[m] = c
         IsCopy(c) == \E m \in DOMAIN copy : copy[m] = c
         Copied(l) == IF l = Null THEN Null ELSE copy[l]
     IN  /\ next' = [c \in Node |-> IF IsCopy(c) THEN Copied(next[Orig(c)]) ELSE next[c]]
         /\ prev' = [c \in Node |-> IF ~IsCopy(c) THEN prev[c]
                                    ELSE IF Orig(c) = n THEN Null ELSE Copied(prev[Orig(c)])]
         /\ key'  = [c \in Node |-> IF IsCopy(c) THEN key[Orig(c)] ELSE key[c]]
Dup(n) == /\ n \in heap /\ (\E e \in heap : IsEnd(n, e))
          /\ \E copy \in [Reach(next, n) -> Node \ heap] :
               /\ \A x, y \in DOMAIN copy : copy[x] = copy[y] => x = y
               /\ DupOf(n, copy)
          /\ UNCHANGED loop

(* strncmp_tList finds m: the first node of key k from p on. *)
Finds(p, k, m) == /\ m \in Reach(next, p) /\ key[m] = k
                  /\ \A x \in Reach(next, p) : key[x] = k => x \in Reach(next, m)

(* update_tList_node_bydata and its variants: the node of key k from p on   *)
(* gets the data, which may have another key; or there is a new one at the  *)
(* end.                                                                     *)
Update(p, n, k, new) ==
  /\ p \in heap
  /\ \/ (\E m \in heap : Finds(p, k, m) /\ key' = [key EXCEPT ![m] = new]) /\ UNCHANGED links
     \/ /\ \A m \in Reach(next, p) : key[m] # k
        /\ Fresh(n, new)
        /\ \E e \in heap : IsEnd(p, e) /\ AddBehind(e, n)
  /\ UNCHANGED loop
-----------------------------------------------------------------------------
(* del_tList_key, one turn of its loop at a time.  top is history: was it   *)
(* called with the top of a list?                                           *)
(* What it should leave of the list from n on: the nodes without the        *)
(* no-th match, or without all of them, and in which order they come.       *)
Listed(n)           == IF n = Null THEN {} ELSE Reach(next, n)
Order(S)            == {xy \in S \X S : xy[2] \in Reach(next, xy[1])}
Matches(n, k)       == {m \in Listed(n) : key[m] = k}
Which(m, n, k)      == Cardinality({x \in Matches(n, k) : m \in Reach(next, x)})
Victims(n, k, no)   == {m \in Matches(n, k) : no \in {0, Which(m, n, k)}}
Remaining(n, k, no) == Order(Listed(n) \ Victims(n, k, no))

DelKey(n, k, no) ==
  /\ n \in heap
  /\ call' = [Idle EXCEPT !.busy = TRUE, !.at = n, !.pl = n, !.key = k, !.no = no,
                          !.top = prev[n] = Null]
  /\ want' = Remaining(n, k, no)
  /\ UNCHANGED <<links, key>>

Hit == key[call.at] = call.key

DelKeyPass ==
  /\ call.at # Null /\ ~(Hit /\ call.no \in {0, call.nn + 1})
  /\ call' = [call EXCEPT !.nn = @ + (IF Hit THEN 1 ELSE 0), !.at = next[@]]
  /\ UNCHANGED <<links, key, want>>

DelKeyDeleteOnce ==  \* a slip: *pl moves for the first deletion only
  /\ call.at # Null /\ Hit /\ call.no \in {0, call.nn + 1}
  /\ Unlink(call.at) /\ Free({call.at})
  /\ call' = [call EXCEPT !.nn = @ + 1,
                          !.at = IF call.no = 0 THEN next[@] ELSE Null,
                          !.pl = IF prev[call.at] = Null /\ call.nn = 0 THEN next[call.at] ELSE @]
  /\ UNCHANGED want

DelKeyDeleteOn ==  \* a slip: the loop goes on behind the no-th match
  /\ call.at # Null /\ Hit /\ call.no \in {0, call.nn + 1}
  /\ Unlink(call.at) /\ Free({call.at})
  /\ call' = [call EXCEPT !.nn = @ + 1, !.at = next[@],
                          !.pl = IF prev[call.at] = Null THEN next[call.at] ELSE @]
  /\ UNCHANGED want

DelKeyDelete ==
  /\ call.at # Null /\ Hit /\ call.no \in {0, call.nn + 1}
  /\ Unlink(call.at) /\ Free({call.at})
  /\ call' = [call EXCEPT !.nn = @ + 1,
                          !.at = IF call.no = 0 THEN next[@] ELSE Null,
                          !.pl = IF prev[call.at] = Null THEN next[call.at] ELSE @]
  /\ UNCHANGED want

DelKeyReturn == call.busy /\ call.at = Null /\ call' = Idle /\ want' = {} /\ UNCHANGED <<links, key>>

CallOne == \/ \E n \in Node, k \in Key : NewNode(n, k) \/ \E p \in Node : AddNode(p, n, k)
           \/ \E p, n \in Node, k, new \in Key : Update(p, n, k, new)
           \/ \E n \in Node : DelNode(n) \/ DelList(n) \/ DelAll(n) \/ Dup(n)
           \/ \E p, n \in Node : MoveNode(p, n) \/ SwapNode(p, n) \/ Insert(p, n) \/ AddEnd(p, n)

Next == \/ ~call.busy /\ CallOne
        \/ ~call.busy /\ \E n \in Node, k \in Key, no \in 0 .. 2 : DelKey(n, k, no)
        \/ DelKeyPass \/ DelKeyDelete \/ DelKeyReturn

Spec == Init /\ [][Next]_vars
-----------------------------------------------------------------------------
Call == [busy : BOOLEAN, at : Link, pl : Link, key : Key \cup {Null}, no : 0 .. 2,
         nn : 0 .. Cardinality(Node), top : BOOLEAN]

TypeOK == /\ heap \subseteq Node
          /\ next \in [Node -> Link] /\ prev \in [Node -> Link] /\ key \in [Node -> Key \cup {Null}]
          /\ call \in Call /\ (call.no # 0 => call.nn <= call.no)
          /\ want \subseteq Node \X Node

(* next and prev of allocated nodes lead to allocated nodes and are each    *)
(* other's inverse; nothing points to freed memory.                         *)
LinksAgree == \A n \in Node :
                /\ next[n] # Null => n \in heap /\ next[n] \in heap /\ prev[next[n]] = n
                /\ prev[n] # Null => n \in heap /\ prev[n] \in heap /\ next[prev[n]] = n

(* No list runs in a circle: the loops over a list end. *)
NoCircle == \A n \in heap : (\E e \in heap : IsEnd(n, e)) /\ (\E t \in Reach(prev, n) : prev[t] = Null)

(* When del_tList_key was called with the top of a list, the caller's       *)
(* pointer is the top of what is left, and this is what should be left.     *)
KeyDeleted == call.busy /\ call.at = Null /\ call.top =>
                (call.pl # Null => prev[call.pl] = Null) /\ Order(Listed(call.pl)) = want

(* The lists as sequences: all that is reached from n, each behind the one  *)
(* whose f it is.                                                           *)
Along(f, n) ==
  LET nodes == Reach(f, n)
  IN  CHOOSE l \in [1 .. Cardinality(nodes) -> nodes] :
        l[1] = n /\ \A i \in DOMAIN l \ {1} : l[i] = f[l[i - 1]]

Lists == {Along(next, t) : t \in {n \in heap : prev[n] = Null}}
A == INSTANCE NodeLists WITH lists <- Lists

(* Each function does to the lists what it promises. *)
Promises ==
  /\ \A n \in Node, k \in Key : /\ NewNode(n, k) => A!NewNode(n, k)
                                /\ \A p \in Node : AddNode(p, n, k) => A!AddNode(p, n, k)
  /\ \A p, n \in Node, k, new \in Key : Update(p, n, k, new) => A!Update(p, n, k, new)
  /\ \A n \in Node : /\ DelNode(n) => A!DelNode(n)
                     /\ DelList(n) => A!DelList(n)
                     /\ DelAll(n) => A!DelAll(n)
                     /\ Dup(n) => A!Dup(n)
  /\ \A p, n \in Node : /\ MoveNode(p, n) => A!MoveNode(p, n)
                        /\ SwapNode(p, n) => A!SwapNode(p, n)
                        /\ Insert(p, n) => A!Insert(p, n)
                        /\ AddEnd(p, n) => A!AddEnd(p, n)

(* Whatever the lists are, each call on them does what NodeLists promises   *)
(* of it and leaves the other lists as they were.                           *)
CallsKeepPromises == [][Promises]_vars
=============================================================================
