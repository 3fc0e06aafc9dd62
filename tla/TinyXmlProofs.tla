---------------------------- MODULE TinyXmlProofs ----------------------------
(***************************************************************************)
(* However a document is cut and whatever errors it has: the nodes that    *)
(* xml_parse and xml_parse_seq have left open are one chain that ends at   *)
(* the node they hand on, for any names and any length of the document.    *)
(* And what xml_parse says of a document is right: the grammar is one      *)
(* equation with one solution, which counting the open elements solves,    *)
(* and the tree is what was read (Reads) after every token that is taken.  *)
(***************************************************************************)
EXTENDS TinyXml, TLAPS, NaturalsInduction, WellFoundedInduction, FiniteSetTheorems

AnchorState == {"ANCHOR", "DEFAULT", "PARSED", "NOT_CLOSED", "MULTI_ROOT", "PARSE_ERROR"}

(* The tree as a tree: every node but the anchor is below an earlier one.   *)
Typed(nodes, at) ==
  /\ nodes \in Seq(Node) /\ nodes # <<>> /\ at \in DOMAIN nodes
  /\ nodes[Top].state \in AnchorState
  /\ \A i \in DOMAIN nodes : nodes[i].prev < i /\ (i # Top => nodes[i].prev > 0)

Chain(nodes, at) ==
  /\ at \in PendingIn(nodes) \cup {Top}
  /\ \A i \in PendingIn(nodes) : nodes[i].prev \in PendingIn(nodes) \cup {Top}
  /\ \A i \in PendingIn(nodes) : nodes[i].prev # at
  /\ \A i, j \in PendingIn(nodes) : nodes[i].prev = nodes[j].prev => i = j

Tree(nodes, at) == Typed(nodes, at) /\ Chain(nodes, at)

Flow == /\ entry \in {"none", "parse", "seq"}
        /\ pc \in {"idle", "skip", "begin", "loop", "stopped", "over"}
        /\ text \in BOOLEAN
        /\ entry = "none" => pc = "idle"

IInv == Flow /\ Typed(tree, xml) /\ (pc # "over" => Chain(tree, xml))
-----------------------------------------------------------------------------
(* A node hung below the current one, which stays the current one.          *)
LEMMA LeafKeepsTree ==
  ASSUME NEW nodes, NEW at, Tree(nodes, at), NEW node \in Node,
         node.prev = at, node.state \in {"CLOSED", "EMPTY"}
  PROVE  Tree(Append(nodes, node), at)
<1> DEFINE more == Append(nodes, node)
<1>1. /\ nodes \in Seq(Node) /\ at \in DOMAIN nodes /\ DOMAIN nodes = 1 .. Len(nodes)
      /\ Len(nodes) \in Nat \ {0}
  BY DEF Tree, Typed
<1>2. /\ more \in Seq(Node) /\ more # <<>> /\ DOMAIN more = 1 .. Len(nodes) + 1
      /\ \A i \in 1 .. Len(nodes) : more[i] = nodes[i]
      /\ more[Len(nodes) + 1] = node
  BY <1>1
<1> HIDE DEF more
<1>3. Typed(more, at)
  BY <1>1, <1>2 DEF Tree, Typed, Top, AnchorState
<1>4. PendingIn(more) = PendingIn(nodes)
  BY <1>1, <1>2 DEF PendingIn
<1>5. \A i \in PendingIn(nodes) : more[i] = nodes[i]
  BY <1>1, <1>2 DEF PendingIn
<1>6. Chain(more, at)
  BY <1>4, <1>5 DEF Tree, Chain
<1> QED  BY <1>3, <1>6 DEF Tree, more

(* A node that is opened becomes the current one. *)
LEMMA EnterKeepsTree ==
  ASSUME NEW nodes, NEW at, Tree(nodes, at), NEW node \in Node,
         node.prev = at, node.state = "OPENED"
  PROVE  Tree(Append(nodes, node), Len(nodes) + 1)
<1> DEFINE more == Append(nodes, node)
           new  == Len(nodes) + 1
<1>1. /\ nodes \in Seq(Node) /\ at \in DOMAIN nodes /\ DOMAIN nodes = 1 .. Len(nodes)
      /\ Len(nodes) \in Nat \ {0}
  BY DEF Tree, Typed
<1>2. /\ more \in Seq(Node) /\ more # <<>> /\ DOMAIN more = 1 .. Len(nodes) + 1
      /\ \A i \in 1 .. Len(nodes) : more[i] = nodes[i]
      /\ more[new] = node
  BY <1>1
<1> HIDE DEF more
<1>3. Typed(more, new)
  BY <1>1, <1>2 DEF Tree, Typed, Top, AnchorState
<1>4. PendingIn(more) = PendingIn(nodes) \cup {new}
  BY <1>1, <1>2 DEF PendingIn, Top
<1>5. \A i \in PendingIn(nodes) : more[i] = nodes[i] /\ i # new
  BY <1>1, <1>2 DEF PendingIn
<1>6. \A i \in PendingIn(nodes) : nodes[i].prev # new
  BY <1>1 DEF PendingIn, Tree, Typed, Node
<1>7. new # at /\ more[new].prev = at
  BY <1>1, <1>2
<1> HIDE DEF new
<1>8. Chain(more, new)
  BY <1>4, <1>5, <1>6, <1>7 DEF Tree, Chain
<1> QED  BY <1>3, <1>8 DEF Tree, more, new

(* An error of the current node leaves it where it is. *)
LEMMA FailKeepsTree ==
  ASSUME NEW nodes, NEW at, Tree(nodes, at)
  PROVE  Tree([nodes EXCEPT ![at].state = "PARSE_ERROR"], at)
<1> DEFINE marked == [nodes EXCEPT ![at].state = "PARSE_ERROR"]
<1>1. /\ nodes \in Seq(Node) /\ at \in DOMAIN nodes /\ DOMAIN nodes = 1 .. Len(nodes)
      /\ Len(nodes) \in Nat \ {0}
  BY DEF Tree, Typed
<1>2. [nodes[at] EXCEPT !.state = "PARSE_ERROR"] \in Node
  <2>1. nodes[at] \in Node
    BY <1>1
  <2> QED  BY <2>1 DEF Node
<1>3. /\ marked \in Seq(Node) /\ marked # <<>> /\ DOMAIN marked = DOMAIN nodes
      /\ \A i \in DOMAIN nodes : marked[i].prev = nodes[i].prev
      /\ \A i \in DOMAIN nodes : i # at => marked[i] = nodes[i]
      /\ marked[at].state = "PARSE_ERROR"
  BY <1>1, <1>2 DEF Node
<1> HIDE DEF marked
<1>4. Typed(marked, at)
  BY <1>1, <1>3 DEF Tree, Typed, Top, AnchorState
<1>5. PendingIn(marked) = PendingIn(nodes)
  BY <1>1, <1>3 DEF PendingIn, Tree, Chain
<1>6. \A i \in PendingIn(nodes) : marked[i].prev = nodes[i].prev
  BY <1>3 DEF PendingIn
<1>7. Chain(marked, at)
  BY <1>5, <1>6 DEF Tree, Chain
<1> QED  BY <1>4, <1>7 DEF Tree, marked

(* The end tag of the current node leads to its parent. *)
LEMMA EndKeepsTree ==
  ASSUME NEW nodes, NEW at, Tree(nodes, at), nodes[at].state = "OPENED",
         NEW s \in {"EMPTY", "CLOSED"}
  PROVE  Tree([nodes EXCEPT ![at].state = s], nodes[at].prev)
<1> DEFINE marked == [nodes EXCEPT ![at].state = s]
           up     == nodes[at].prev
<1>1. /\ nodes \in Seq(Node) /\ at \in DOMAIN nodes /\ DOMAIN nodes = 1 .. Len(nodes)
      /\ Len(nodes) \in Nat \ {0}
  BY DEF Tree, Typed
<1>2. [nodes[at] EXCEPT !.state = s] \in Node
  <2>1. nodes[at] \in Node
    BY <1>1
  <2> QED  BY <2>1 DEF Node
<1>3. /\ marked \in Seq(Node) /\ marked # <<>> /\ DOMAIN marked = DOMAIN nodes
      /\ \A i \in DOMAIN nodes : marked[i].prev = nodes[i].prev
      /\ \A i \in DOMAIN nodes : i # at => marked[i] = nodes[i]
      /\ marked[at].state = s
  BY <1>1, <1>2 DEF Node
<1>4. at # Top /\ at \in PendingIn(nodes)
  BY <1>1 DEF Tree, Typed, PendingIn, AnchorState
<1>5. up \in DOMAIN nodes /\ up # at
  <2>1. nodes[at].prev \in Nat /\ at \in Nat
    <3>1. nodes[at] \in Node
      BY <1>1
    <3> QED  BY <1>1, <3>1 DEF Node
  <2>2. nodes[at].prev < at /\ nodes[at].prev > 0
    BY <1>1, <1>4 DEF Tree, Typed
  <2> QED  BY <1>1, <2>1, <2>2
<1> HIDE DEF marked
<1>6. Typed(marked, up)
  BY <1>1, <1>3, <1>4, <1>5 DEF Tree, Typed, Top, AnchorState
<1>7. PendingIn(marked) = PendingIn(nodes) \ {at}
  BY <1>1, <1>3 DEF PendingIn
<1>8. \A i \in PendingIn(nodes) : marked[i].prev = nodes[i].prev
  BY <1>3 DEF PendingIn
<1>9. Chain(marked, up)
  BY <1>4, <1>5, <1>7, <1>8 DEF Tree, Chain
<1> QED  BY <1>6, <1>9 DEF Tree, marked, up

(* So every turn of the loop keeps the tree. *)
LEMMA StepKeepsTree ==
  ASSUME NEW nodes, NEW at, Tree(nodes, at), NEW tok \in Token
  PROVE  LET p == Step(At(nodes, at, TRUE), tok)
         IN  Tree(p.nodes, p.at) /\ p.ok \in BOOLEAN
<1> DEFINE p == At(nodes, at, TRUE)
<1>1. p.nodes = nodes /\ p.at = at /\ at \in Nat
  BY DEF At, Tree, Typed
<1>2. tok.name \in Name \cup {NoName}
  BY DEF Token
<1> SUFFICES Tree(Step(p, tok).nodes, Step(p, tok).at) /\ Step(p, tok).ok \in BOOLEAN
  OBVIOUS
<1>3. /\ Fail(p).nodes = [nodes EXCEPT ![at].state = "PARSE_ERROR"]
      /\ Fail(p).at = at /\ Fail(p).ok = FALSE
  BY <1>1 DEF Fail, At
<1>4. Tree(Fail(p).nodes, Fail(p).at) /\ Fail(p).ok \in BOOLEAN
  BY <1>3, FailKeepsTree
<1>5. ASSUME NEW id \in {"content", "name", "aside"}, NEW name \in Name \cup {NoName},
             NEW s \in {"CLOSED", "EMPTY"}
      PROVE  LET q == Leaf(p, NewNode(id, name, p.at, s))
             IN  Tree(q.nodes, q.at) /\ q.ok \in BOOLEAN
  <2>1. NewNode(id, name, at, s) \in Node /\ NewNode(id, name, at, s).prev = at
        /\ NewNode(id, name, at, s).state = s
    BY <1>1 DEF NewNode, Node
  <2>2. Tree(Append(nodes, NewNode(id, name, at, s)), at)
    BY <2>1, LeafKeepsTree
  <2> QED  BY <1>1, <2>2 DEF Leaf, At
<1>6. CASE tok.t = "start"
  <2>1. NewNode("name", tok.name, at, "OPENED") \in Node
        /\ NewNode("name", tok.name, at, "OPENED").prev = at
        /\ NewNode("name", tok.name, at, "OPENED").state = "OPENED"
    BY <1>1, <1>2 DEF NewNode, Node
  <2>2. Tree(Append(nodes, NewNode("name", tok.name, at, "OPENED")), Len(nodes) + 1)
    BY <2>1, EnterKeepsTree
  <2>3. Step(p, tok) = Enter(p, NewNode("name", tok.name, p.at, "OPENED"))
    BY <1>6 DEF Step
  <2> HIDE DEF p
  <2>4. Step(p, tok)
          = At(Append(nodes, NewNode("name", tok.name, at, "OPENED")), Len(nodes) + 1, TRUE)
    BY <1>1, <2>3 DEF Enter
  <2>5. /\ Step(p, tok).nodes = Append(nodes, NewNode("name", tok.name, at, "OPENED"))
        /\ Step(p, tok).at = Len(nodes) + 1 /\ Step(p, tok).ok = TRUE
    BY <2>4 DEF At
  <2> QED  BY <2>2, <2>5
<1>7. CASE tok.t = "empty"
  <2>1. Step(p, tok) = Leaf(p, NewNode("name", tok.name, p.at, "EMPTY"))
    BY <1>7 DEF Step
  <2> QED  BY <1>2, <1>5, <2>1
<1>8. CASE tok.t = "end"
  <2>1. Step(p, tok) = EndTag(p, tok.name)
    BY <1>8 DEF Step
  <2>2. CASE IsOpen(p) /\ p.nodes[p.at].name = tok.name
    <3> DEFINE s == IF Children(p.nodes, p.at) = {} THEN "EMPTY" ELSE "CLOSED"
    <3>1. s \in {"EMPTY", "CLOSED"} /\ nodes[at].state = "OPENED"
      BY <1>1, <2>2 DEF IsOpen
    <3>2. EndTag(p, tok.name) = At([nodes EXCEPT ![at].state = s], nodes[at].prev, TRUE)
      BY <1>1, <2>2 DEF EndTag
    <3> HIDE DEF s, p
    <3>3. Tree([nodes EXCEPT ![at].state = s], nodes[at].prev)
      BY <3>1, EndKeepsTree
    <3>4. /\ Step(p, tok).nodes = [nodes EXCEPT ![at].state = s]
          /\ Step(p, tok).at = nodes[at].prev /\ Step(p, tok).ok = TRUE
      BY <2>1, <3>2 DEF At
    <3> QED  BY <3>3, <3>4
  <2>3. CASE ~(IsOpen(p) /\ p.nodes[p.at].name = tok.name)
    BY <1>4, <2>1, <2>3 DEF EndTag
  <2> QED  BY <2>2, <2>3
<1>9. CASE tok.t = "text"
  <2>1. Step(p, tok) = Text(p)
    BY <1>9 DEF Step
  <2> QED  BY <1>4, <1>5, <2>1 DEF Text
<1>10. CASE tok.t = "aside"
  <2>1. Step(p, tok) = Leaf(p, NewNode("aside", NoName, p.at, "EMPTY"))
    BY <1>10 DEF Step
  <2> QED  BY <1>5, <2>1
<1>11. CASE tok.t = "bad"
  <2>1. Step(p, tok) = Refuse(p)
    BY <1>11 DEF Step
  <2>2. Step(p, tok).nodes = nodes /\ Step(p, tok).at = at /\ Step(p, tok).ok = FALSE
    BY <1>1, <2>1 DEF Refuse, At
  <2> HIDE DEF p
  <2> QED  BY <2>2
<1>12. CASE tok.t = "blank"
  <2>1. Step(p, tok) = Blank(p)
    BY <1>12 DEF Step
  <2>2. p.ok = TRUE
    BY DEF At
  <2> HIDE DEF p
  <2> QED  BY <1>1, <1>4, <2>1, <2>2 DEF Blank
<1> HIDE DEF p
<1> QED  BY <1>6, <1>7, <1>8, <1>9, <1>10, <1>11, <1>12 DEF Token
-----------------------------------------------------------------------------
(* What is done to the anchor's state does not matter to the chain.         *)
LEMMA TopKeepsTree ==
  ASSUME NEW nodes, NEW at, Typed(nodes, at),
         NEW s \in AnchorState
  PROVE  /\ Typed([nodes EXCEPT ![Top].state = s], at)
         /\ Chain(nodes, at) => Chain([nodes EXCEPT ![Top].state = s], at)
<1> DEFINE marked == [nodes EXCEPT ![Top].state = s]
<1>1. /\ nodes \in Seq(Node) /\ at \in DOMAIN nodes /\ DOMAIN nodes = 1 .. Len(nodes)
      /\ Len(nodes) \in Nat \ {0} /\ Top \in DOMAIN nodes
  BY DEF Typed, Top
<1>2. [nodes[Top] EXCEPT !.state = s] \in Node
  <2>1. nodes[Top] \in Node
    BY <1>1
  <2> QED  BY <2>1 DEF Node, AnchorState
<1>3. /\ marked \in Seq(Node) /\ marked # <<>> /\ DOMAIN marked = DOMAIN nodes
      /\ \A i \in DOMAIN nodes : marked[i].prev = nodes[i].prev
      /\ \A i \in DOMAIN nodes : i # Top => marked[i] = nodes[i]
      /\ marked[Top].state = s
  BY <1>1, <1>2 DEF Node
<1> HIDE DEF marked
<1>4. Typed(marked, at)
  BY <1>1, <1>3 DEF Typed
<1>5. PendingIn(marked) = PendingIn(nodes)
  BY <1>3 DEF PendingIn
<1>6. \A i \in PendingIn(nodes) : marked[i].prev = nodes[i].prev
  BY <1>3 DEF PendingIn
<1>7. Chain(nodes, at) => Chain(marked, at)
  BY <1>5, <1>6 DEF Chain
<1> QED  BY <1>4, <1>7 DEF marked

-----------------------------------------------------------------------------
LEMMA InitInv == Init => IInv
<1> SUFFICES ASSUME Init PROVE IInv
  OBVIOUS
<1>1. Anchor \in Node /\ Anchor.prev = 0 /\ Anchor.state = "ANCHOR"
  BY DEF Anchor, NewNode, Node
<1>2. tree = <<Anchor>> /\ xml = Top
  BY DEF Init
<1>3. Typed(tree, xml)
  BY <1>1, <1>2 DEF Typed, Top, AnchorState
<1>4. PendingIn(tree) = {}
  BY <1>2 DEF PendingIn, Top
<1>5. Chain(tree, xml)
  BY <1>2, <1>4 DEF Chain
<1> QED  BY <1>3, <1>5 DEF Init, IInv, Flow

LEMMA StepInv == IInv /\ [Next]_vars => IInv'
<1> SUFFICES ASSUME IInv, [Next]_vars PROVE IInv'
  OBVIOUS
<1>1. Flow /\ Typed(tree, xml)
  BY DEF IInv
<1>2. CASE Parse
  BY <1>2 DEF Parse, IInv, Flow
<1>3. CASE ParseFirst
  BY <1>3 DEF ParseFirst, IInv, Flow
<1>4. CASE ParseSeq
  <2>1. Chain(tree, xml)
    BY <1>4 DEF ParseSeq, IInv
  <2>2. Tree(tree', xml')
    <3>1. "DEFAULT" \in AnchorState
      BY DEF AnchorState
    <3>2. Tree([tree EXCEPT ![Top].state = "DEFAULT"], xml)
      BY <1>1, <2>1, <3>1, TopKeepsTree DEF Tree
    <3> QED  BY <1>1, <1>4, <2>1, <3>2 DEF ParseSeq, Tree
  <2>3. pc' = "begin" /\ text' = FALSE /\ entry' = "seq"
    BY <1>4 DEF ParseSeq
  <2> QED  BY <2>2, <2>3 DEF IInv, Flow, Tree
<1>5. ASSUME NEW tok \in Token, Turn(tok) PROVE IInv'
  <2> DEFINE p == Step(At(tree, xml, TRUE), tok)
  <2>1. Tree(tree, xml)
    BY <1>5 DEF Turn, IInv, Tree
  <2>2. Tree(p.nodes, p.at) /\ p.ok \in BOOLEAN
    BY <2>1, StepKeepsTree
  <2>3. tree' = p.nodes /\ xml' = p.at /\ pc' \in {"loop", "stopped"}
        /\ text' \in BOOLEAN /\ entry' = entry /\ pc # "idle"
    BY <1>5 DEF Turn
  <2> HIDE DEF p
  <2> QED  BY <1>1, <2>2, <2>3 DEF IInv, Flow, Tree
<1>6. CASE ParseReturns
  <2>1. pc' = "over" /\ entry = "parse" /\ UNCHANGED <<xml, entry, text>>
    BY <1>6 DEF ParseReturns
  <2>2. Rooted(tree, IF xml = Top THEN "PARSED" ELSE "NOT_CLOSED")
          \in AnchorState
    BY DEF Rooted, AnchorState
  <2>3. Typed(tree', xml')
    BY <1>1, <1>6, <2>2, TopKeepsTree DEF ParseReturns
  <2> QED  BY <1>1, <2>1, <2>3 DEF IInv, Flow
<1>7. CASE SeqReturns
  <2>1. Chain(tree, xml)
    BY <1>7 DEF SeqReturns, IInv
  <2>2. pc' = "idle" /\ text' = FALSE /\ UNCHANGED <<xml, entry>>
    BY <1>7 DEF SeqReturns
  <2>3. CASE xml # Top
    BY <1>1, <1>7, <2>1, <2>2, <2>3 DEF SeqReturns, IInv, Flow
  <2>4. CASE xml = Top
    <3> DEFINE s == Rooted(tree, tree[Top].state)
    <3>1. tree' = [tree EXCEPT ![Top].state = s]
      BY <1>7, <2>4 DEF SeqReturns
    <3>2. s \in {"DEFAULT", "MULTI_ROOT", tree[Top].state}
      BY DEF Rooted
    <3> HIDE DEF s
    <3>3. s \in AnchorState
      BY <1>1, <3>2 DEF Typed, AnchorState
    <3>4. Typed(tree', xml) /\ Chain(tree', xml)
      BY <1>1, <2>1, <3>1, <3>3, TopKeepsTree
    <3> QED  BY <1>1, <2>2, <3>4 DEF IInv, Flow
  <2> QED  BY <2>3, <2>4
<1>8. CASE Close
  <2> DEFINE s(i) == CASE i = Top -> "PARSED"
                       [] i # Top /\ Children(tree, i) = {} -> "EMPTY"
                       [] OTHER -> IF tree[i].state = "EMPTY" THEN "EMPTY" ELSE "CLOSED"
  <2>1. tree' = [i \in DOMAIN tree |-> [tree[i] EXCEPT !.state = s(i)]]
    BY <1>8 DEF Close
  <2>2. /\ \A i \in DOMAIN tree : s(i) \in {"PARSED", "EMPTY", "CLOSED"}
        /\ s(Top) = "PARSED"
    OBVIOUS
  <2> HIDE DEF s
  <2>3. tree \in Seq(Node) /\ DOMAIN tree = 1 .. Len(tree) /\ Len(tree) \in Nat \ {0}
    BY <1>1 DEF Typed
  <2>4. \A i \in DOMAIN tree : /\ [tree[i] EXCEPT !.state = s(i)] \in Node
                               /\ [tree[i] EXCEPT !.state = s(i)].prev = tree[i].prev
                               /\ [tree[i] EXCEPT !.state = s(i)].state = s(i)
    <3> SUFFICES ASSUME NEW i \in DOMAIN tree
                 PROVE  /\ [tree[i] EXCEPT !.state = s(i)] \in Node
                        /\ [tree[i] EXCEPT !.state = s(i)].prev = tree[i].prev
                        /\ [tree[i] EXCEPT !.state = s(i)].state = s(i)
      OBVIOUS
    <3>1. tree[i] \in Node /\ s(i) \in {"PARSED", "EMPTY", "CLOSED"}
      BY <2>2, <2>3
    <3> QED  BY <3>1 DEF Node
  <2>5. /\ tree' \in Seq(Node) /\ DOMAIN tree' = DOMAIN tree /\ tree' # <<>>
        /\ \A i \in DOMAIN tree : tree'[i].prev = tree[i].prev /\ tree'[i].state = s(i)
    <3> DEFINE node(i) == [tree[i] EXCEPT !.state = s(i)]
    <3>1. tree' = [i \in 1 .. Len(tree) |-> node(i)]
      BY <2>1, <2>3
    <3>2. \A i \in 1 .. Len(tree) : node(i) \in Node
      BY <2>3, <2>4
    <3>3. \A i \in 1 .. Len(tree) : node(i).prev = tree[i].prev /\ node(i).state = s(i)
      BY <2>3, <2>4
    <3> HIDE DEF node
    <3> QED  BY <2>3, <3>1, <3>2, <3>3
  <2>6. pc' = "over" /\ entry = "seq" /\ UNCHANGED <<xml, entry, text>>
    BY <1>8 DEF Close
  <2>7. Typed(tree', xml')
    BY <1>1, <2>2, <2>3, <2>5, <2>6 DEF Typed, Top, AnchorState
  <2> QED  BY <1>1, <2>6, <2>7 DEF IInv, Flow
<1>9. CASE UNCHANGED vars
  BY <1>9 DEF vars, IInv, Flow, Typed, Chain, PendingIn
<1> QED  BY <1>2, <1>3, <1>4, <1>5, <1>6, <1>7, <1>8, <1>9 DEF Next
-----------------------------------------------------------------------------
LEMMA InvHolds == Spec => []IInv
BY InitInv, StepInv, PTL DEF Spec

(* Type correctness of the parser: it never leaves the tree through the     *)
(* anchor, and the current node is always one of the tree.                  *)
THEOREM TypeCorrect == Spec => []TypeOK
<1>1. IInv => TypeOK
  BY DEF IInv, Flow, Typed, TypeOK
<1> QED  BY <1>1, InvHolds, PTL

(* The nodes left open are one chain from the anchor to the current node.   *)
THEOREM OpenNodesAreChain == Spec => []OpenIsChain
<1>1. IInv => OpenIsChain
  BY DEF IInv, Chain, OpenIsChain, Pending
<1> QED  BY <1>1, InvHolds, PTL

(* The first of several pending nodes would hang below the anchor: a chain  *)
(* whose end is the anchor is empty.                                        *)
LEMMA ChainToTop ==
  ASSUME NEW nodes, Typed(nodes, Top), Chain(nodes, Top)
  PROVE  PendingIn(nodes) = {}
<1> SUFFICES ASSUME PendingIn(nodes) # {} PROVE FALSE
  OBVIOUS
<1>1. PendingIn(nodes) \subseteq Nat
  BY DEF PendingIn, Typed
<1>2. PICK x \in PendingIn(nodes) : \A y \in PendingIn(nodes) : ~(<<y, x>> \in OpToRel(<, Nat))
  BY <1>1, NatLessThanWellFounded, WFMin
<1>3. nodes[x].prev < x /\ nodes[x].prev \in Nat
  <2>1. nodes[x] \in Node /\ nodes[x].prev < x
    BY DEF PendingIn, Typed
  <2> QED  BY <2>1 DEF Node
<1>4. nodes[x].prev \notin PendingIn(nodes)
  BY <1>1, <1>2, <1>3 DEF OpToRel
<1> QED  BY <1>4 DEF Chain

(* A caller that finds the anchor in altp has nothing left open, and no     *)
(* error in any element, for every document and every way of cutting it.    *)
THEOREM AltpTellsAll == Spec => []AltpTells
<1>1. IInv => AltpTells
  BY ChainToTop DEF IInv, AltpTells, Pending
<1> QED  BY <1>1, InvHolds, PTL
-----------------------------------------------------------------------------
(* How many elements are open behind the first k tokens of d, when nothing  *)
(* looks at names.                                                          *)
Marks(d, k, s) == {i \in 1 .. k : d[i].t = s}
Height(d, k) == Cardinality(Marks(d, k, "start")) - Cardinality(Marks(d, k, "end"))

(* The end tag n ends the element that m starts.                            *)
Meets(d, m, n) == /\ m < n /\ d[m].t = "start" /\ d[n].t = "end"
                  /\ Height(d, m - 1) = Height(d, n)
                  /\ \A k \in m .. n - 1 : Height(d, k) > Height(d, n)

Inner == {"text", "aside", "empty", "start", "end"}

(* Tokens i .. j - 1 are balanced and their tags match.                     *)
Balanced(d, i, j) ==
  /\ i \in 1 .. Len(d) + 1 /\ j \in i .. Len(d) + 1
  /\ Height(d, j - 1) = Height(d, i - 1)
  /\ \A k \in i .. j - 1 : Height(d, k) >= Height(d, i - 1) /\ d[k].t \in Inner
  /\ \A m, n \in i .. j - 1 : Meets(d, m, n) => d[n].name = d[m].name

(* Every set of numbers that is not empty has a least one.                  *)
LEMMA Least ==
  ASSUME NEW S \in SUBSET Nat, S # {}
  PROVE  \E x \in S : \A y \in S : x <= y
<1>1. PICK x \in S : \A y \in S : ~(<<y, x>> \in OpToRel(<, Nat))
  BY NatLessThanWellFounded, WFMin
<1>2. \A y \in S : ~(y < x)
  <2> TAKE y \in S
  <2>1. y \in Nat /\ x \in Nat  OBVIOUS
  <2> QED BY <1>1, <2>1 DEF OpToRel
<1>3. \A y \in S : x <= y
  <2> TAKE y \in S
  <2>1. y \in Nat /\ x \in Nat /\ ~(y < x)  BY <1>2
  <2> QED BY <2>1
<1> QED BY <1>3

(* One more token marks at most one more place.                             *)
LEMMA MarksCount ==
  ASSUME NEW d, NEW k \in Nat, NEW s
  PROVE  /\ Cardinality(Marks(d, k, s)) \in Nat
         /\ Cardinality(Marks(d, k + 1, s))
              = Cardinality(Marks(d, k, s)) + (IF d[k + 1].t = s THEN 1 ELSE 0)
<1>1. IsFiniteSet(Marks(d, k, s))
  <2>1. IsFiniteSet(1 .. k)  BY FS_Interval
  <2> QED BY <2>1, FS_Subset DEF Marks
<1>2. Cardinality(Marks(d, k, s)) \in Nat  BY <1>1, FS_CardinalityType
<1>3. CASE d[k + 1].t = s
  <2>1. Marks(d, k + 1, s) = Marks(d, k, s) \cup {k + 1}  BY <1>3 DEF Marks
  <2>2. k + 1 \notin Marks(d, k, s)  BY DEF Marks
  <2> QED BY <1>1, <1>2, <1>3, <2>1, <2>2, FS_AddElement
<1>4. CASE d[k + 1].t # s
  <2>1. Marks(d, k + 1, s) = Marks(d, k, s)  BY <1>4 DEF Marks
  <2> QED BY <1>2, <1>4, <2>1
<1> QED BY <1>2, <1>3, <1>4

(* A height is a number, and in front of everything it is zero.             *)
LEMMA HeightType ==
  ASSUME NEW d, NEW k \in Nat
  PROVE  Height(d, k) \in Int
<1> DEFINE u == Cardinality(Marks(d, k, "start"))
           v == Cardinality(Marks(d, k, "end"))
<1>1. u \in Nat /\ v \in Nat  BY MarksCount
<1>2. Height(d, k) = u - v  BY DEF Height
<1> HIDE DEF u, v
<1> QED BY <1>1, <1>2

LEMMA HeightZero ==
  ASSUME NEW d
  PROVE  Height(d, 0) = 0
<1>1. Marks(d, 0, "start") = {} /\ Marks(d, 0, "end") = {}  BY DEF Marks
<1> QED BY <1>1, FS_EmptySet DEF Height

(* How a token changes it.                                                  *)
LEMMA HeightStep ==
  ASSUME NEW d, NEW k \in Nat, k >= 1
  PROVE  /\ Height(d, k) \in Int /\ Height(d, k - 1) \in Int
         /\ d[k].t = "start" => Height(d, k) = Height(d, k - 1) + 1
         /\ d[k].t = "end" => Height(d, k) = Height(d, k - 1) - 1
         /\ d[k].t \notin {"start", "end"} => Height(d, k) = Height(d, k - 1)
<1> DEFINE u == Cardinality(Marks(d, k - 1, "start"))
           v == Cardinality(Marks(d, k - 1, "end"))
<1>1. k - 1 \in Nat /\ (k - 1) + 1 = k  OBVIOUS
<1>2. /\ u \in Nat
      /\ Cardinality(Marks(d, k, "start")) = u + (IF d[k].t = "start" THEN 1 ELSE 0)
  <2>1. /\ Cardinality(Marks(d, (k - 1) + 1, "start"))
             = u + (IF d[(k - 1) + 1].t = "start" THEN 1 ELSE 0)
        /\ u \in Nat
    BY <1>1, MarksCount
  <2> QED BY <1>1, <2>1
<1>3. /\ v \in Nat
      /\ Cardinality(Marks(d, k, "end")) = v + (IF d[k].t = "end" THEN 1 ELSE 0)
  <2>1. /\ Cardinality(Marks(d, (k - 1) + 1, "end"))
             = v + (IF d[(k - 1) + 1].t = "end" THEN 1 ELSE 0)
        /\ v \in Nat
    BY <1>1, MarksCount
  <2> QED BY <1>1, <2>1
<1>4. Height(d, k - 1) = u - v  BY DEF Height
<1> HIDE DEF u, v
<1> QED BY <1>2, <1>3, <1>4 DEF Height

(* Where the height first falls below what it was behind token i.           *)
LEMMA FirstBelow ==
  ASSUME NEW d, NEW i \in Nat, NEW n \in Nat, i < n, Height(d, n) < Height(d, i)
  PROVE  \E k \in i + 1 .. n : /\ d[k].t = "end"
                               /\ Height(d, k - 1) = Height(d, i)
                               /\ Height(d, k) = Height(d, i) - 1
                               /\ \A m \in i .. k - 1 : Height(d, m) >= Height(d, i)
<1> DEFINE S == {k \in i + 1 .. n : Height(d, k) < Height(d, i)}
<1>1. S \subseteq Nat /\ n \in S  OBVIOUS
<1>2. PICK k \in S : \A y \in S : k <= y
  <2> HIDE DEF S
  <2> QED BY <1>1, Least
<1>3. k \in i + 1 .. n /\ k \in Nat /\ k >= 1 /\ Height(d, k) < Height(d, i)
  OBVIOUS
<1>4. \A m \in i + 1 .. k - 1 : Height(d, m) >= Height(d, i)
  <2> TAKE m \in i + 1 .. k - 1
  <2>1. m \in i + 1 .. n /\ m \in Nat /\ m < k  BY <1>3
  <2>2. m \notin S
    <3> HIDE DEF S
    <3>1. m \in S => k <= m  BY <1>2
    <3> QED BY <1>3, <2>1, <3>1
  <2>3. ~(Height(d, m) < Height(d, i))  BY <2>1, <2>2
  <2> QED BY <2>1, <2>3, HeightType
<1>5. \A m \in i .. k - 1 : Height(d, m) >= Height(d, i)
  <2> TAKE m \in i .. k - 1
  <2>1. m = i \/ m \in i + 1 .. k - 1  BY <1>3
  <2> QED BY <1>4, <2>1, HeightType
<1>6. Height(d, k - 1) >= Height(d, i)  BY <1>3, <1>5
<1>7. Height(d, i) \in Int  BY HeightType
<1> QED BY <1>3, <1>5, <1>6, <1>7, HeightStep
-----------------------------------------------------------------------------
(* What is one token and no tag of two changes no balance in front of it.   *)
LEMMA LeafBalance ==
  ASSUME NEW d, Len(d) \in Nat, NEW i \in 1 .. Len(d) + 1, NEW j \in 1 .. Len(d) + 1,
         i < j, d[i].t \in {"text", "aside", "empty"}
  PROVE  Balanced(d, i, j) <=> Balanced(d, i + 1, j)
<1>1. /\ i \in Nat /\ i >= 1 /\ i + 1 \in 1 .. Len(d) + 1 /\ (i + 1) - 1 = i
      /\ j \in i .. Len(d) + 1 /\ j \in i + 1 .. Len(d) + 1
      /\ i \in i .. j - 1 /\ \A k \in i .. j - 1 : k = i \/ k \in i + 1 .. j - 1
      /\ \A k \in i + 1 .. j - 1 : k \in i .. j - 1
  OBVIOUS
<1>2. Height(d, i) = Height(d, i - 1) /\ Height(d, i) \in Int  BY <1>1, HeightStep
<1>3. d[i].t \in Inner /\ d[i].t \notin {"start", "end"}  BY DEF Inner
<1>4. ASSUME Balanced(d, i, j) PROVE Balanced(d, i + 1, j)
  <2>1. Height(d, j - 1) = Height(d, (i + 1) - 1)  BY <1>1, <1>2, <1>4 DEF Balanced
  <2>2. \A k \in i + 1 .. j - 1 : Height(d, k) >= Height(d, (i + 1) - 1) /\ d[k].t \in Inner
    BY <1>1, <1>2, <1>4 DEF Balanced
  <2>3. \A m, n \in i + 1 .. j - 1 : Meets(d, m, n) => d[n].name = d[m].name
    BY <1>1, <1>4 DEF Balanced
  <2> QED BY <1>1, <2>1, <2>2, <2>3 DEF Balanced
<1>5. ASSUME Balanced(d, i + 1, j) PROVE Balanced(d, i, j)
  <2>1. Height(d, j - 1) = Height(d, i - 1)  BY <1>1, <1>2, <1>5 DEF Balanced
  <2>2. \A k \in i .. j - 1 : Height(d, k) >= Height(d, i - 1) /\ d[k].t \in Inner
    <3> TAKE k \in i .. j - 1
    <3>1. CASE k = i  BY <1>2, <1>3, <3>1
    <3>2. CASE k \in i + 1 .. j - 1  BY <1>1, <1>2, <1>5, <3>2 DEF Balanced
    <3> QED BY <1>1, <3>1, <3>2
  <2>3. \A m, n \in i .. j - 1 : Meets(d, m, n) => d[n].name = d[m].name
    <3> TAKE m, n \in i .. j - 1
    <3> HAVE Meets(d, m, n)
    <3>1. m # i /\ n # i  BY <1>3 DEF Meets
    <3>2. m \in i + 1 .. j - 1 /\ n \in i + 1 .. j - 1  BY <1>1, <3>1
    <3> QED BY <1>5, <3>2 DEF Balanced
  <2> QED BY <1>1, <2>1, <2>2, <2>3 DEF Balanced
<1> QED BY <1>4, <1>5

(* An element is balanced if what it holds is, and what follows it.         *)
LEMMA ElementBalance ==
  ASSUME NEW d, Len(d) \in Nat, NEW i \in 1 .. Len(d) + 1, NEW j \in 1 .. Len(d) + 1,
         i < j, NEW k \in i + 1 .. j - 1,
         d[i].t = "start", d[k].t = "end", d[k].name = d[i].name,
         Balanced(d, i + 1, k), Balanced(d, k + 1, j)
  PROVE  Balanced(d, i, j)
<1> DEFINE h == Height(d, i - 1)
<1>1. /\ i \in Nat /\ i >= 1 /\ k \in Nat /\ k >= 1 /\ j \in Nat /\ (i + 1) - 1 = i
      /\ (k + 1) - 1 = k
      /\ i < k /\ k < j
  OBVIOUS
<1>2. h \in Int /\ Height(d, i) = h + 1  BY <1>1, HeightStep
<1>3. Height(d, k - 1) = h + 1  BY <1>1, <1>2 DEF Balanced
<1>4. Height(d, k) = h
  <2>1. Height(d, k) = Height(d, k - 1) - 1  BY <1>1, HeightStep
  <2> QED BY <1>2, <1>3, <2>1
<1>5. Height(d, j - 1) = h  BY <1>1, <1>4 DEF Balanced
<1>6. \A m \in i .. k - 1 : Height(d, m) \in Int /\ Height(d, m) >= h + 1
  <2> TAKE m \in i .. k - 1
  <2>1. m = i \/ m \in i + 1 .. k - 1  BY <1>1
  <2>2. m \in Nat  BY <1>1
  <2> QED BY <1>1, <1>2, <2>1, <2>2, HeightType DEF Balanced
<1>7. \A m \in k .. j - 1 : Height(d, m) \in Int /\ Height(d, m) >= h
  <2> TAKE m \in k .. j - 1
  <2>1. m = k \/ m \in k + 1 .. j - 1  BY <1>1
  <2>2. m \in Nat  BY <1>1
  <2> QED BY <1>1, <1>2, <1>4, <2>1, <2>2, HeightType DEF Balanced
<1>8. \A m \in i .. j - 1 : m = i \/ m \in i + 1 .. k - 1 \/ m = k \/ m \in k + 1 .. j - 1
  BY <1>1
<1>9. \A m \in i .. j - 1 : Height(d, m) >= h
  <2> TAKE m \in i .. j - 1
  <2>1. m \in i .. k - 1 \/ m \in k .. j - 1  BY <1>1
  <2> QED BY <1>2, <1>6, <1>7, <2>1
<1>10. \A m \in i .. j - 1 : d[m].t \in Inner  BY <1>8 DEF Balanced, Inner
<1>11. ASSUME NEW m \in i .. j - 1, NEW n \in i .. j - 1, Meets(d, m, n)
       PROVE  d[n].name = d[m].name
  <2>0. m \in Nat /\ n \in Nat /\ m < n /\ m >= 1  BY <1>1, <1>11 DEF Meets
  <2>1. m # k /\ n # i  BY <1>11 DEF Meets
  <2>2. CASE m = i
    <3>1. Height(d, n) = h  BY <1>11, <2>2 DEF Meets
    <3>2. ~(n \in i .. k - 1)  BY <1>2, <1>6, <3>1
    <3>3. ~(k \in m .. n - 1)  BY <1>2, <1>4, <1>11, <3>1 DEF Meets
    <3>4. n = k  BY <1>1, <2>0, <2>2, <3>2, <3>3
    <3> QED BY <2>2, <3>4
  <2>3. CASE m \in i + 1 .. k - 1
    <3>0. m - 1 \in i .. k - 1  BY <1>1, <2>3
    <3>1. Height(d, m - 1) = Height(d, n) /\ Height(d, m - 1) >= h + 1
      BY <1>6, <1>11, <3>0 DEF Meets
    <3>2. n # k  BY <1>2, <1>4, <3>1
    <3>3. CASE n \in i + 1 .. k - 1  BY <1>11, <2>3, <3>3 DEF Balanced
    <3>4. CASE n \in k + 1 .. j - 1
      <4>1. k \in m .. n - 1  BY <1>1, <2>3, <3>4
      <4>2. Height(d, k) > Height(d, n)  BY <1>11, <4>1 DEF Meets
      <4>3. Height(d, n) \in Int  BY <2>0, HeightType
      <4> HIDE DEF h
      <4> QED BY <1>2, <1>4, <3>1, <4>2, <4>3
    <3> QED BY <1>8, <2>1, <3>2, <3>3, <3>4
  <2>4. CASE m \in k + 1 .. j - 1
    <3>1. n \in k + 1 .. j - 1  BY <1>1, <2>0, <2>4
    <3> QED BY <1>11, <2>4, <3>1 DEF Balanced
  <2> QED BY <1>8, <2>1, <2>2, <2>3, <2>4
<1>12. i \in 1 .. Len(d) + 1 /\ j \in i .. Len(d) + 1  BY <1>1
<1> HIDE DEF h
<1> QED BY <1>5, <1>9, <1>10, <1>11, <1>12 DEF Balanced, h

(* And a balanced stretch that begins otherwise begins with an element.     *)
LEMMA BalanceParts ==
  ASSUME NEW d, Len(d) \in Nat, NEW i \in 1 .. Len(d) + 1, NEW j \in 1 .. Len(d) + 1,
         i < j, Balanced(d, i, j), d[i].t \notin {"text", "aside", "empty"}
  PROVE  /\ d[i].t = "start"
         /\ \E k \in i + 1 .. j - 1 : /\ d[k].t = "end" /\ d[k].name = d[i].name
                                      /\ Balanced(d, i + 1, k) /\ Balanced(d, k + 1, j)
<1> DEFINE h == Height(d, i - 1)
<1>1. /\ i \in Nat /\ i >= 1 /\ j \in Nat /\ (i + 1) - 1 = i
      /\ i \in i .. j - 1 /\ j - 1 \in Nat /\ \A m \in i .. j - 1 : m \in Nat
  OBVIOUS
<1>2. h \in Int /\ Height(d, i) \in Int /\ Height(d, i) >= h /\ Height(d, j - 1) = h
  BY <1>1, HeightStep DEF Balanced
<1>3. d[i].t = "start"
  <2>1. d[i].t \in Inner  BY <1>1 DEF Balanced
  <2>2. d[i].t # "end"  BY <1>1, <1>2, HeightStep
  <2> QED BY <2>1, <2>2 DEF Inner
<1>4. Height(d, i) = h + 1  BY <1>1, <1>3, HeightStep
<1>5. i < j - 1
  <2>1. i # j - 1  BY <1>2, <1>4
  <2> QED BY <1>1, <2>1
<1>6. PICK k \in i + 1 .. j - 1 :
        /\ d[k].t = "end" /\ Height(d, k - 1) = Height(d, i) /\ Height(d, k) = Height(d, i) - 1
        /\ \A m \in i .. k - 1 : Height(d, m) >= Height(d, i)
  <2>1. Height(d, j - 1) < Height(d, i)  BY <1>2, <1>4
  <2> QED BY <1>1, <1>5, <2>1, FirstBelow
<1>7. k \in Nat /\ k > i /\ k < j /\ (k + 1) - 1 = k /\ k \in i .. j - 1  BY <1>1, <1>6
<1>8. Height(d, k) = h  BY <1>2, <1>4, <1>6
<1>9. d[k].name = d[i].name
  <2>1. \A m \in i .. k - 1 : Height(d, m) > Height(d, k)
    <3> TAKE m \in i .. k - 1
    <3>1. m \in Nat  BY <1>1
    <3>2. Height(d, m) \in Int /\ Height(d, m) >= h + 1  BY <1>4, <1>6, <3>1, HeightType
    <3> QED BY <1>2, <1>8, <3>2
  <2>2. Meets(d, i, k)  BY <1>3, <1>6, <1>7, <1>8, <2>1 DEF Meets
  <2> QED BY <1>1, <1>7, <2>2 DEF Balanced
<1>10. Balanced(d, i + 1, k)
  <2>1. i + 1 \in 1 .. Len(d) + 1 /\ k \in i + 1 .. Len(d) + 1  BY <1>1, <1>7
  <2>2. \A m \in i + 1 .. k - 1 : m \in i .. j - 1 /\ m \in i .. k - 1  BY <1>1, <1>7
  <2>3. Height(d, k - 1) = Height(d, (i + 1) - 1)  BY <1>1, <1>6
  <2>4. \A m \in i + 1 .. k - 1 : Height(d, m) >= Height(d, (i + 1) - 1) /\ d[m].t \in Inner
    BY <1>1, <1>6, <2>2 DEF Balanced
  <2>5. \A m, n \in i + 1 .. k - 1 : Meets(d, m, n) => d[n].name = d[m].name
    BY <2>2 DEF Balanced
  <2> QED BY <2>1, <2>3, <2>4, <2>5 DEF Balanced
<1>11. Balanced(d, k + 1, j)
  <2>1. k + 1 \in 1 .. Len(d) + 1 /\ j \in k + 1 .. Len(d) + 1  BY <1>1, <1>7
  <2>2. \A m \in k + 1 .. j - 1 : m \in i .. j - 1  BY <1>1, <1>7
  <2>3. Height(d, j - 1) = Height(d, (k + 1) - 1)  BY <1>2, <1>7, <1>8
  <2>4. \A m \in k + 1 .. j - 1 : Height(d, m) >= Height(d, (k + 1) - 1) /\ d[m].t \in Inner
    BY <1>7, <1>8, <2>2 DEF Balanced
  <2>5. \A m, n \in k + 1 .. j - 1 : Meets(d, m, n) => d[n].name = d[m].name
    BY <2>2 DEF Balanced
  <2> QED BY <2>1, <2>3, <2>4, <2>5 DEF Balanced
<1> QED BY <1>3, <1>6, <1>9, <1>10, <1>11

(* Which stretches are content is what the grammar says: both solve its equation. *)
Balance(d) == [p \in Cuts(d) |-> Balanced(d, p[1], p[2])]

(* So balance is what the grammar derives from shorter balance.             *)
LEMMA BalanceDerives ==
  ASSUME NEW d \in Seq(Token), NEW i \in 1 .. Len(d) + 1, NEW j \in 1 .. Len(d) + 1
  PROVE  Balanced(d, i, j) <=> Derives(Balance(d), d, i, j)
<1> DEFINE C == Balance(d)
<1>0. Len(d) \in Nat  OBVIOUS
<1>1. \A a, b \in 1 .. Len(d) + 1 : C[a, b] = Balanced(d, a, b)  BY DEF Balance, Cuts
<1> HIDE DEF C
<1>2. CASE i = j
  <2>1. i \in i .. Len(d) + 1  BY <1>0
  <2>2. \A k \in i .. i - 1 : FALSE  BY <1>0
  <2> QED BY <1>2, <2>1, <2>2 DEF Balanced, Derives
<1>3. CASE i > j
  <2>1. ~(j \in i .. Len(d) + 1) /\ i # j /\ ~(i < j)  BY <1>0, <1>3
  <2> QED BY <2>1 DEF Balanced, Derives
<1>4. CASE i < j
  <2>0. /\ i + 1 \in 1 .. Len(d) + 1 /\ i \in 1 .. Len(d)
        /\ \A k \in i + 1 .. j - 1 : /\ k \in 1 .. Len(d) /\ k \in 1 .. Len(d) + 1
                                     /\ k + 1 \in 1 .. Len(d) + 1
    BY <1>0, <1>4
  <2>1. CASE d[i].t \in {"text", "aside", "empty"}
    <3>1. d[i].t # "start"  BY <2>1
    <3>2. Derives(C, d, i, j) <=> C[i + 1, j]
      <4>1. i # j  BY <1>0, <1>4
      <4> QED BY <1>4, <2>1, <3>1, <4>1 DEF Derives
    <3>3. C[i + 1, j] = Balanced(d, i + 1, j)  BY <1>1, <2>0
    <3>4. Balanced(d, i, j) <=> Balanced(d, i + 1, j)  BY <1>0, <1>4, <2>1, LeafBalance
    <3> QED BY <3>2, <3>3, <3>4 DEF C
  <2>2. CASE d[i].t \notin {"text", "aside", "empty"}
    <3>1. ASSUME Balanced(d, i, j) PROVE Derives(C, d, i, j)
      <4>1. d[i].t = "start"  BY <1>0, <1>4, <2>2, <3>1, BalanceParts
      <4>2. PICK k \in i + 1 .. j - 1 : /\ d[k].t = "end" /\ d[k].name = d[i].name
                                        /\ Balanced(d, i + 1, k) /\ Balanced(d, k + 1, j)
        BY <1>0, <1>4, <2>2, <3>1, BalanceParts
      <4>3. d[k] = [t |-> "end", name |-> d[i].name]
        <5>1. d[k] \in Token  BY <2>0
        <5> QED BY <4>2, <5>1 DEF Token
      <4>4. C[i + 1, k] /\ C[k + 1, j]  BY <1>1, <2>0, <4>2
      <4> QED BY <1>4, <4>1, <4>3, <4>4 DEF Derives
    <3>2. ASSUME Derives(C, d, i, j) PROVE Balanced(d, i, j)
      <4>0. i # j  BY <1>0, <1>4
      <4>1. d[i].t = "start"  BY <2>2, <3>2, <4>0 DEF Derives
      <4>2. PICK k \in i + 1 .. j - 1 : /\ d[k] = [t |-> "end", name |-> d[i].name]
                                        /\ C[i + 1, k] /\ C[k + 1, j]
        BY <2>2, <3>2, <4>0 DEF Derives
      <4>3. d[k].t = "end" /\ d[k].name = d[i].name
        <5>1. d[k] = [t |-> "end", name |-> d[i].name]  BY <4>2
        <5> QED BY <5>1
      <4>4. Balanced(d, i + 1, k) /\ Balanced(d, k + 1, j)  BY <1>1, <2>0, <4>2
      <4> QED BY <1>0, <1>4, <4>1, <4>3, <4>4, ElementBalance
    <3> QED BY <3>1, <3>2 DEF C
  <2> QED BY <2>1, <2>2
<1> QED BY <1>0, <1>2, <1>3, <1>4
-----------------------------------------------------------------------------
(* A solution of the equation that the grammar is.                          *)
Solves(C, d) == C = [p \in Cuts(d) |-> Derives(C, d, p[1], p[2])]

(* Balance solves it, and so does content, being chosen as a solution.      *)
LEMMA BalanceSolves ==
  ASSUME NEW d \in Seq(Token)
  PROVE  Solves(Balance(d), d)
<1>1. \A p \in Cuts(d) : Balanced(d, p[1], p[2]) = Derives(Balance(d), d, p[1], p[2])
  <2> TAKE p \in Cuts(d)
  <2>1. p[1] \in 1 .. Len(d) + 1 /\ p[2] \in 1 .. Len(d) + 1  BY DEF Cuts
  <2>2. Balanced(d, p[1], p[2]) \in BOOLEAN /\ Derives(Balance(d), d, p[1], p[2]) \in BOOLEAN
    BY DEF Balanced, Derives
  <2>3. Balanced(d, p[1], p[2]) <=> Derives(Balance(d), d, p[1], p[2])
    BY <2>1, BalanceDerives
  <2> QED BY <2>2, <2>3
<1>2. Balance(d) = [p \in Cuts(d) |-> Derives(Balance(d), d, p[1], p[2])]
  <2> DEFINE B == Balance(d)
             V(p) == Derives(B, d, p[1], p[2])
  <2>1. B = [p \in Cuts(d) |-> Balanced(d, p[1], p[2])]  BY DEF Balance
  <2>2. \A p \in Cuts(d) : Balanced(d, p[1], p[2]) = V(p)  BY <1>1
  <2> HIDE DEF B, V
  <2>3. B = [p \in Cuts(d) |-> V(p)]  BY <2>1, <2>2
  <2> QED BY <2>3 DEF B, V
<1> QED BY <1>2 DEF Solves

LEMMA ContentSolves ==
  ASSUME NEW d \in Seq(Token)
  PROVE  Solves(IsContent(d), d)
<1>1. IsContent(d) = CHOOSE C : C = [p \in Cuts(d) |-> Derives(C, d, p[1], p[2])]
  BY Zenon DEF IsContent
<1> DEFINE P(C) == C = [p \in Cuts(d) |-> Derives(C, d, p[1], p[2])]
<1>2. IsContent(d) = CHOOSE C : P(C)  BY <1>1
<1>3. \E C : P(C)
  <2>1. P(Balance(d))  BY BalanceSolves DEF Solves
  <2> HIDE DEF P
  <2> QED BY <2>1
<1> HIDE DEF P
<1>4. P(CHOOSE C : P(C))  BY <1>3
<1>5. P(IsContent(d))  BY <1>2, <1>4
<1> QED BY <1>5 DEF P, Solves

(* Of stretches of a document there is a shortest.                          *)
LEMMA Shortest ==
  ASSUME NEW N \in Nat, NEW X, X # {},
         \A p \in X : \E a, b \in 1 .. N : p = <<a, b>> /\ a <= b
  PROVE  \E a, b \in 1 .. N : /\ <<a, b>> \in X /\ a <= b
                              /\ \A e, f \in 1 .. N : <<e, f>> \in X => b - a <= f - e
<1> DEFINE S == {n \in Nat : \E a, b \in 1 .. N : <<a, b>> \in X /\ a <= b /\ b - a = n}
<1>1. S \in SUBSET Nat  OBVIOUS
<1>2. \A e, f \in 1 .. N : <<e, f>> \in X => f - e \in S
  <2> TAKE e, f \in 1 .. N
  <2> HAVE <<e, f>> \in X
  <2>1. PICK a \in 1 .. N, b \in 1 .. N : <<e, f>> = <<a, b>> /\ a <= b
    OBVIOUS
  <2>2. e <= f  BY <2>1
  <2>3. f - e \in Nat  BY <2>2
  <2> QED BY <2>2, <2>3
<1>3. S # {}
  <2>1. PICK p \in X : TRUE  OBVIOUS
  <2>2. PICK a \in 1 .. N, b \in 1 .. N : p = <<a, b>>  BY <2>1
  <2>3. <<a, b>> \in X  BY <2>1, <2>2
  <2> HIDE DEF S
  <2> QED BY <1>2, <2>3
<1>4. PICK n \in S : \A m \in S : n <= m
  <2> HIDE DEF S
  <2> QED BY <1>1, <1>3, Least
<1>5. PICK a \in 1 .. N, b \in 1 .. N : <<a, b>> \in X /\ a <= b /\ b - a = n
  OBVIOUS
<1> HIDE DEF S
<1>6. \A e, f \in 1 .. N : <<e, f>> \in X => b - a <= f - e  BY <1>2, <1>4, <1>5
<1> QED BY <1>5, <1>6

(* The shortest stretch of which two solutions say different things cannot be. *)
LEMMA OneSolution ==
  ASSUME NEW d \in Seq(Token), NEW C, NEW D, Solves(C, d), Solves(D, d),
         NEW i \in 1 .. Len(d) + 1, NEW j \in 1 .. Len(d) + 1
  PROVE  C[i, j] <=> D[i, j]
<1> DEFINE N == Len(d) + 1
           X == {p \in Cuts(d) : p[1] <= p[2] /\ ~(C[p] <=> D[p])}
<1>0. Len(d) \in Nat /\ N \in Nat  OBVIOUS
<1>1. \A a, b \in 1 .. N : (C[a, b] <=> Derives(C, d, a, b)) /\ (D[a, b] <=> Derives(D, d, a, b))
  <2> TAKE a, b \in 1 .. N
  <2>1. <<a, b>> \in Cuts(d) /\ <<a, b>>[1] = a /\ <<a, b>>[2] = b  BY DEF Cuts
  <2>2. \A p \in Cuts(d) : C[p] = Derives(C, d, p[1], p[2])
    <3> DEFINE V(p) == Derives(C, d, p[1], p[2])
    <3>1. C = [p \in Cuts(d) |-> V(p)]  BY DEF Solves
    <3> HIDE DEF V
    <3>2. \A p \in Cuts(d) : C[p] = V(p)  BY <3>1
    <3> QED BY <3>2 DEF V
  <2>3. \A p \in Cuts(d) : D[p] = Derives(D, d, p[1], p[2])
    <3> DEFINE V(p) == Derives(D, d, p[1], p[2])
    <3>1. D = [p \in Cuts(d) |-> V(p)]  BY DEF Solves
    <3> HIDE DEF V
    <3>2. \A p \in Cuts(d) : D[p] = V(p)  BY <3>1
    <3> QED BY <3>2 DEF V
  <2>4. C[<<a, b>>] = Derives(C, d, <<a, b>>[1], <<a, b>>[2])  BY <2>1, <2>2
  <2>5. D[<<a, b>>] = Derives(D, d, <<a, b>>[1], <<a, b>>[2])  BY <2>1, <2>3
  <2> QED BY <2>1, <2>4, <2>5
<1>2. \A p \in X : \E a, b \in 1 .. N : p = <<a, b>> /\ a <= b  BY DEF Cuts
<1>3. \A a, b \in 1 .. N : a <= b /\ ~(C[a, b] <=> D[a, b]) => <<a, b>> \in X  BY DEF Cuts
<1>4. \A a, b \in 1 .. N : <<a, b>> \in X => ~(C[a, b] <=> D[a, b])  OBVIOUS
<1> HIDE DEF X, N
<1>5. X = {}
  <2> SUFFICES ASSUME X # {} PROVE FALSE
    OBVIOUS
  <2>1. PICK a \in 1 .. N, b \in 1 .. N : /\ <<a, b>> \in X /\ a <= b
                                          /\ \A e, f \in 1 .. N : <<e, f>> \in X => b - a <= f - e
    BY <1>0, <1>2, Shortest
  <2>3. a \in Nat /\ b \in Nat /\ a >= 1 /\ b <= N  BY <1>0
  <2>4. \A e, f \in 1 .. N : e <= f /\ f - e < b - a => (C[e, f] <=> D[e, f])
    <3> TAKE e, f \in 1 .. N
    <3>1. e \in Nat /\ f \in Nat  BY <1>0
    <3>2. f - e < b - a => ~(b - a <= f - e)  BY <2>3, <3>1
    <3> QED BY <1>3, <2>1, <3>2
  <2>5. a < b => (C[a + 1, b] <=> D[a + 1, b])
    <3> SUFFICES ASSUME a < b PROVE C[a + 1, b] <=> D[a + 1, b]
      OBVIOUS
    <3>1. a + 1 \in 1 .. N /\ a + 1 <= b /\ b - (a + 1) < b - a  BY <1>0, <2>3
    <3> QED BY <2>4, <3>1
  <2>6. \A k \in a + 1 .. b - 1 : (C[a + 1, k] <=> D[a + 1, k]) /\ (C[k + 1, b] <=> D[k + 1, b])
    <3> TAKE k \in a + 1 .. b - 1
    <3>0. k \in Nat /\ k >= a + 1 /\ k <= b - 1  BY <2>3
    <3>1. a + 1 \in 1 .. N /\ k \in 1 .. N /\ a + 1 <= k /\ k - (a + 1) < b - a
      BY <1>0, <2>3, <3>0
    <3>2. k + 1 \in 1 .. N /\ k + 1 <= b /\ b - (k + 1) < b - a  BY <1>0, <2>3, <3>0
    <3> QED BY <2>4, <3>1, <3>2
  <2>7. Derives(C, d, a, b) <=> Derives(D, d, a, b)  BY <2>5, <2>6 DEF Derives
  <2> QED BY <1>1, <1>4, <2>1, <2>7
<1>6. CASE i <= j  BY <1>3, <1>5, <1>6 DEF N
<1>7. CASE i > j
  <2>1. i # j /\ ~(i < j)  BY <1>0, <1>7
  <2>2. ~Derives(C, d, i, j) /\ ~Derives(D, d, i, j)  BY <2>1 DEF Derives
  <2> QED BY <1>1, <2>2 DEF N
<1>8. i <= j \/ i > j  BY <1>0
<1> QED BY <1>6, <1>7, <1>8

(* Content of an element is what is balanced.                               *)
LEMMA ContentIsBalanced ==
  ASSUME NEW d \in Seq(Token), NEW i \in 1 .. Len(d) + 1, NEW j \in 1 .. Len(d) + 1
  PROVE  IsContent(d)[i, j] <=> Balanced(d, i, j)
<1>1. IsContent(d)[i, j] <=> Balance(d)[i, j]
  <2>1. Solves(IsContent(d), d) /\ Solves(Balance(d), d)  BY BalanceSolves, ContentSolves
  <2> DEFINE C == IsContent(d)
             D == Balance(d)
  <2>2. Solves(C, d) /\ Solves(D, d)  BY <2>1
  <2> HIDE DEF C, D
  <2>3. C[i, j] <=> D[i, j]  BY <2>2, OneSolution
  <2> QED BY <2>3 DEF C, D
<1>2. Balance(d)[i, j] = Balanced(d, i, j)  BY DEF Balance, Cuts
<1> QED BY <1>1, <1>2
-----------------------------------------------------------------------------
(* What can be read without an error, and the elements that are in no other. *)
WellRead(d) ==
  /\ \A k \in 1 .. Len(d) : /\ d[k].t \in Inner /\ Height(d, k) >= 0
                            /\ d[k].t = "text" => Height(d, k) >= 1
  /\ \A m, n \in 1 .. Len(d) : Meets(d, m, n) => d[n].name = d[m].name

RootsIn(d) == {k \in 1 .. Len(d) : d[k].t \in {"start", "empty"} /\ Height(d, k - 1) = 0}

Whole(d) == WellRead(d) /\ Height(d, Len(d)) = 0 /\ \E r \in 1 .. Len(d) : RootsIn(d) = {r}

(* Where no tag of two is there is no change of height.                     *)
LEMMA FlatHeight ==
  ASSUME NEW d, NEW a \in Nat, NEW b \in Nat,
         \A k \in a + 1 .. b : d[k].t \notin {"start", "end"}
  PROVE  \A k \in a .. b : Height(d, k) = Height(d, a)
<1> DEFINE S == {k \in a .. b : Height(d, k) # Height(d, a)}
<1> SUFFICES ASSUME S # {} PROVE FALSE
  OBVIOUS
<1>1. S \in SUBSET Nat  OBVIOUS
<1>2. PICK k \in S : \A y \in S : k <= y
  <2> HIDE DEF S
  <2> QED BY <1>1, Least
<1>3. k \in a .. b /\ Height(d, k) # Height(d, a) /\ k # a  OBVIOUS
<1>4. k \in a + 1 .. b /\ k - 1 \in a .. b /\ k \in Nat /\ k >= 1  BY <1>3
<1>5. k - 1 \notin S
  <2> HIDE DEF S
  <2>1. k - 1 \in S => k <= k - 1  BY <1>2
  <2> QED BY <1>4, <2>1
<1>6. Height(d, k - 1) = Height(d, a)  BY <1>4, <1>5
<1>7. Height(d, k) = Height(d, k - 1)  BY <1>4, HeightStep
<1> QED BY <1>3, <1>6, <1>7

(* Outside of an element there is nothing to read but asides and elements.  *)
LEMMA FlatAside ==
  ASSUME NEW d, Len(d) \in Nat, WellRead(d), NEW a \in 0 .. Len(d), NEW b \in 0 .. Len(d),
         Height(d, a) = 0, \A k \in a + 1 .. b : k \notin RootsIn(d)
  PROVE  \A k \in a + 1 .. b : d[k].t = "aside" /\ Height(d, k) = 0
<1> DEFINE S == {k \in a + 1 .. b : ~(d[k].t = "aside" /\ Height(d, k) = 0)}
<1> SUFFICES ASSUME S # {} PROVE FALSE
  OBVIOUS
<1>1. S \in SUBSET Nat  OBVIOUS
<1>2. PICK k \in S : \A y \in S : k <= y
  <2> HIDE DEF S
  <2> QED BY <1>1, Least
<1>3. k \in a + 1 .. b /\ ~(d[k].t = "aside" /\ Height(d, k) = 0)  OBVIOUS
<1>4. k \in 1 .. Len(d) /\ k \in Nat /\ k >= 1 /\ (k - 1 = a \/ k - 1 \in a + 1 .. b)  BY <1>3
<1>5. k - 1 \notin S
  <2> HIDE DEF S
  <2>1. k - 1 \in S => k <= k - 1  BY <1>2
  <2> QED BY <1>4, <2>1
<1>6. Height(d, k - 1) = 0  BY <1>4, <1>5
<1> HIDE DEF S
<1>7. d[k].t \in Inner /\ Height(d, k) >= 0 /\ (d[k].t = "text" => Height(d, k) >= 1)
  BY <1>4 DEF WellRead
<1>8. d[k].t \notin {"start", "empty"}  BY <1>3, <1>4, <1>6 DEF RootsIn
<1>9. d[k].t # "end"
  <2>1. d[k].t = "end" => Height(d, k) = 0 - 1  BY <1>4, <1>6, HeightStep
  <2> QED BY <1>7, <2>1
<1>10. Height(d, k) = 0  BY <1>4, <1>6, <1>8, <1>9, HeightStep
<1>11. d[k].t # "text"  BY <1>7, <1>10
<1> QED BY <1>3, <1>7, <1>8, <1>9, <1>10, <1>11 DEF Inner

(* The documents of the grammar are those that are read well, leave nothing *)
(* open and have one root.                                                  *)
LEMMA DocumentIsWhole ==
  ASSUME NEW d \in Seq(Token), IsDocument(d)
  PROVE  Whole(d)
<1>0. Len(d) \in Nat /\ DOMAIN d = 1 .. Len(d)  OBVIOUS
<1>1. PICK i \in 1 .. Len(d), j \in 1 .. Len(d) :
        /\ \/ i = j /\ d[i].t = "empty"
           \/ /\ i < j /\ d[i].t = "start" /\ d[j] = [t |-> "end", name |-> d[i].name]
              /\ IsContent(d)[i + 1, j]
        /\ \A k \in 1 .. Len(d) \ (i .. j) : d[k].t = "aside"
  BY <1>0 DEF IsDocument
<1>2. i \in Nat /\ j \in Nat /\ i >= 1 /\ i <= j
  <2>1. i = j \/ i < j  BY <1>1, Zenon
  <2> QED BY <1>0, <2>1
<1>3. \A k \in 1 .. Len(d) : k < i \/ k > j => d[k].t = "aside"
  <2> TAKE k \in 1 .. Len(d)
  <2>1. k < i \/ k > j => k \notin i .. j  BY <1>0, <1>2
  <2> QED BY <1>1, <2>1
<1>4. \A k \in 0 .. i - 1 : Height(d, k) = 0
  <2>1. \A k \in 0 + 1 .. i - 1 : k \in 1 .. Len(d) /\ k < i  BY <1>0, <1>2
  <2>2. \A k \in 0 + 1 .. i - 1 : d[k].t \notin {"start", "end"}  BY <1>3, <2>1
  <2>3. 0 \in Nat /\ i - 1 \in Nat  BY <1>2
  <2>4. \A k \in 0 .. i - 1 : Height(d, k) = Height(d, 0)  BY <2>2, <2>3, FlatHeight
  <2> QED BY <2>4, HeightZero
<1>5. Height(d, j) = 0 => \A k \in j .. Len(d) : Height(d, k) = 0
  <2>1. \A k \in j + 1 .. Len(d) : k \in 1 .. Len(d) /\ k > j  BY <1>0, <1>2
  <2>2. \A k \in j + 1 .. Len(d) : d[k].t \notin {"start", "end"}  BY <1>3, <2>1
  <2>3. \A k \in j .. Len(d) : Height(d, k) = Height(d, j)  BY <1>0, <1>2, <2>2, FlatHeight
  <2> QED BY <2>3
<1>6. i - 1 \in 0 .. i - 1 /\ Len(d) \in j .. Len(d) /\ j \in j .. Len(d)  BY <1>0, <1>2
<1>7. CASE i = j /\ d[i].t = "empty"
  <2>1. \A k \in 1 .. Len(d) : k = i \/ k < i \/ k > j  BY <1>0, <1>2, <1>7
  <2>2. \A k \in 1 .. Len(d) : d[k].t \in {"empty", "aside"} /\ (d[k].t = "empty" => k = i)
    BY <1>3, <1>7, <2>1
  <2>3. Height(d, j) = 0
    <3>1. Height(d, i) = Height(d, i - 1)  BY <1>2, <1>7, HeightStep
    <3> QED BY <1>4, <1>6, <1>7, <3>1
  <2>4. \A k \in 1 .. Len(d) : Height(d, k) = 0
    <3> TAKE k \in 1 .. Len(d)
    <3>1. k \in 0 .. i - 1 \/ k \in j .. Len(d)  BY <1>0, <1>2, <1>7
    <3> QED BY <1>4, <1>5, <2>3, <3>1
  <2>5. WellRead(d)
    <3>1. \A m \in 1 .. Len(d) : d[m].t # "start" /\ d[m].t # "text" /\ d[m].t \in Inner
      BY <2>2 DEF Inner
    <3> QED BY <2>4, <3>1 DEF WellRead, Meets
  <2>6. RootsIn(d) = {i}
    <3>1. Height(d, i - 1) = 0  BY <1>4, <1>6
    <3> QED BY <1>7, <2>2, <3>1 DEF RootsIn
  <2> QED BY <1>5, <1>6, <2>3, <2>5, <2>6 DEF Whole
<1>8. CASE /\ i < j /\ d[i].t = "start" /\ d[j] = [t |-> "end", name |-> d[i].name]
           /\ IsContent(d)[i + 1, j]
  <2>0. i < j /\ d[i].t = "start"  BY <1>8, Zenon
  <2>1. d[j].t = "end" /\ d[j].name = d[i].name
    <3>1. d[j] = [t |-> "end", name |-> d[i].name]  BY <1>8
    <3> QED BY <3>1
  <2>2. Balanced(d, i + 1, j)
    <3>1. i + 1 \in 1 .. Len(d) + 1 /\ j \in 1 .. Len(d) + 1  BY <1>0, <1>2
    <3> QED BY <1>8, <3>1, ContentIsBalanced
  <2>3. /\ i \in 1 .. Len(d) + 1 /\ j + 1 \in 1 .. Len(d) + 1 /\ i < j + 1
        /\ j \in i + 1 .. (j + 1) - 1
        /\ (j + 1) - 1 = j /\ (i + 1) - 1 = i /\ j + 1 \in j + 1 .. Len(d) + 1
    BY <1>0, <1>2, <2>0
  <2>4. Balanced(d, j + 1, j + 1)
    <3>1. \A k \in j + 1 .. (j + 1) - 1 : FALSE  BY <1>2
    <3> QED BY <2>3, <3>1 DEF Balanced
  <2>5. Balanced(d, i, j + 1)  BY <1>0, <2>0, <2>1, <2>2, <2>3, <2>4, ElementBalance
  <2>6. Height(d, i - 1) = 0 /\ Height(d, i) = 1 /\ Height(d, j) = 0
    <3>1. Height(d, i - 1) = 0  BY <1>4, <1>6
    <3>2. Height(d, i) = 1
      <4>1. Height(d, i) = Height(d, i - 1) + 1  BY <1>2, <2>0, HeightStep
      <4> QED BY <3>1, <4>1
    <3>3. Height(d, j) = Height(d, i - 1)  BY <2>3, <2>5 DEF Balanced
    <3> QED BY <3>1, <3>2, <3>3
  <2>7. \A k \in i + 1 .. j - 1 : Height(d, k) >= 1  BY <2>2, <2>3, <2>6 DEF Balanced
  <2>8. \A k \in i .. j : d[k].t \in Inner  BY <2>3, <2>5 DEF Balanced
  <2>9. \A k \in 1 .. Len(d) : \/ k < i /\ k \in 0 .. i - 1
                               \/ k > j /\ k \in j .. Len(d)
                               \/ k = i /\ k \in i .. j
                               \/ k = j /\ k \in i .. j
                               \/ k \in i + 1 .. j - 1 /\ k \in i .. j
    BY <1>0, <1>2, <2>0
  <2>10. \A k \in 1 .. Len(d) : Height(d, k) >= 0
    <3> TAKE k \in 1 .. Len(d)
    <3>1. k \in i + 1 .. j - 1 => Height(d, k) >= 0
      <4>1. k \in Nat  OBVIOUS
      <4> QED BY <2>7, <4>1, HeightType
    <3> QED BY <1>4, <1>5, <2>6, <2>9, <3>1
  <2>11. \A k \in 1 .. Len(d) : d[k].t \in Inner /\ (d[k].t = "text" => Height(d, k) >= 1)
    <3> TAKE k \in 1 .. Len(d)
    <3>1. "aside" \in Inner  BY DEF Inner
    <3> QED BY <1>3, <2>0, <2>1, <2>7, <2>8, <2>9, <3>1
  <2>12. \A m, n \in 1 .. Len(d) : Meets(d, m, n) => d[n].name = d[m].name
    <3> TAKE m, n \in 1 .. Len(d)
    <3> HAVE Meets(d, m, n)
    <3>1. d[m].t = "start" /\ d[n].t = "end"  BY DEF Meets
    <3>2. ~(m < i \/ m > j) /\ ~(n < i \/ n > j)  BY <1>3, <3>1
    <3>3. m \in i .. (j + 1) - 1 /\ n \in i .. (j + 1) - 1  BY <1>0, <1>2, <3>2
    <3> QED BY <2>5, <3>3 DEF Balanced
  <2>13. RootsIn(d) = {i}
    <3>1. i \in RootsIn(d)  BY <2>0, <2>6 DEF RootsIn
    <3>2. \A k \in RootsIn(d) : k = i
      <4> TAKE k \in RootsIn(d)
      <4>1. k \in 1 .. Len(d) /\ d[k].t \in {"start", "empty"} /\ Height(d, k - 1) = 0
        BY DEF RootsIn
      <4>2. ~(k < i) /\ ~(k > j) /\ k # j  BY <1>3, <2>1, <4>1
      <4>3. k = i \/ k - 1 = i \/ k - 1 \in i + 1 .. j - 1  BY <1>2, <4>1, <4>2
      <4> QED BY <2>6, <2>7, <4>1, <4>3
    <3> QED BY <3>1, <3>2
  <2> QED BY <1>5, <1>6, <2>6, <2>10, <2>11, <2>12, <2>13 DEF Whole, WellRead
<1> QED BY <1>1, <1>7, <1>8

LEMMA WholeIsDocument ==
  ASSUME NEW d \in Seq(Token), Whole(d)
  PROVE  IsDocument(d)
<1>0. Len(d) \in Nat /\ DOMAIN d = 1 .. Len(d) /\ WellRead(d) /\ Height(d, Len(d)) = 0
  BY DEF Whole
<1>1. PICK r \in 1 .. Len(d) : RootsIn(d) = {r}  BY DEF Whole
<1>2. r \in Nat /\ r >= 1 /\ d[r].t \in {"start", "empty"} /\ Height(d, r - 1) = 0
  BY <1>1 DEF RootsIn
<1>3. \A k \in 1 .. r - 1 : d[k].t = "aside"
  <2>1. \A k \in 0 + 1 .. r - 1 : k # r  BY <1>2
  <2>2. 0 \in 0 .. Len(d) /\ r - 1 \in 0 .. Len(d)  BY <1>0, <1>2
  <2>3. \A k \in 0 + 1 .. r - 1 : k \notin RootsIn(d)  BY <1>1, <2>1
  <2>4. \A k \in 0 + 1 .. r - 1 : d[k].t = "aside"  BY <1>0, <2>2, <2>3, FlatAside, HeightZero
  <2> QED BY <2>4
<1>4. \A j \in r .. Len(d) : Height(d, j) = 0 => \A k \in j + 1 .. Len(d) : d[k].t = "aside"
  <2> TAKE j \in r .. Len(d)
  <2> HAVE Height(d, j) = 0
  <2>1. \A k \in j + 1 .. Len(d) : k # r  BY <1>2
  <2>2. j \in 0 .. Len(d) /\ Len(d) \in 0 .. Len(d)  BY <1>0, <1>2
  <2>3. \A k \in j + 1 .. Len(d) : k \notin RootsIn(d)  BY <1>1, <2>1
  <2> QED BY <1>0, <2>2, <2>3, FlatAside
<1>5. \A j \in r .. Len(d) :
        Height(d, j) = 0 => \A k \in 1 .. Len(d) \ (r .. j) : d[k].t = "aside"
  <2> TAKE j \in r .. Len(d)
  <2> HAVE Height(d, j) = 0
  <2> TAKE k \in 1 .. Len(d) \ (r .. j)
  <2>1. k \in 1 .. r - 1 \/ k \in j + 1 .. Len(d)  BY <1>0, <1>2
  <2> QED BY <1>3, <1>4, <2>1
<1>6. CASE d[r].t = "empty"
  <2>1. Height(d, r) = 0  BY <1>2, <1>6, HeightStep
  <2>2. r \in r .. Len(d)  BY <1>0, <1>2
  <2>3. \A k \in 1 .. Len(d) \ (r .. r) : d[k].t = "aside"  BY <1>5, <2>1, <2>2
  <2> QED BY <1>0, <1>6, <2>3 DEF IsDocument
<1>7. CASE d[r].t = "start"
  <2>1. Height(d, r) = 1  BY <1>2, <1>7, HeightStep
  <2>2. r < Len(d)
    <3>0. Len(d) \in Nat /\ Height(d, Len(d)) = 0  BY <1>0
    <3>1. r # Len(d)  BY <2>1, <3>0
    <3> QED BY <3>0, <3>1
  <2>3. PICK j \in r + 1 .. Len(d) :
          /\ d[j].t = "end" /\ Height(d, j - 1) = Height(d, r) /\ Height(d, j) = Height(d, r) - 1
          /\ \A m \in r .. j - 1 : Height(d, m) >= Height(d, r)
    <3>1. Height(d, Len(d)) < Height(d, r)  BY <1>0, <2>1
    <3> QED BY <1>0, <1>2, <2>2, <3>1, FirstBelow
  <2>4. /\ j \in 1 .. Len(d) /\ j \in r .. Len(d) /\ r < j /\ j \in Nat /\ (r + 1) - 1 = r
        /\ r + 1 \in 1 .. Len(d) + 1 /\ j \in r + 1 .. Len(d) + 1 /\ j \in 1 .. Len(d) + 1
    BY <1>0, <1>2, <2>3
  <2>5. Height(d, j) = 0 /\ Height(d, j - 1) = 1  BY <2>1, <2>3
  <2>6. \A m \in r .. j - 1 : Height(d, m) >= 1  BY <2>1, <2>3
  <2>7. d[j].name = d[r].name
    <3>1. \A m \in r .. j - 1 : Height(d, m) > Height(d, j)
      <4> TAKE m \in r .. j - 1
      <4>1. m \in Nat  BY <1>2
      <4>2. Height(d, m) \in Int /\ Height(d, m) >= 1  BY <2>6, <4>1, HeightType
      <4> QED BY <2>5, <4>2
    <3>2. Meets(d, r, j)  BY <1>2, <1>7, <2>3, <2>4, <2>5, <3>1 DEF Meets
    <3> QED BY <1>0, <2>4, <3>2 DEF WellRead
  <2>8. d[j] = [t |-> "end", name |-> d[r].name]
    <3>1. d[j] \in Token  BY <1>0, <2>4
    <3> QED BY <2>3, <2>7, <3>1 DEF Token
  <2>9. Balanced(d, r + 1, j)
    <3>1. \A k \in r + 1 .. j - 1 : k \in 1 .. Len(d) /\ k \in r .. j - 1  BY <1>2, <2>4
    <3>2. Height(d, j - 1) = Height(d, (r + 1) - 1)  BY <2>1, <2>4, <2>5
    <3>3. \A k \in r + 1 .. j - 1 : Height(d, k) >= Height(d, (r + 1) - 1) /\ d[k].t \in Inner
      BY <1>0, <2>1, <2>4, <2>6, <3>1 DEF WellRead
    <3>4. \A m, n \in r + 1 .. j - 1 : Meets(d, m, n) => d[n].name = d[m].name
      BY <1>0, <3>1 DEF WellRead
    <3> QED BY <2>4, <3>2, <3>3, <3>4 DEF Balanced
  <2>10. IsContent(d)[r + 1, j]  BY <2>4, <2>9, ContentIsBalanced
  <2>11. \A k \in 1 .. Len(d) \ (r .. j) : d[k].t = "aside"  BY <1>5, <2>4, <2>5
  <2> QED BY <1>0, <1>7, <2>4, <2>8, <2>10, <2>11 DEF IsDocument
<1> QED BY <1>2, <1>6, <1>7
-----------------------------------------------------------------------------
(* The elements that are open behind the last token of d.                   *)
Openers(d) == {o \in 1 .. Len(d) : /\ d[o].t = "start"
                                   /\ \A k \in o .. Len(d) : Height(d, k) >= Height(d, o)}

(* Heights and pairs of tags depend on the tokens up to them.               *)
LEMMA SameHeights ==
  ASSUME NEW d, NEW e, NEW n \in Nat, \A i \in 1 .. n : e[i] = d[i]
  PROVE  \A k \in 0 .. n : Height(e, k) = Height(d, k)
<1> TAKE k \in 0 .. n
<1>1. \A i \in 1 .. k : e[i] = d[i]  OBVIOUS
<1>2. Marks(e, k, "start") = Marks(d, k, "start")  BY <1>1 DEF Marks
<1>3. Marks(e, k, "end") = Marks(d, k, "end")  BY <1>1 DEF Marks
<1> QED BY <1>2, <1>3 DEF Height

LEMMA SameMeets ==
  ASSUME NEW d, NEW e, NEW len \in Nat, \A i \in 1 .. len : e[i] = d[i],
         NEW m \in 1 .. len, NEW n \in 1 .. len
  PROVE  Meets(e, m, n) <=> Meets(d, m, n)
<1>1. \A k \in 0 .. len : Height(e, k) = Height(d, k)  BY SameHeights
<1>2. m - 1 \in 0 .. len /\ n \in 0 .. len /\ \A k \in m .. n - 1 : k \in 0 .. len  OBVIOUS
<1>3. /\ Height(e, m - 1) = Height(d, m - 1) /\ Height(e, n) = Height(d, n)
      /\ \A k \in m .. n - 1 : Height(e, k) = Height(d, k)
  BY <1>1, <1>2
<1>4. e[m] = d[m] /\ e[n] = d[n]  OBVIOUS
<1> QED BY <1>3, <1>4 DEF Meets

(* What was read well was so before, too.                                   *)
LEMMA ReadBefore ==
  ASSUME NEW d \in Seq(Token), NEW e \in Seq(Token), Len(d) <= Len(e),
         \A i \in 1 .. Len(d) : e[i] = d[i], WellRead(e)
  PROVE  WellRead(d)
<1>0. /\ Len(d) \in Nat /\ Len(e) \in Nat
      /\ \A k \in 1 .. Len(d) : k \in 1 .. Len(e) /\ k \in 0 .. Len(d)
  OBVIOUS
<1>1. \A k \in 1 .. Len(d) : Height(e, k) = Height(d, k)  BY <1>0, SameHeights
<1>2. \A k \in 1 .. Len(d) : /\ d[k].t \in Inner /\ Height(d, k) >= 0
                             /\ d[k].t = "text" => Height(d, k) >= 1
  BY <1>0, <1>1 DEF WellRead
<1>3. \A m, n \in 1 .. Len(d) : Meets(d, m, n) => d[n].name = d[m].name
  <2> TAKE m, n \in 1 .. Len(d)
  <2> HAVE Meets(d, m, n)
  <2>1. Meets(e, m, n)  BY <1>0, SameMeets
  <2>2. e[n].name = e[m].name  BY <1>0, <2>1 DEF WellRead
  <2> QED BY <2>2
<1> QED BY <1>2, <1>3 DEF WellRead

Grows(d, tok, e) ==
  /\ e \in Seq(Token) /\ Len(d) \in Nat /\ Len(e) = Len(d) + 1
  /\ e[Len(d) + 1] = tok /\ \A k \in 1 .. Len(d) : e[k] = d[k]
  /\ \A k \in 0 .. Len(d) : Height(e, k) = Height(d, k)
  /\ Height(d, Len(d)) \in Int
  /\ tok.t = "start" => Height(e, Len(e)) = Height(d, Len(d)) + 1
  /\ tok.t = "end" => Height(e, Len(e)) = Height(d, Len(d)) - 1
  /\ tok.t \notin {"start", "end"} => Height(e, Len(e)) = Height(d, Len(d))

(* One more token behind d.                                                 *)
LEMMA Grown ==
  ASSUME NEW d \in Seq(Token), NEW tok \in Token
  PROVE  Grows(d, tok, Append(d, tok))
<1> DEFINE e == Append(d, tok)
<1>1. /\ e \in Seq(Token) /\ Len(d) \in Nat /\ Len(e) = Len(d) + 1
      /\ e[Len(d) + 1] = tok /\ \A k \in 1 .. Len(d) : e[k] = d[k]
  OBVIOUS
<1>2. \A k \in 0 .. Len(d) : Height(e, k) = Height(d, k)  BY <1>1, SameHeights
<1>3. Len(d) + 1 \in Nat /\ Len(d) + 1 >= 1 /\ (Len(d) + 1) - 1 = Len(d) /\ Len(d) \in 0 .. Len(d)
  BY <1>1
<1>4. Height(e, (Len(d) + 1) - 1) = Height(d, Len(d))  BY <1>2, <1>3
<1>5. /\ e[Len(d) + 1].t = "start" => Height(e, Len(d) + 1) = Height(e, (Len(d) + 1) - 1) + 1
      /\ e[Len(d) + 1].t = "end" => Height(e, Len(d) + 1) = Height(e, (Len(d) + 1) - 1) - 1
      /\ e[Len(d) + 1].t \notin {"start", "end"}
           => Height(e, Len(d) + 1) = Height(e, (Len(d) + 1) - 1)
  BY <1>3, HeightStep
<1>6. Height(d, Len(d)) \in Int  BY <1>1, HeightType
<1>7. /\ tok.t = "start" => Height(e, Len(e)) = Height(d, Len(d)) + 1
      /\ tok.t = "end" => Height(e, Len(e)) = Height(d, Len(d)) - 1
      /\ tok.t \notin {"start", "end"} => Height(e, Len(e)) = Height(d, Len(d))
  BY <1>1, <1>4, <1>5
<1> QED BY <1>1, <1>2, <1>6, <1>7 DEF Grows

(* A token that ends nothing, where it may stand.                           *)
LEMMA GrownWell ==
  ASSUME NEW d \in Seq(Token), NEW tok \in Token, NEW e, e = Append(d, tok), WellRead(d),
         Height(d, Len(d)) >= 0, tok.t \in {"start", "empty", "aside", "text"},
         tok.t = "text" => Height(d, Len(d)) >= 1
  PROVE  WellRead(e)
<1>g. Grows(d, tok, e)  BY Grown
<1>1. /\ e \in Seq(Token) /\ Len(d) \in Nat /\ Len(e) = Len(d) + 1
      /\ e[Len(d) + 1] = tok /\ \A k \in 1 .. Len(d) : e[k] = d[k]
      /\ \A k \in 0 .. Len(d) : Height(e, k) = Height(d, k)
      /\ Height(d, Len(d)) \in Int
  BY <1>g DEF Grows
<1>2. /\ Height(e, Len(d) + 1) >= 0
      /\ tok.t = "text" => Height(e, Len(d) + 1) >= 1
  <2>1. CASE tok.t = "start"
    <3>1. Height(e, Len(e)) = Height(d, Len(d)) + 1  BY <2>1, <1>g DEF Grows
    <3>2. Height(e, Len(d) + 1) = Height(d, Len(d)) + 1  BY <1>1, <3>1
    <3>3. Height(e, Len(d) + 1) >= 0  BY <1>1, <3>2
    <3> QED BY <2>1, <3>3
  <2>2. CASE tok.t \in {"empty", "aside", "text"}
    <3>0. tok.t \notin {"start", "end"}  BY <2>2
    <3>1. Height(e, Len(e)) = Height(d, Len(d))  BY <3>0, <1>g DEF Grows
    <3>2. Height(e, Len(d) + 1) = Height(d, Len(d))  BY <1>1, <3>1
    <3> QED BY <3>2
  <2> QED BY <2>1, <2>2
<1>3. \A k \in 1 .. Len(e) : k = Len(d) + 1 \/ (k \in 1 .. Len(d) /\ k \in 0 .. Len(d))
  BY <1>1
<1>4. \A k \in 1 .. Len(e) : /\ e[k].t \in Inner /\ Height(e, k) >= 0
                             /\ e[k].t = "text" => Height(e, k) >= 1
  <2> TAKE k \in 1 .. Len(e)
  <2>1. CASE k = Len(d) + 1  BY <1>1, <1>2, <2>1 DEF Inner
  <2>2. CASE k \in 1 .. Len(d) /\ k \in 0 .. Len(d)
    <3>1. e[k] = d[k] /\ Height(e, k) = Height(d, k)  BY <1>1, <2>2
    <3> QED BY <2>2, <3>1 DEF WellRead
  <2> QED BY <1>3, <2>1, <2>2
<1>5. \A m, n \in 1 .. Len(e) : Meets(e, m, n) => e[n].name = e[m].name
  <2> TAKE m, n \in 1 .. Len(e)
  <2> HAVE Meets(e, m, n)
  <2>0. m < n /\ e[n].t = "end"  BY DEF Meets
  <2>1. n # Len(d) + 1  BY <1>1, <2>0
  <2>2. n \in 1 .. Len(d) /\ m \in 1 .. Len(d)  BY <1>1, <2>0, <2>1
  <2>3. Meets(d, m, n)  BY <1>1, <2>2, SameMeets
  <2> QED BY <1>1, <2>2, <2>3 DEF WellRead
<1> QED BY <1>4, <1>5 DEF WellRead

(* An end tag is read well where it has the name of what is open last.      *)
LEMMA EndedWell ==
  ASSUME NEW d \in Seq(Token), NEW tok \in Token, NEW e, e = Append(d, tok), WellRead(d),
         Height(d, Len(d)) >= 1, tok.t = "end",
         \A o \in Openers(d) : Height(d, o) = Height(d, Len(d)) => d[o].name = tok.name
  PROVE  WellRead(e)
<1>g. Grows(d, tok, e)  BY Grown
<1>1. /\ e \in Seq(Token) /\ Len(d) \in Nat /\ Len(e) = Len(d) + 1
      /\ e[Len(d) + 1] = tok /\ \A k \in 1 .. Len(d) : e[k] = d[k]
      /\ \A k \in 0 .. Len(d) : Height(e, k) = Height(d, k)
      /\ Height(d, Len(d)) \in Int
  BY <1>g DEF Grows
<1>2. Height(e, Len(d) + 1) = Height(d, Len(d)) - 1
  <2>1. Height(e, Len(e)) = Height(d, Len(d)) - 1  BY <1>g DEF Grows
  <2> QED BY <1>1, <2>1
<1>3. \A k \in 1 .. Len(e) : k = Len(d) + 1 \/ (k \in 1 .. Len(d) /\ k \in 0 .. Len(d))
  BY <1>1
<1>4. \A k \in 1 .. Len(e) : /\ e[k].t \in Inner /\ Height(e, k) >= 0
                             /\ e[k].t = "text" => Height(e, k) >= 1
  <2> TAKE k \in 1 .. Len(e)
  <2>1. CASE k = Len(d) + 1
    <3>1. Height(e, k) >= 0  BY <1>1, <1>2, <2>1
    <3>2. e[k].t = "end"  BY <1>1, <2>1
    <3> QED BY <3>1, <3>2 DEF Inner
  <2>2. CASE k \in 1 .. Len(d) /\ k \in 0 .. Len(d)
    <3>1. e[k] = d[k] /\ Height(e, k) = Height(d, k)  BY <1>1, <2>2
    <3> QED BY <2>2, <3>1 DEF WellRead
  <2> QED BY <1>3, <2>1, <2>2
<1>5. \A m, n \in 1 .. Len(e) : Meets(e, m, n) => e[n].name = e[m].name
  <2> TAKE m, n \in 1 .. Len(e)
  <2> HAVE Meets(e, m, n)
  <2>0. /\ m < n /\ e[n].t = "end" /\ e[m].t = "start" /\ Height(e, m - 1) = Height(e, n)
        /\ \A k \in m .. n - 1 : Height(e, k) > Height(e, n)
    BY DEF Meets
  <2>1. m \in 1 .. Len(d) /\ m - 1 \in 0 .. Len(d) /\ m \in Nat /\ m >= 1  BY <1>1, <2>0
  <2>2. CASE n \in 1 .. Len(d)
    <3>1. Meets(d, m, n)  BY <1>1, <2>1, <2>2, SameMeets
    <3> QED BY <1>1, <2>1, <2>2, <3>1 DEF WellRead
  <2>3. CASE n = Len(d) + 1
    <3>1. d[m].t = "start" /\ Height(d, m - 1) = Height(d, Len(d)) - 1
      BY <1>1, <1>2, <2>0, <2>1, <2>3
    <3>2. Height(d, m) = Height(d, Len(d))
      <4>1. Height(d, m) = Height(d, m - 1) + 1  BY <2>1, <3>1, HeightStep
      <4> QED BY <1>1, <3>1, <4>1
    <3>3. \A k \in m .. Len(d) : Height(d, k) >= Height(d, m)
      <4> TAKE k \in m .. Len(d)
      <4>1. k \in m .. n - 1 /\ k \in 0 .. Len(d) /\ k \in Nat  BY <1>1, <2>1, <2>3
      <4>2. Height(e, k) > Height(e, n)  BY <2>0, <4>1
      <4>3. Height(d, k) > Height(d, Len(d)) - 1  BY <1>1, <1>2, <2>3, <4>1, <4>2
      <4>4. Height(d, k) \in Int  BY <4>1, HeightType
      <4> QED BY <1>1, <3>2, <4>3, <4>4
    <3>4. m \in Openers(d)  BY <2>1, <3>1, <3>3 DEF Openers
    <3>5. d[m].name = tok.name  BY <3>2, <3>4
    <3> QED BY <1>1, <2>1, <2>3, <3>5
  <2> QED BY <1>3, <2>2, <2>3
<1> QED BY <1>4, <1>5 DEF WellRead

(* At every height there is an element that is open.                        *)
LEMMA OpenerAt ==
  ASSUME NEW d \in Seq(Token), NEW h \in Nat, h >= 1, Height(d, Len(d)) >= h
  PROVE  \E o \in Openers(d) : /\ Height(d, o) = h /\ Height(d, o - 1) = h - 1
                               /\ \A k \in o .. Len(d) : Height(d, k) >= h
<1> DEFINE S == {k \in 0 .. Len(d) : \A x \in k .. Len(d) : Height(d, x) >= h}
<1>0. Len(d) \in Nat  OBVIOUS
<1>1. S \in SUBSET Nat  BY <1>0
<1>2. Len(d) \in S
  <2>1. \A x \in Len(d) .. Len(d) : x = Len(d)  BY <1>0
  <2> QED BY <1>0, <2>1
<1>3. PICK o \in S : \A y \in S : o <= y
  <2> HIDE DEF S
  <2> QED BY <1>1, <1>2, Least
<1>4. o \in 0 .. Len(d) /\ \A x \in o .. Len(d) : Height(d, x) >= h  OBVIOUS
<1>5. o # 0
  <2>1. CASE o = 0
    <3>1. Height(d, 0) >= h  BY <1>0, <1>4, <2>1
    <3> QED BY <3>1, HeightZero
  <2> QED BY <2>1
<1>6. /\ o \in Nat /\ o >= 1 /\ o - 1 \in 0 .. Len(d) /\ o - 1 \in Nat
      /\ o \in o .. Len(d) /\ o \in 1 .. Len(d)
  BY <1>0, <1>4, <1>5
<1>7. o - 1 \notin S
  <2> HIDE DEF S
  <2>1. o - 1 \in S => o <= o - 1  BY <1>3
  <2> QED BY <1>6, <2>1
<1>8. PICK x \in o - 1 .. Len(d) : ~(Height(d, x) >= h)  BY <1>6, <1>7
<1> HIDE DEF S
<1>9. x = o - 1
  <2>1. x \notin o .. Len(d)  BY <1>4, <1>8
  <2> QED BY <1>0, <1>6, <2>1
<1>10. Height(d, o - 1) \in Int /\ Height(d, o - 1) < h
  <2>1. Height(d, o - 1) \in Int  BY <1>6, HeightType
  <2> QED BY <1>8, <1>9, <2>1
<1>11. Height(d, o) >= h  BY <1>4, <1>6
<1>12. d[o].t = "start"
  <2>0. Height(d, o) > Height(d, o - 1) /\ Height(d, o) \in Int /\ Height(d, o - 1) \in Int
    BY <1>6, <1>10, <1>11, HeightType
  <2>1. d[o].t = "end" => Height(d, o) = Height(d, o - 1) - 1  BY <1>6, HeightStep
  <2>2. d[o].t \notin {"start", "end"} => Height(d, o) = Height(d, o - 1)  BY <1>6, HeightStep
  <2> QED BY <2>0, <2>1, <2>2
<1>13. Height(d, o) = h /\ Height(d, o - 1) = h - 1
  <2>1. Height(d, o) = Height(d, o - 1) + 1  BY <1>6, <1>12, HeightStep
  <2> QED BY <1>10, <1>11, <2>1
<1>14. o \in Openers(d)  BY <1>4, <1>6, <1>12, <1>13 DEF Openers
<1> QED BY <1>4, <1>13, <1>14

(* Where a text or an end tag is refused.                                   *)
LEMMA Misread ==
  ASSUME NEW d \in Seq(Token), NEW tok \in Token, NEW e, e = Append(d, tok), WellRead(e),
         Height(d, Len(d)) >= 0
  PROVE  /\ tok.t \in {"text", "end"} => Height(d, Len(d)) >= 1
         /\ tok.t = "end" => \E o \in Openers(d) :
                               Height(d, o) = Height(d, Len(d)) /\ d[o].name = tok.name
<1>g. Grows(d, tok, e)  BY Grown
<1>1. /\ e \in Seq(Token) /\ Len(d) \in Nat /\ Len(e) = Len(d) + 1
      /\ e[Len(d) + 1] = tok /\ \A k \in 1 .. Len(d) : e[k] = d[k]
      /\ \A k \in 0 .. Len(d) : Height(e, k) = Height(d, k)
      /\ Height(d, Len(d)) \in Int
  BY <1>g DEF Grows
<1>0. Len(e) \in 1 .. Len(e) /\ e[Len(e)] = tok /\ Len(e) \in Nat  BY <1>1
<1>2. /\ Height(e, Len(e)) >= 0
      /\ tok.t = "text" => Height(e, Len(e)) >= 1
  BY <1>0 DEF WellRead
<1>3. CASE tok.t = "text"
  <2>1. Height(e, Len(e)) = Height(d, Len(d))  BY <1>3, <1>g DEF Grows
  <2> QED BY <1>2, <1>3, <2>1
<1>4. CASE tok.t = "end"
  <2>1. Height(e, Len(e)) = Height(d, Len(d)) - 1  BY <1>4, <1>g DEF Grows
  <2>2. Height(d, Len(d)) >= 1 /\ Height(d, Len(d)) \in Nat  BY <1>1, <1>2, <2>1
  <2>3. PICK o \in Openers(d) : /\ Height(d, o) = Height(d, Len(d))
                                /\ Height(d, o - 1) = Height(d, Len(d)) - 1
                                /\ \A k \in o .. Len(d) : Height(d, k) >= Height(d, Len(d))
    BY <1>1, <2>2, OpenerAt
  <2>4. o \in 1 .. Len(d) /\ d[o].t = "start"  BY DEF Openers
  <2>5. o \in Nat /\ o \in 1 .. Len(e) /\ o - 1 \in 0 .. Len(d) /\ o < Len(e) /\ e[o] = d[o]
    BY <1>1, <2>4
  <2>6. \A k \in o .. Len(e) - 1 : Height(e, k) > Height(e, Len(e))
    <3> TAKE k \in o .. Len(e) - 1
    <3>1. k \in o .. Len(d) /\ k \in 0 .. Len(d)  BY <1>1, <2>5
    <3>2. Height(e, k) = Height(d, k) /\ Height(d, k) >= Height(d, Len(d))  BY <1>1, <2>3, <3>1
    <3>3. Height(d, k) \in Int  BY <3>1, HeightType
    <3> QED BY <1>1, <2>1, <3>2, <3>3
  <2>7. Height(e, o - 1) = Height(e, Len(e))  BY <1>1, <2>1, <2>3, <2>5
  <2>8. Meets(e, o, Len(e))  BY <1>0, <1>4, <2>4, <2>5, <2>6, <2>7 DEF Meets
  <2>9. tok.name = d[o].name  BY <1>0, <2>5, <2>8 DEF WellRead
  <2> QED BY <1>4, <2>2, <2>3, <2>9
<1> QED BY <1>3, <1>4
-----------------------------------------------------------------------------
(* How many nodes are open up to node i, and the elements below the anchor. *)
Rank(nodes, i) == Cardinality({j \in PendingIn(nodes) : j <= i})
RootNodes(nodes) == {i \in Children(nodes, Top) : nodes[i].id = "name"}

(* The tree is what was read of d: the open nodes are, in this order, the   *)
(* open elements, and the roots are the elements that are in no other.      *)
Reads(nodes, at, d) ==
  /\ d \in Seq(Token) /\ WellRead(d) /\ nodes[Top].state = "ANCHOR"
  /\ \A i \in PendingIn(nodes) : nodes[i].state = "OPENED" /\ i <= at
  /\ \A i, j \in PendingIn(nodes) : j < i => j <= nodes[i].prev
  /\ Cardinality(PendingIn(nodes)) = Height(d, Len(d))
  /\ \A i \in PendingIn(nodes), o \in Openers(d) :
       Rank(nodes, i) = Height(d, o) => nodes[i].name = d[o].name
  /\ Cardinality(RootNodes(nodes)) = Cardinality(RootsIn(d))

(* What is counted is finite.                                               *)
LEMMA PendingCounts ==
  ASSUME NEW nodes, NEW at, Typed(nodes, at)
  PROVE  /\ nodes \in Seq(Node) /\ Len(nodes) \in Nat /\ DOMAIN nodes = 1 .. Len(nodes)
         /\ Top \in 1 .. Len(nodes)
         /\ PendingIn(nodes) \subseteq 2 .. Len(nodes) /\ IsFiniteSet(PendingIn(nodes))
         /\ Cardinality(PendingIn(nodes)) \in Nat
         /\ \A i \in PendingIn(nodes) : /\ Rank(nodes, i) \in Nat
                                        /\ Rank(nodes, i) <= Cardinality(PendingIn(nodes))
         /\ IsFiniteSet(RootNodes(nodes)) /\ Cardinality(RootNodes(nodes)) \in Nat
         /\ RootNodes(nodes) \subseteq 1 .. Len(nodes)
<1>1. /\ nodes \in Seq(Node) /\ Len(nodes) \in Nat /\ DOMAIN nodes = 1 .. Len(nodes)
      /\ Top \in 1 .. Len(nodes)
  BY DEF Typed, Top
<1>2. PendingIn(nodes) \subseteq 2 .. Len(nodes)  BY <1>1 DEF PendingIn, Top
<1>3. IsFiniteSet(1 .. Len(nodes)) /\ IsFiniteSet(2 .. Len(nodes))  BY <1>1, FS_Interval
<1>4. IsFiniteSet(PendingIn(nodes)) /\ Cardinality(PendingIn(nodes)) \in Nat
  BY <1>2, <1>3, FS_Subset, FS_CardinalityType
<1>5. \A i \in PendingIn(nodes) : /\ Rank(nodes, i) \in Nat
                                  /\ Rank(nodes, i) <= Cardinality(PendingIn(nodes))
  <2> TAKE i \in PendingIn(nodes)
  <2> DEFINE R == {j \in PendingIn(nodes) : j <= i}
  <2>1. R \subseteq PendingIn(nodes)  OBVIOUS
  <2>2. Rank(nodes, i) = Cardinality(R)  BY DEF Rank
  <2> HIDE DEF R
  <2>3. IsFiniteSet(R) /\ Cardinality(R) <= Cardinality(PendingIn(nodes))
    BY <1>4, <2>1, FS_Subset
  <2> QED BY <2>2, <2>3, FS_CardinalityType
<1>6. RootNodes(nodes) \subseteq 1 .. Len(nodes)  BY <1>1 DEF RootNodes, Children
<1>7. IsFiniteSet(RootNodes(nodes)) /\ Cardinality(RootNodes(nodes)) \in Nat
  BY <1>3, <1>6, FS_Subset, FS_CardinalityType
<1> QED BY <1>1, <1>2, <1>4, <1>5, <1>6, <1>7

(* A token is a root if it is an element and nothing is open.               *)
LEMMA RootsGrow ==
  ASSUME NEW d \in Seq(Token), NEW tok, NEW e, Grows(d, tok, e)
  PROVE  /\ IsFiniteSet(RootsIn(d)) /\ Cardinality(RootsIn(d)) \in Nat
         /\ ~(tok.t \in {"start", "empty"} /\ Height(d, Len(d)) = 0)
              => Cardinality(RootsIn(e)) = Cardinality(RootsIn(d))
         /\ tok.t \in {"start", "empty"} /\ Height(d, Len(d)) = 0
              => Cardinality(RootsIn(e)) = Cardinality(RootsIn(d)) + 1
<1>1. /\ Len(d) \in Nat /\ Len(e) = Len(d) + 1
      /\ e[Len(d) + 1] = tok /\ \A k \in 1 .. Len(d) : e[k] = d[k]
      /\ \A k \in 0 .. Len(d) : Height(e, k) = Height(d, k)
  BY DEF Grows
<1>2. \A k \in 1 .. Len(d) : e[k] = d[k] /\ Height(e, k - 1) = Height(d, k - 1)
  <2> TAKE k \in 1 .. Len(d)
  <2>1. k - 1 \in 0 .. Len(d)  BY <1>1
  <2> QED BY <1>1, <2>1
<1>3. Height(e, (Len(d) + 1) - 1) = Height(d, Len(d))
  <2>1. (Len(d) + 1) - 1 = Len(d) /\ Len(d) \in 0 .. Len(d)  BY <1>1
  <2> QED BY <1>1, <2>1
<1>4. \A k \in 1 .. Len(e) : k = Len(d) + 1 \/ k \in 1 .. Len(d)  BY <1>1
<1>5. /\ Len(d) + 1 \in 1 .. Len(e) /\ Len(d) + 1 \notin 1 .. Len(d)
      /\ \A k \in 1 .. Len(d) : k \in 1 .. Len(e)
  BY <1>1
<1>6. IsFiniteSet(RootsIn(d))
  <2>1. IsFiniteSet(1 .. Len(d))  BY <1>1, FS_Interval
  <2>2. RootsIn(d) \subseteq 1 .. Len(d)  BY DEF RootsIn
  <2> QED BY <2>1, <2>2, FS_Subset
<1>7. Cardinality(RootsIn(d)) \in Nat  BY <1>6, FS_CardinalityType
<1>8. ASSUME ~(tok.t \in {"start", "empty"} /\ Height(d, Len(d)) = 0)
      PROVE  Cardinality(RootsIn(e)) = Cardinality(RootsIn(d))
  <2>1. Len(d) + 1 \notin RootsIn(e)  BY <1>1, <1>3, <1>8 DEF RootsIn
  <2>2. RootsIn(e) = RootsIn(d)  BY <1>2, <1>4, <1>5, <2>1 DEF RootsIn
  <2> QED BY <2>2
<1>9. ASSUME tok.t \in {"start", "empty"} /\ Height(d, Len(d)) = 0
      PROVE  Cardinality(RootsIn(e)) = Cardinality(RootsIn(d)) + 1
  <2>1. Len(d) + 1 \in RootsIn(e)  BY <1>1, <1>3, <1>5, <1>9 DEF RootsIn
  <2>2. RootsIn(e) = RootsIn(d) \cup {Len(d) + 1}
    BY <1>2, <1>4, <1>5, <2>1 DEF RootsIn
  <2>3. Len(d) + 1 \notin RootsIn(d)  BY <1>5 DEF RootsIn
  <2> QED BY <1>6, <1>7, <2>2, <2>3, FS_AddElement
<1> QED BY <1>6, <1>7, <1>8, <1>9

(* Nothing is open where the anchor is the current node, and only there.    *)
LEMMA AtTop ==
  ASSUME NEW nodes, NEW at, Tree(nodes, at), NEW d, Reads(nodes, at, d)
  PROVE  /\ at = Top => Height(d, Len(d)) = 0
         /\ at # Top => /\ at \in PendingIn(nodes) /\ Height(d, Len(d)) >= 1
                        /\ Rank(nodes, at) = Height(d, Len(d))
<1>0. Typed(nodes, at) /\ Chain(nodes, at)  BY DEF Tree
<1>1. ASSUME at = Top PROVE Height(d, Len(d)) = 0
  <2>1. PendingIn(nodes) = {}  BY <1>0, <1>1, ChainToTop
  <2> QED BY <2>1, FS_EmptySet DEF Reads
<1>2. ASSUME at # Top
      PROVE  /\ at \in PendingIn(nodes) /\ Height(d, Len(d)) >= 1
             /\ Rank(nodes, at) = Height(d, Len(d))
  <2>1. at \in PendingIn(nodes)  BY <1>0, <1>2 DEF Chain
  <2>2. {j \in PendingIn(nodes) : j <= at} = PendingIn(nodes)  BY DEF Reads
  <2>3. Rank(nodes, at) = Height(d, Len(d))  BY <2>2 DEF Rank, Reads
  <2>4. IsFiniteSet(PendingIn(nodes)) /\ Cardinality(PendingIn(nodes)) \in Nat
    BY <1>0, PendingCounts
  <2>5. Cardinality(PendingIn(nodes)) # 0  BY <2>1, <2>4, FS_EmptySet
  <2>6. Height(d, Len(d)) \in Nat /\ Height(d, Len(d)) # 0  BY <2>4, <2>5 DEF Reads
  <2> QED BY <2>1, <2>3, <2>6
<1> QED BY <1>1, <1>2

(* An element that stays open was open before, and below what is open now.  *)
LEMMA OpenBefore ==
  ASSUME NEW d, NEW tok, NEW e, Grows(d, tok, e), NEW o \in Openers(e), o \in 1 .. Len(d)
  PROVE  /\ o \in Openers(d) /\ e[o] = d[o] /\ Height(e, o) = Height(d, o)
         /\ Height(d, o) <= Height(e, Len(e))
<1>1. /\ Len(d) \in Nat /\ Len(e) = Len(d) + 1
      /\ \A k \in 1 .. Len(d) : e[k] = d[k]
      /\ \A k \in 0 .. Len(d) : Height(e, k) = Height(d, k)
  BY DEF Grows
<1>2. e[o].t = "start" /\ \A k \in o .. Len(e) : Height(e, k) >= Height(e, o)
  BY DEF Openers
<1>3. o \in 0 .. Len(d) /\ o \in Nat /\ Len(e) \in o .. Len(e) /\ Len(e) \in Nat  BY <1>1
<1>4. e[o] = d[o] /\ Height(e, o) = Height(d, o)  BY <1>1, <1>3
<1>5. \A k \in o .. Len(d) : Height(d, k) >= Height(d, o)
  <2> TAKE k \in o .. Len(d)
  <2>1. k \in o .. Len(e) /\ k \in 0 .. Len(d)  BY <1>1, <1>3
  <2>2. Height(e, k) = Height(d, k)  BY <1>1, <2>1
  <2> QED BY <1>2, <1>4, <2>1, <2>2
<1>6. o \in Openers(d)  BY <1>2, <1>4, <1>5 DEF Openers
<1>7. Height(e, Len(e)) >= Height(e, o) /\ Height(e, o) \in Int /\ Height(e, Len(e)) \in Int
  BY <1>2, <1>3, HeightType
<1> QED BY <1>4, <1>6, <1>7

(* A node that is a leaf, a node that is opened and an end tag that fits:   *)
(* the tree goes on being what was read.                                    *)
LEMMA LeafReads ==
  ASSUME NEW nodes, NEW at, Tree(nodes, at), NEW d, Reads(nodes, at, d),
         NEW node \in Node, node.prev = at, node.state \in {"CLOSED", "EMPTY"},
         NEW tok \in Token, tok.t \in {"empty", "aside", "text"},
         node.id = "name" <=> tok.t = "empty", tok.t = "text" => at # Top
  PROVE  Reads(Append(nodes, node), at, Append(d, tok))
<1> DEFINE more == Append(nodes, node)
           e == Append(d, tok)
           new == Len(nodes) + 1
           P == PendingIn(nodes)
<1>0. Typed(nodes, at) /\ d \in Seq(Token)  BY DEF Tree, Reads
<1>1. /\ nodes \in Seq(Node) /\ Len(nodes) \in Nat /\ DOMAIN nodes = 1 .. Len(nodes)
      /\ Top \in 1 .. Len(nodes)
      /\ P \subseteq 2 .. Len(nodes) /\ IsFiniteSet(P) /\ Cardinality(P) \in Nat
      /\ IsFiniteSet(RootNodes(nodes)) /\ Cardinality(RootNodes(nodes)) \in Nat
      /\ RootNodes(nodes) \subseteq 1 .. Len(nodes)
  BY <1>0, PendingCounts
<1>2. /\ DOMAIN more = 1 .. new /\ \A i \in 1 .. Len(nodes) : more[i] = nodes[i]
      /\ more[new] = node
  BY <1>1
<1>3. /\ new \notin 1 .. Len(nodes) /\ new \in 1 .. new
      /\ \A i \in 1 .. new : (i = new \/ i \in 1 .. Len(nodes))
      /\ \A i \in 1 .. Len(nodes) : i \in 1 .. new
  BY <1>1
<1>g. Grows(d, tok, e)  BY <1>0, Grown
<1> HIDE DEF more, e, new
<1>4. PendingIn(more) = P  BY <1>1, <1>2, <1>3 DEF PendingIn
<1>5. \A i \in P : more[i] = nodes[i]  BY <1>1, <1>2 DEF PendingIn
<1>6. \A i \in P : Rank(more, i) = Rank(nodes, i)  BY <1>4 DEF Rank
<1>7. Height(e, Len(e)) = Height(d, Len(d))
  <2>1. tok.t \notin {"start", "end"}  OBVIOUS
  <2> QED BY <1>g, <2>1 DEF Grows
<1>8. WellRead(e)
  <2>1. Height(d, Len(d)) >= 0  BY <1>1 DEF Reads
  <2>2. tok.t = "text" => Height(d, Len(d)) >= 1  BY AtTop
  <2> QED BY <1>0, <2>1, <2>2, GrownWell DEF Reads, e
<1>9. \A i \in P, o \in Openers(e) : Rank(more, i) = Height(e, o) => more[i].name = e[o].name
  <2> TAKE i \in P, o \in Openers(e)
  <2>1. o \in 1 .. Len(e) /\ e[o].t = "start"  BY DEF Openers
  <2>2. o # Len(d) + 1  BY <1>g, <2>1 DEF Grows
  <2>3. o \in 1 .. Len(d)  BY <1>g, <2>1, <2>2 DEF Grows
  <2>4. o \in Openers(d) /\ e[o] = d[o] /\ Height(e, o) = Height(d, o)  BY <1>g, <2>3, OpenBefore
  <2> QED BY <1>5, <1>6, <2>4 DEF Reads
<1>10. Cardinality(RootNodes(more)) = Cardinality(RootsIn(e))
  <2>0. /\ Cardinality(RootNodes(nodes)) = Cardinality(RootsIn(d))
        /\ (at = Top <=> Height(d, Len(d)) = 0)
    BY AtTop DEF Reads
  <2>1. CASE tok.t = "empty" /\ at = Top
    <3>1. RootNodes(more) = RootNodes(nodes) \cup {new}
      BY <1>1, <1>2, <1>3, <2>1 DEF RootNodes, Children
    <3>2. new \notin RootNodes(nodes)  BY <1>1, <1>3
    <3>3. Cardinality(RootNodes(more)) = Cardinality(RootNodes(nodes)) + 1
      <4>1. Cardinality(RootNodes(nodes) \cup {new}) = Cardinality(RootNodes(nodes)) + 1
        BY <1>1, <3>2, FS_AddElement
      <4> QED BY <3>1, <4>1
    <3>4. tok.t \in {"start", "empty"} /\ Height(d, Len(d)) = 0  BY <2>0, <2>1
    <3>5. Cardinality(RootsIn(e)) = Cardinality(RootsIn(d)) + 1  BY <1>0, <1>g, <3>4, RootsGrow
    <3> QED BY <2>0, <3>3, <3>5
  <2>2. CASE ~(tok.t = "empty" /\ at = Top)
    <3>1. new \notin RootNodes(more)  BY <1>2, <2>2 DEF RootNodes, Children
    <3>2. RootNodes(more) = RootNodes(nodes)
      BY <1>1, <1>2, <1>3, <3>1 DEF RootNodes, Children
    <3>3. ~(tok.t \in {"start", "empty"} /\ Height(d, Len(d)) = 0)  BY <2>0, <2>2
    <3>4. Cardinality(RootsIn(e)) = Cardinality(RootsIn(d))  BY <1>0, <1>g, <3>3, RootsGrow
    <3> QED BY <2>0, <3>2, <3>4
  <2> QED BY <2>1, <2>2
<1>11. e \in Seq(Token) /\ more[Top].state = "ANCHOR"  BY <1>g, <1>1, <1>2 DEF Grows, Reads
<1>12. \A i \in P : more[i].state = "OPENED" /\ i <= at  BY <1>5 DEF Reads
<1>13. \A i, j \in P : j < i => j <= more[i].prev  BY <1>5 DEF Reads
<1>14. Cardinality(P) = Height(e, Len(e))  BY <1>7 DEF Reads
<1>15. Reads(more, at, e)
  BY <1>4, <1>8, <1>9, <1>10, <1>11, <1>12, <1>13, <1>14 DEF Reads
<1> QED BY <1>15 DEF more, e
-----------------------------------------------------------------------------
LEMMA EnterReads ==
  ASSUME NEW nodes, NEW at, Tree(nodes, at), NEW d, Reads(nodes, at, d),
         NEW tok \in Token, tok.t = "start",
         NEW node \in Node, node.prev = at, node.state = "OPENED",
         node.id = "name", node.name = tok.name
  PROVE  Reads(Append(nodes, node), Len(nodes) + 1, Append(d, tok))
<1> DEFINE more == Append(nodes, node)
           e == Append(d, tok)
           new == Len(nodes) + 1
           P == PendingIn(nodes)
<1>0. Typed(nodes, at) /\ d \in Seq(Token)  BY DEF Tree, Reads
<1>1. /\ nodes \in Seq(Node) /\ Len(nodes) \in Nat /\ DOMAIN nodes = 1 .. Len(nodes)
      /\ Top \in 1 .. Len(nodes)
      /\ P \subseteq 2 .. Len(nodes) /\ IsFiniteSet(P) /\ Cardinality(P) \in Nat
      /\ IsFiniteSet(RootNodes(nodes)) /\ Cardinality(RootNodes(nodes)) \in Nat
      /\ RootNodes(nodes) \subseteq 1 .. Len(nodes)
  BY <1>0, PendingCounts
<1>2. /\ DOMAIN more = 1 .. new /\ \A i \in 1 .. Len(nodes) : more[i] = nodes[i]
      /\ more[new] = node
  BY <1>1
<1>3. /\ new \notin 1 .. Len(nodes) /\ new \in 1 .. new /\ new \in Nat
      /\ \A i \in 1 .. new : (i = new \/ i \in 1 .. Len(nodes))
      /\ \A i \in 1 .. Len(nodes) : i \in 1 .. new /\ i < new /\ i <= new /\ ~(new <= i)
      /\ new # Top
  BY <1>1 DEF Top
<1>g. Grows(d, tok, e)  BY <1>0, Grown
<1> HIDE DEF more, e, new
<1>p. \A i \in P : i \in 1 .. Len(nodes)  BY <1>1
<1>4. PendingIn(more) = P \cup {new}  BY <1>1, <1>2, <1>3 DEF PendingIn
<1>5. \A i \in P : more[i] = nodes[i]  BY <1>2, <1>p
<1>6. \A i \in P : Rank(more, i) = Rank(nodes, i)
  <2> TAKE i \in P
  <2>1. {j \in PendingIn(more) : j <= i} = {j \in P : j <= i}  BY <1>3, <1>4, <1>p
  <2> QED BY <2>1 DEF Rank
<1>7. Cardinality(PendingIn(more)) = Cardinality(P) + 1
  <2>1. new \notin P  BY <1>3, <1>p
  <2>2. Cardinality(P \cup {new}) = Cardinality(P) + 1  BY <1>1, <2>1, FS_AddElement
  <2> QED BY <1>4, <2>2
<1>8. Rank(more, new) = Cardinality(P) + 1
  <2>1. {j \in PendingIn(more) : j <= new} = PendingIn(more)  BY <1>3, <1>4, <1>p
  <2> QED BY <1>7, <2>1 DEF Rank
<1>h. /\ Height(d, Len(d)) = Cardinality(P) /\ Height(e, Len(e)) = Cardinality(P) + 1
      /\ Len(d) \in Nat /\ Len(e) = Len(d) + 1
  <2>1. Height(d, Len(d)) = Cardinality(P)  BY DEF Reads
  <2>2. Height(e, Len(e)) = Height(d, Len(d)) + 1  BY <1>g DEF Grows
  <2> QED BY <1>g, <2>1, <2>2 DEF Grows
<1>9. WellRead(e)
  <2>1. Height(d, Len(d)) >= 0  BY <1>1, <1>h
  <2> QED BY <1>0, <2>1, GrownWell DEF Reads, e
<1>10. ASSUME NEW i \in P \cup {new}, NEW o \in Openers(e), Rank(more, i) = Height(e, o)
       PROVE  more[i].name = e[o].name
  <2>1. o \in 1 .. Len(e)  BY DEF Openers
  <2>2. CASE o = Len(d) + 1
    <3>1. Height(e, o) = Cardinality(P) + 1 /\ e[o] = tok  BY <1>g, <1>h, <2>2 DEF Grows
    <3>2. CASE i \in P
      <4>1. Rank(nodes, i) <= Cardinality(P) /\ Rank(nodes, i) \in Nat
        BY <1>0, <3>2, PendingCounts
      <4>2. Rank(nodes, i) = Cardinality(P) + 1  BY <1>6, <1>10, <3>1, <3>2
      <4> QED BY <1>1, <4>1, <4>2
    <3>3. CASE i = new  BY <1>2, <3>1, <3>3
    <3> QED BY <3>2, <3>3
  <2>3. CASE o # Len(d) + 1
    <3>1. o \in 1 .. Len(d)  BY <1>h, <2>1, <2>3
    <3>2. o \in Openers(d) /\ e[o] = d[o] /\ Height(e, o) = Height(d, o)
      BY <1>g, <3>1, OpenBefore
    <3>3. Height(d, o) <= Cardinality(P) /\ Height(d, o) \in Int
      <4>1. Len(d) \in o .. Len(d) /\ o \in Nat  BY <1>h, <3>1
      <4>2. Height(d, Len(d)) >= Height(d, o)  BY <3>2, <4>1 DEF Openers
      <4>3. Height(d, o) \in Int  BY <4>1, HeightType
      <4> QED BY <1>1, <1>h, <4>2, <4>3
    <3>4. CASE i = new
      <4>1. Height(d, o) = Cardinality(P) + 1  BY <1>8, <1>10, <3>2, <3>4
      <4> QED BY <1>1, <3>3, <4>1
    <3>5. CASE i \in P
      <4>1. Rank(nodes, i) = Height(d, o)  BY <1>6, <1>10, <3>2, <3>5
      <4>2. nodes[i].name = d[o].name  BY <3>2, <3>5, <4>1 DEF Reads
      <4> QED BY <1>5, <3>2, <3>5, <4>2
    <3> QED BY <3>4, <3>5
  <2> QED BY <2>2, <2>3
<1>11. Cardinality(RootNodes(more)) = Cardinality(RootsIn(e))
  <2>0. /\ Cardinality(RootNodes(nodes)) = Cardinality(RootsIn(d))
        /\ (at = Top <=> Height(d, Len(d)) = 0)
    BY AtTop DEF Reads
  <2>1. CASE at = Top
    <3>1. RootNodes(more) = RootNodes(nodes) \cup {new}
      BY <1>1, <1>2, <1>3, <2>1 DEF RootNodes, Children
    <3>2. new \notin RootNodes(nodes)  BY <1>1, <1>3
    <3>3. Cardinality(RootNodes(more)) = Cardinality(RootNodes(nodes)) + 1
      <4>1. Cardinality(RootNodes(nodes) \cup {new}) = Cardinality(RootNodes(nodes)) + 1
        BY <1>1, <3>2, FS_AddElement
      <4> QED BY <3>1, <4>1
    <3>4. tok.t \in {"start", "empty"} /\ Height(d, Len(d)) = 0  BY <2>0, <2>1
    <3>5. Cardinality(RootsIn(e)) = Cardinality(RootsIn(d)) + 1  BY <1>0, <1>g, <3>4, RootsGrow
    <3> QED BY <2>0, <3>3, <3>5
  <2>2. CASE at # Top
    <3>1. new \notin RootNodes(more)  BY <1>2, <2>2 DEF RootNodes, Children
    <3>2. RootNodes(more) = RootNodes(nodes)
      BY <1>1, <1>2, <1>3, <3>1 DEF RootNodes, Children
    <3>3. ~(tok.t \in {"start", "empty"} /\ Height(d, Len(d)) = 0)  BY <2>0, <2>2
    <3>4. Cardinality(RootsIn(e)) = Cardinality(RootsIn(d))  BY <1>0, <1>g, <3>3, RootsGrow
    <3> QED BY <2>0, <3>2, <3>4
  <2> QED BY <2>1, <2>2
<1>12. e \in Seq(Token) /\ more[Top].state = "ANCHOR"  BY <1>g, <1>1, <1>2 DEF Grows, Reads
<1>13. \A i \in P \cup {new} : more[i].state = "OPENED" /\ i <= new
  <2> TAKE i \in P \cup {new}
  <2>1. CASE i \in P  BY <1>3, <1>5, <1>p, <2>1 DEF Reads
  <2>2. CASE i = new  BY <1>2, <1>3, <2>2
  <2> QED BY <2>1, <2>2
<1>14. \A i, j \in P \cup {new} : j < i => j <= more[i].prev
  <2> TAKE i, j \in P \cup {new}
  <2> HAVE j < i
  <2>1. CASE i \in P
    <3>1. j # new
      <4>1. ~(new < i)  BY <1>3, <1>p, <2>1
      <4> QED BY <4>1
    <3> QED BY <1>5, <2>1, <3>1 DEF Reads
  <2>2. CASE i = new
    <3>1. j \in P
      <4>1. ~(new < new)  BY <1>3
      <4> QED BY <2>2, <4>1
    <3> QED BY <1>2, <2>2, <3>1 DEF Reads
  <2> QED BY <2>1, <2>2
<1>15. Cardinality(PendingIn(more)) = Height(e, Len(e))  BY <1>7, <1>h
<1>16. Reads(more, new, e)
  BY <1>4, <1>9, <1>10, <1>11, <1>12, <1>13, <1>14, <1>15 DEF Reads
<1> QED BY <1>16 DEF more, e, new

LEMMA EndReads ==
  ASSUME NEW nodes, NEW at, Tree(nodes, at), NEW d, Reads(nodes, at, d), at # Top,
         NEW tok \in Token, tok.t = "end", nodes[at].name = tok.name,
         NEW s \in {"EMPTY", "CLOSED"}
  PROVE  Reads([nodes EXCEPT ![at].state = s], nodes[at].prev, Append(d, tok))
<1> DEFINE marked == [nodes EXCEPT ![at].state = s]
           up == nodes[at].prev
           e == Append(d, tok)
           P == PendingIn(nodes)
<1>0. Typed(nodes, at) /\ d \in Seq(Token)  BY DEF Tree, Reads
<1>1. /\ nodes \in Seq(Node) /\ Len(nodes) \in Nat /\ DOMAIN nodes = 1 .. Len(nodes)
      /\ Top \in 1 .. Len(nodes)
      /\ P \subseteq 2 .. Len(nodes) /\ IsFiniteSet(P) /\ Cardinality(P) \in Nat
      /\ IsFiniteSet(RootNodes(nodes)) /\ Cardinality(RootNodes(nodes)) \in Nat
      /\ RootNodes(nodes) \subseteq 1 .. Len(nodes)
  BY <1>0, PendingCounts
<1>a. /\ at \in P /\ Height(d, Len(d)) >= 1 /\ Rank(nodes, at) = Height(d, Len(d))
  BY AtTop
<1>2. /\ DOMAIN marked = DOMAIN nodes
      /\ \A i \in DOMAIN nodes : marked[i].prev = nodes[i].prev /\ marked[i].id = nodes[i].id
                                 /\ marked[i].name = nodes[i].name
      /\ \A i \in DOMAIN nodes : i # at => marked[i] = nodes[i]
      /\ marked[at].state = s
  <2>1. at \in DOMAIN nodes  BY <1>0 DEF Typed
  <2>2. nodes[at] \in Node  BY <1>1, <2>1
  <2> QED BY <1>1, <2>1, <2>2 DEF Node
<1>g. Grows(d, tok, e)  BY <1>0, Grown
<1> HIDE DEF marked, e
<1>3. PendingIn(marked) = P \ {at}  BY <1>1, <1>2 DEF PendingIn
<1>p. \A i \in P : i \in 1 .. Len(nodes) /\ i \in DOMAIN nodes /\ i \in Nat  BY <1>1
<1>4. \A i \in P \ {at} : marked[i] = nodes[i] /\ i < at
  <2> TAKE i \in P \ {at}
  <2>1. i <= at  BY DEF Reads
  <2> QED BY <1>2, <1>a, <1>p, <2>1
<1>5. \A i \in P \ {at} : Rank(marked, i) = Rank(nodes, i)
  <2> TAKE i \in P \ {at}
  <2>1. {j \in P \ {at} : j <= i} = {j \in P : j <= i}  BY <1>4, <1>a, <1>p
  <2> QED BY <1>3, <2>1 DEF Rank
<1>6. Cardinality(PendingIn(marked)) = Cardinality(P) - 1
  <2>1. Cardinality(P \ {at}) = Cardinality(P) - 1  BY <1>1, <1>a, FS_RemoveElement
  <2> QED BY <1>3, <2>1
<1>h. /\ Height(d, Len(d)) = Cardinality(P) /\ Height(e, Len(e)) = Cardinality(P) - 1
      /\ Len(d) \in Nat /\ Len(e) = Len(d) + 1
  <2>1. Height(d, Len(d)) = Cardinality(P)  BY DEF Reads
  <2>2. Height(e, Len(e)) = Height(d, Len(d)) - 1  BY <1>g DEF Grows
  <2> QED BY <1>g, <2>1, <2>2 DEF Grows
<1>7. WellRead(e)
  <2>1. \A o \in Openers(d) : Height(d, o) = Height(d, Len(d)) => d[o].name = tok.name
    BY <1>a DEF Reads
  <2> QED BY <1>0, <1>a, <2>1, EndedWell DEF Reads, e
<1>8. \A i \in P \ {at}, o \in Openers(e) :
        Rank(marked, i) = Height(e, o) => marked[i].name = e[o].name
  <2> TAKE i \in P \ {at}, o \in Openers(e)
  <2>1. o \in 1 .. Len(e) /\ e[o].t = "start"  BY DEF Openers
  <2>2. o # Len(d) + 1  BY <1>g, <2>1 DEF Grows
  <2>3. o \in 1 .. Len(d)  BY <1>h, <2>1, <2>2
  <2>4. o \in Openers(d) /\ e[o] = d[o] /\ Height(e, o) = Height(d, o)  BY <1>g, <2>3, OpenBefore
  <2> QED BY <1>4, <1>5, <2>4 DEF Reads
<1>9. Cardinality(RootNodes(marked)) = Cardinality(RootsIn(e))
  <2>1. RootNodes(marked) = RootNodes(nodes)  BY <1>2 DEF RootNodes, Children
  <2>2. Cardinality(RootsIn(e)) = Cardinality(RootsIn(d))
    <3>1. ~(tok.t \in {"start", "empty"} /\ Height(d, Len(d)) = 0)  OBVIOUS
    <3> QED BY <1>0, <1>g, <3>1, RootsGrow
  <2> QED BY <2>1, <2>2 DEF Reads
<1>10. e \in Seq(Token) /\ marked[Top].state = "ANCHOR"
  <2>1. Top \in DOMAIN nodes  BY <1>1
  <2> QED BY <1>g, <1>2, <2>1 DEF Grows, Reads
<1>11. \A i \in P \ {at} : marked[i].state = "OPENED" /\ i <= up
  <2> TAKE i \in P \ {at}
  <2>1. i < at  BY <1>4
  <2> QED BY <1>4, <1>a, <2>1 DEF Reads
<1>12. \A i, j \in P \ {at} : j < i => j <= marked[i].prev  BY <1>4 DEF Reads
<1>13. Cardinality(PendingIn(marked)) = Height(e, Len(e))  BY <1>6, <1>h
<1>14. Reads(marked, up, e)
  BY <1>3, <1>7, <1>8, <1>9, <1>10, <1>11, <1>12, <1>13 DEF Reads
<1> QED BY <1>14 DEF marked, e
-----------------------------------------------------------------------------
(* What a turn of the loop makes of it: tok behind d is taken, or refused   *)
(* by its own parser, or an error where no document could go on like this.  *)
Misfit(nodes, at, e) ==
  /\ e \in Seq(Token) /\ ~WellRead(e)
  /\ nodes[at].state = "PARSE_ERROR" /\ nodes[Top].state \in {"ANCHOR", "PARSE_ERROR"}

Stopped(nodes, at, d, tok) == \/ tok.t = "bad" /\ Reads(nodes, at, d)
                              \/ tok.t # "bad" /\ Misfit(nodes, at, Append(d, tok))

Outcome(q, d, tok) == \/ q.ok = TRUE /\ Reads(q.nodes, q.at, Append(d, tok))
                      \/ q.ok = FALSE /\ Stopped(q.nodes, q.at, d, tok)

(* The turns that fail, that hang a leaf, and all of them.                  *)
LEMMA FailOutcome ==
  ASSUME NEW nodes, NEW at, Tree(nodes, at), NEW d, Reads(nodes, at, d),
         NEW tok \in Token, tok.t # "bad", ~WellRead(Append(d, tok))
  PROVE  Outcome(At([nodes EXCEPT ![at].state = "PARSE_ERROR"], at, FALSE), d, tok)
<1> DEFINE marked == [nodes EXCEPT ![at].state = "PARSE_ERROR"]
           q == At(marked, at, FALSE)
<1>1. /\ nodes \in Seq(Node) /\ at \in DOMAIN nodes /\ Top \in DOMAIN nodes /\ d \in Seq(Token)
      /\ nodes[Top].state = "ANCHOR"
  <2>1. Typed(nodes, at)  BY DEF Tree
  <2>2. Top \in DOMAIN nodes  BY <2>1, PendingCounts
  <2> QED BY <2>1, <2>2 DEF Typed, Reads
<1>2. marked[at].state = "PARSE_ERROR" /\ marked[Top].state \in {"ANCHOR", "PARSE_ERROR"}
  <2>1. nodes[at] \in Node  BY <1>1
  <2>2. marked[at].state = "PARSE_ERROR"  BY <1>1, <2>1 DEF Node
  <2>3. Top # at => marked[Top] = nodes[Top]  BY <1>1
  <2> QED BY <1>1, <2>2, <2>3
<1>3. q.nodes = marked /\ q.at = at /\ q.ok = FALSE  BY DEF At
<1>4. Append(d, tok) \in Seq(Token)  BY <1>1
<1> HIDE DEF marked, q
<1>5. Misfit(marked, at, Append(d, tok))  BY <1>2, <1>4 DEF Misfit
<1>6. Outcome(q, d, tok)  BY <1>3, <1>5 DEF Outcome, Stopped
<1> QED BY <1>6 DEF q, marked

LEMMA LeafOutcome ==
  ASSUME NEW nodes, NEW at, Tree(nodes, at), NEW d, Reads(nodes, at, d),
         NEW id \in {"name", "aside", "content"}, NEW name \in Name \cup {NoName},
         NEW s \in {"CLOSED", "EMPTY"},
         NEW tok \in Token, tok.t \in {"empty", "aside", "text"},
         id = "name" <=> tok.t = "empty", tok.t = "text" => at # Top
  PROVE  Outcome(Leaf(At(nodes, at, TRUE), NewNode(id, name, at, s)), d, tok)
<1> DEFINE node == NewNode(id, name, at, s)
           q == Leaf(At(nodes, at, TRUE), node)
<1>0. at \in Nat  BY DEF Tree, Typed
<1>1. node \in Node /\ node.prev = at /\ node.state = s /\ node.id = id
  BY <1>0 DEF NewNode, Node
<1>2. q.nodes = Append(nodes, node) /\ q.at = at /\ q.ok = TRUE  BY DEF Leaf, At
<1> HIDE DEF node, q
<1>3. Reads(Append(nodes, node), at, Append(d, tok))
  <2>1. node.id = "name" <=> tok.t = "empty"  BY <1>1
  <2>2. node.state \in {"CLOSED", "EMPTY"}  BY <1>1
  <2> QED BY <1>1, <2>1, <2>2, LeafReads
<1>4. Outcome(q, d, tok)  BY <1>2, <1>3 DEF Outcome
<1> QED BY <1>4 DEF q, node

LEMMA StepReads ==
  ASSUME NEW nodes, NEW at, Tree(nodes, at), NEW d, Reads(nodes, at, d),
         NEW tok \in Token, tok.t # "blank"
  PROVE  Outcome(Step(At(nodes, at, TRUE), tok), d, tok)
<1> DEFINE p == At(nodes, at, TRUE)
           e == Append(d, tok)
<1> SUFFICES Outcome(Step(p, tok), d, tok)
  OBVIOUS
<1>1. p.nodes = nodes /\ p.at = at  BY DEF At
<1>2. tok.name \in Name \cup {NoName}  BY DEF Token
<1>0. Typed(nodes, at) /\ at \in DOMAIN nodes /\ at \in Nat /\ d \in Seq(Token) /\ WellRead(d)
  BY DEF Tree, Typed, Reads
<1>d. Height(d, Len(d)) >= 0
  <2>1. Height(d, Len(d)) = Cardinality(PendingIn(nodes))  BY DEF Reads
  <2>2. Cardinality(PendingIn(nodes)) \in Nat  BY <1>0, PendingCounts
  <2> QED BY <2>1, <2>2
<1>3. IsOpen(p) <=> at # Top
  <2>1. CASE at = Top
    <3>1. nodes[at].state = "ANCHOR"  BY <2>1 DEF Reads
    <3> QED BY <1>1, <2>1, <3>1 DEF IsOpen
  <2>2. CASE at # Top
    <3>1. at \in PendingIn(nodes)  BY <2>2, AtTop
    <3>2. nodes[at].state = "OPENED"  BY <3>1 DEF Reads
    <3> QED BY <1>1, <2>2, <3>2 DEF IsOpen
  <2> QED BY <2>1, <2>2
<1>4. ASSUME tok.t # "bad", ~WellRead(e) PROVE Outcome(Fail(p), d, tok)
  <2>1. Outcome(At([nodes EXCEPT ![at].state = "PARSE_ERROR"], at, FALSE), d, tok)
    BY <1>4, FailOutcome
  <2>2. Fail(p) = At([nodes EXCEPT ![at].state = "PARSE_ERROR"], at, FALSE)
    BY <1>1 DEF Fail
  <2> HIDE DEF p
  <2> QED BY <2>1, <2>2
<1>5. CASE tok.t = "start"
  <2> DEFINE node == NewNode("name", tok.name, at, "OPENED")
  <2>1. /\ node \in Node /\ node.prev = at /\ node.state = "OPENED" /\ node.id = "name"
        /\ node.name = tok.name
    BY <1>0, <1>2 DEF NewNode, Node
  <2>2. Step(p, tok) = Enter(p, NewNode("name", tok.name, p.at, "OPENED"))  BY <1>5 DEF Step
  <2>3. Step(p, tok) = Enter(p, node)  BY <1>1, <2>2
  <2> HIDE DEF node, p
  <2>4. Step(p, tok) = At(Append(nodes, node), Len(nodes) + 1, TRUE)  BY <1>1, <2>3 DEF Enter
  <2>5. /\ Step(p, tok).nodes = Append(nodes, node) /\ Step(p, tok).at = Len(nodes) + 1
        /\ Step(p, tok).ok = TRUE
    BY <2>4 DEF At
  <2>6. Reads(Append(nodes, node), Len(nodes) + 1, Append(d, tok))  BY <1>5, <2>1, EnterReads
  <2>7. Outcome(Step(p, tok), d, tok)  BY <2>5, <2>6 DEF Outcome
  <2> QED BY <2>7 DEF p
<1>6. CASE tok.t = "empty"
  <2>1. Step(p, tok) = Leaf(p, NewNode("name", tok.name, p.at, "EMPTY"))  BY <1>6 DEF Step
  <2>2. Outcome(Leaf(p, NewNode("name", tok.name, at, "EMPTY")), d, tok)
    BY <1>2, <1>6, LeafOutcome
  <2> QED BY <1>1, <2>1, <2>2
<1>7. CASE tok.t = "aside"
  <2>1. Step(p, tok) = Leaf(p, NewNode("aside", NoName, p.at, "EMPTY"))  BY <1>7 DEF Step
  <2>2. Outcome(Leaf(p, NewNode("aside", NoName, at, "EMPTY")), d, tok)  BY <1>7, LeafOutcome
  <2> QED BY <1>1, <2>1, <2>2
<1>8. CASE tok.t = "text"
  <2>1. Step(p, tok) = Text(p)  BY <1>8 DEF Step
  <2>2. CASE at # Top
    <3>1. Text(p) = Leaf(p, NewNode("content", NoName, p.at, "CLOSED"))  BY <1>3, <2>2 DEF Text
    <3>2. Outcome(Leaf(p, NewNode("content", NoName, at, "CLOSED")), d, tok)
      BY <1>8, <2>2, LeafOutcome
    <3> QED BY <1>1, <2>1, <3>1, <3>2
  <2>3. CASE at = Top
    <3>1. Text(p) = Fail(p)  BY <1>3, <2>3 DEF Text
    <3>2. Height(d, Len(d)) = 0  BY <2>3, AtTop
    <3>3. ~WellRead(e)
      <4>1. WellRead(e) => Height(d, Len(d)) >= 1  BY <1>0, <1>8, <1>d, Misread
      <4> QED BY <3>2, <4>1
    <3> QED BY <1>4, <1>8, <2>1, <3>1, <3>3
  <2> QED BY <2>2, <2>3
<1>9. CASE tok.t = "end"
  <2>1. Step(p, tok) = EndTag(p, tok.name)  BY <1>9 DEF Step
  <2>2. CASE at # Top /\ nodes[at].name = tok.name
    <3> DEFINE s == IF Children(p.nodes, p.at) = {} THEN "EMPTY" ELSE "CLOSED"
               q == Step(p, tok)
    <3>1. s \in {"EMPTY", "CLOSED"}  OBVIOUS
    <3>2. EndTag(p, tok.name) = At([nodes EXCEPT ![at].state = s], nodes[at].prev, TRUE)
      BY <1>1, <1>3, <2>2 DEF EndTag
    <3> HIDE DEF s
    <3>3. Reads([nodes EXCEPT ![at].state = s], nodes[at].prev, Append(d, tok))
      BY <1>9, <2>2, <3>1, EndReads
    <3>4. /\ q.nodes = [nodes EXCEPT ![at].state = s] /\ q.at = nodes[at].prev /\ q.ok = TRUE
      <4>1. q = At([nodes EXCEPT ![at].state = s], nodes[at].prev, TRUE)  BY <2>1, <3>2
      <4> HIDE DEF q
      <4> QED BY <4>1 DEF At
    <3> HIDE DEF q
    <3>5. Outcome(q, d, tok)  BY <3>3, <3>4 DEF Outcome
    <3> QED BY <3>5 DEF q
  <2>3. CASE ~(at # Top /\ nodes[at].name = tok.name)
    <3>1. EndTag(p, tok.name) = Fail(p)  BY <1>1, <1>3, <2>3 DEF EndTag
    <3>2. ~WellRead(e)
      <4> SUFFICES ASSUME WellRead(e) PROVE FALSE
        OBVIOUS
      <4>1. PICK o \in Openers(d) : Height(d, o) = Height(d, Len(d)) /\ d[o].name = tok.name
        BY <1>0, <1>9, <1>d, Misread
      <4>2. Height(d, Len(d)) >= 1  BY <1>0, <1>9, <1>d, Misread
      <4>3. at # Top  BY <4>2, AtTop
      <4>4. at \in PendingIn(nodes) /\ Rank(nodes, at) = Height(d, o)  BY <4>1, <4>3, AtTop
      <4>5. nodes[at].name = d[o].name  BY <4>4 DEF Reads
      <4> QED BY <2>3, <4>1, <4>3, <4>5
    <3> QED BY <1>4, <1>9, <2>1, <3>1, <3>2
  <2> QED BY <2>2, <2>3
<1>10. CASE tok.t = "bad"
  <2>1. Step(p, tok) = Refuse(p)  BY <1>10 DEF Step
  <2>2. Step(p, tok).nodes = nodes /\ Step(p, tok).at = at /\ Step(p, tok).ok = FALSE
    BY <1>1, <2>1 DEF Refuse, At
  <2> DEFINE q == Step(p, tok)
  <2>3. q.nodes = nodes /\ q.at = at /\ q.ok = FALSE  BY <2>2
  <2> HIDE DEF q
  <2>4. Outcome(q, d, tok)  BY <1>10, <2>3 DEF Outcome, Stopped
  <2> QED BY <2>4 DEF q
<1>11. tok.t \in {"start", "empty", "aside", "text", "end", "bad"}  BY DEF Token
<1> HIDE DEF p, e
<1> QED BY <1>5, <1>6, <1>7, <1>8, <1>9, <1>10, <1>11
-----------------------------------------------------------------------------
(* What end tags would complete, and the document they make of it.          *)
Unclosed(d) == WellRead(d) /\ Height(d, Len(d)) > 0 /\ \E r \in 1 .. Len(d) : RootsIn(d) = {r}

Ends(n, names) == [k \in 1 .. n |-> [t |-> "end", name |-> names[k]]]

Completed(d, n, names, e) ==
  /\ e \in Seq(Token) /\ Len(d) \in Nat /\ Len(e) = Len(d) + n
  /\ \A i \in 1 .. Len(d) : e[i] = d[i]
  /\ \A k \in 1 .. n : e[Len(d) + k].t = "end" /\ e[Len(d) + k].name = names[k]
  /\ \A k \in 0 .. Len(d) : Height(e, k) = Height(d, k)
  /\ \A k \in 0 .. n : Height(e, Len(d) + k) = n - k
  /\ RootsIn(e) = RootsIn(d)

(* End tags behind a document in which n elements are open.                 *)
LEMMA EndsComplete ==
  ASSUME NEW d \in Seq(Token), NEW n \in Nat, Height(d, Len(d)) = n,
         NEW names \in [1 .. n -> Name]
  PROVE  Completed(d, n, names, d \o Ends(n, names))
<1> DEFINE e == d \o Ends(n, names)
<1>0. Len(d) \in Nat  OBVIOUS
<1>1. /\ Ends(n, names) \in Seq(Token) /\ Len(Ends(n, names)) = n
      /\ \A k \in 1 .. n : Ends(n, names)[k] = [t |-> "end", name |-> names[k]]
  <2>1. \A k \in 1 .. n : [t |-> "end", name |-> names[k]] \in Token  BY DEF Token
  <2> QED BY <2>1 DEF Ends
<1>2. /\ e \in Seq(Token) /\ Len(e) = Len(d) + n
      /\ \A i \in 1 .. Len(d) : e[i] = d[i]
      /\ \A k \in 1 .. n : e[Len(d) + k] = Ends(n, names)[k]
  BY <1>0, <1>1
<1>3. \A k \in 1 .. n : e[Len(d) + k].t = "end" /\ e[Len(d) + k].name = names[k]
  <2> TAKE k \in 1 .. n
  <2>1. e[Len(d) + k] = [t |-> "end", name |-> names[k]]  BY <1>1, <1>2
  <2> QED BY <2>1
<1> HIDE DEF e
<1>4. \A k \in 0 .. Len(d) : Height(e, k) = Height(d, k)  BY <1>0, <1>2, SameHeights
<1>5. \A k \in 0 .. n : Height(e, Len(d) + k) = n - k
  <2> DEFINE S == {k \in 0 .. n : Height(e, Len(d) + k) # n - k}
  <2> SUFFICES ASSUME S # {} PROVE FALSE
    OBVIOUS
  <2>1. S \in SUBSET Nat  OBVIOUS
  <2>2. PICK k \in S : \A y \in S : k <= y
    <3> HIDE DEF S
    <3> QED BY <2>1, Least
  <2>3. k \in 0 .. n /\ Height(e, Len(d) + k) # n - k  OBVIOUS
  <2>4. k # 0
    <3>1. CASE k = 0
      <4>1. Len(d) + k = Len(d) /\ n - k = n /\ Len(d) \in 0 .. Len(d)  BY <1>0, <3>1
      <4> QED BY <1>4, <2>3, <4>1
    <3> QED BY <3>1
  <2>5. k - 1 \notin S
    <3> HIDE DEF S
    <3>1. k - 1 \in S => k <= k - 1  BY <2>2
    <3> QED BY <2>3, <3>1
  <2>6. /\ k \in 1 .. n /\ k - 1 \in 0 .. n /\ Len(d) + k \in Nat /\ Len(d) + k >= 1
        /\ (Len(d) + k) - 1 = Len(d) + (k - 1) /\ n - (k - 1) = (n - k) + 1 /\ n - k \in Int
    BY <1>0, <2>3, <2>4
  <2>7. Height(e, Len(d) + (k - 1)) = (n - k) + 1  BY <2>5, <2>6
  <2> HIDE DEF S
  <2>8. Height(e, Len(d) + k) = Height(e, (Len(d) + k) - 1) - 1  BY <1>3, <2>6, HeightStep
  <2>9. Height(e, Len(d) + k) = n - k  BY <2>6, <2>7, <2>8
  <2> QED BY <2>3, <2>9
<1>6. RootsIn(e) = RootsIn(d)
  <2>1. \A k \in 1 .. Len(e) : \/ k \in 1 .. Len(d)
                               \/ k - Len(d) \in 1 .. n /\ k = Len(d) + (k - Len(d))
    BY <1>0, <1>2
  <2>2. \A k \in 1 .. Len(e) : k \notin 1 .. Len(d) => e[k].t = "end"
    <3> TAKE k \in 1 .. Len(e)
    <3> HAVE k \notin 1 .. Len(d)
    <3>1. k - Len(d) \in 1 .. n /\ k = Len(d) + (k - Len(d))  BY <2>1
    <3> QED BY <1>3, <3>1
  <2>3. \A k \in 1 .. Len(d) : k \in 1 .. Len(e) /\ k - 1 \in 0 .. Len(d)  BY <1>0, <1>2
  <2>4. \A k \in 1 .. Len(d) : e[k] = d[k] /\ Height(e, k - 1) = Height(d, k - 1)
    BY <1>2, <1>4, <2>3
  <2>5. \A k \in RootsIn(e) : k \in RootsIn(d)
    <3> TAKE k \in RootsIn(e)
    <3>1. k \in 1 .. Len(e) /\ e[k].t \in {"start", "empty"} /\ Height(e, k - 1) = 0
      BY DEF RootsIn
    <3>2. k \in 1 .. Len(d)  BY <2>2, <3>1
    <3> QED BY <2>4, <3>1, <3>2 DEF RootsIn
  <2>6. \A k \in RootsIn(d) : k \in RootsIn(e)
    <3> TAKE k \in RootsIn(d)
    <3>1. k \in 1 .. Len(d) /\ d[k].t \in {"start", "empty"} /\ Height(d, k - 1) = 0
      BY DEF RootsIn
    <3> QED BY <2>3, <2>4, <3>1 DEF RootsIn
  <2> QED BY <2>5, <2>6
<1>7. Completed(d, n, names, e)  BY <1>0, <1>2, <1>3, <1>4, <1>5, <1>6 DEF Completed
<1> QED BY <1>7 DEF e

(* At every height one element is open.                                     *)
LEMMA OneOpener ==
  ASSUME NEW d \in Seq(Token), NEW o \in Openers(d), NEW p \in Openers(d),
         Height(d, o) = Height(d, p)
  PROVE  ~(o < p)
<1> SUFFICES ASSUME o < p PROVE FALSE
  OBVIOUS
<1>1. /\ o \in 1 .. Len(d) /\ p \in 1 .. Len(d) /\ d[p].t = "start"
      /\ \A k \in o .. Len(d) : Height(d, k) >= Height(d, o)
  BY DEF Openers
<1>2. Len(d) \in Nat /\ p \in Nat /\ p >= 1 /\ p - 1 \in o .. Len(d) /\ o \in Nat  BY <1>1
<1>3. Height(d, p) = Height(d, p - 1) + 1 /\ Height(d, p - 1) \in Int  BY <1>1, <1>2, HeightStep
<1>4. Height(d, p - 1) >= Height(d, o)  BY <1>1, <1>2
<1> QED BY <1>3, <1>4

(* The names that complete a document are those of the open elements, the   *)
(* last first.                                                              *)
LEMMA CompletedWell ==
  ASSUME NEW d \in Seq(Token), NEW n \in Nat, n >= 1, Height(d, Len(d)) = n, WellRead(d),
         NEW names,
         \A k \in 1 .. n, o \in Openers(d) : Height(d, o) = (n - k) + 1 => d[o].name = names[k],
         NEW e, Completed(d, n, names, e)
  PROVE  WellRead(e) /\ Height(e, Len(e)) = 0
<1>1. /\ e \in Seq(Token) /\ Len(d) \in Nat /\ Len(e) = Len(d) + n
      /\ \A i \in 1 .. Len(d) : e[i] = d[i]
      /\ \A k \in 1 .. n : e[Len(d) + k].t = "end" /\ e[Len(d) + k].name = names[k]
      /\ \A k \in 0 .. Len(d) : Height(e, k) = Height(d, k)
      /\ \A k \in 0 .. n : Height(e, Len(d) + k) = n - k
  BY DEF Completed
<1>2. \A q \in 1 .. Len(e) : \/ q \in 1 .. Len(d) /\ q \in 0 .. Len(d)
                             \/ \E k \in 1 .. n : q = Len(d) + k /\ k \in 0 .. n
  <2> TAKE q \in 1 .. Len(e)
  <2>1. q \notin 1 .. Len(d)
          => q - Len(d) \in 1 .. n /\ q = Len(d) + (q - Len(d)) /\ q - Len(d) \in 0 .. n
    BY <1>1
  <2>2. q \in 1 .. Len(d) => q \in 0 .. Len(d)  BY <1>1
  <2> QED BY <2>1, <2>2
<1>3. Height(e, Len(e)) = 0
  <2>1. n \in 0 .. n /\ n - n = 0  OBVIOUS
  <2> QED BY <1>1, <2>1
<1>4. \A q \in 1 .. Len(e) : /\ e[q].t \in Inner /\ Height(e, q) >= 0
                             /\ e[q].t = "text" => Height(e, q) >= 1
  <2> TAKE q \in 1 .. Len(e)
  <2>1. CASE q \in 1 .. Len(d) /\ q \in 0 .. Len(d)
    <3>1. e[q] = d[q] /\ Height(e, q) = Height(d, q)  BY <1>1, <2>1
    <3> QED BY <2>1, <3>1 DEF WellRead
  <2>2. ASSUME NEW k \in 1 .. n, q = Len(d) + k, k \in 0 .. n
        PROVE  /\ e[q].t \in Inner /\ Height(e, q) >= 0
               /\ e[q].t = "text" => Height(e, q) >= 1
    <3>1. e[q].t = "end"  BY <1>1, <2>2
    <3>2. Height(e, q) = n - k  BY <1>1, <2>2
    <3>3. Height(e, q) >= 0  BY <3>2
    <3> QED BY <3>1, <3>3 DEF Inner
  <2> QED BY <1>2, <2>1, <2>2
<1>5. \A m, q \in 1 .. Len(e) : Meets(e, m, q) => e[q].name = e[m].name
  <2> TAKE m, q \in 1 .. Len(e)
  <2> HAVE Meets(e, m, q)
  <2>0. /\ m < q /\ e[q].t = "end" /\ e[m].t = "start" /\ Height(e, m - 1) = Height(e, q)
        /\ \A k \in m .. q - 1 : Height(e, k) > Height(e, q)
    BY DEF Meets
  <2>1. m \in 1 .. Len(d)
    <3>1. \A k \in 1 .. n : m # Len(d) + k
      <4> TAKE k \in 1 .. n
      <4>1. e[Len(d) + k].t = "end"  BY <1>1
      <4> QED BY <2>0, <4>1
    <3> QED BY <1>2, <3>1
  <2>2. m - 1 \in 0 .. Len(d) /\ m \in Nat /\ m >= 1 /\ e[m] = d[m]  BY <1>1, <2>1
  <2>3. CASE q \in 1 .. Len(d)
    <3>1. Meets(d, m, q)  BY <1>1, <2>1, <2>3, SameMeets
    <3>2. d[q].name = d[m].name  BY <2>1, <2>3, <3>1 DEF WellRead
    <3>3. e[q] = d[q]  BY <1>1, <2>3
    <3> QED BY <2>2, <3>2, <3>3
  <2>4. ASSUME NEW k \in 1 .. n, q = Len(d) + k, k \in 0 .. n
        PROVE  e[q].name = e[m].name
    <3>1. Height(e, q) = n - k  BY <1>1, <2>4
    <3>2. d[m].t = "start" /\ Height(d, m - 1) = n - k  BY <1>1, <2>0, <2>2, <3>1
    <3>3. Height(d, m) = (n - k) + 1  BY <2>2, <3>2, HeightStep
    <3>4. \A j \in m .. Len(d) : Height(d, j) >= Height(d, m)
      <4> TAKE j \in m .. Len(d)
      <4>1. j \in m .. q - 1 /\ j \in 0 .. Len(d) /\ j \in Nat  BY <1>1, <2>2, <2>4
      <4>2. Height(e, j) > Height(e, q) /\ Height(e, j) = Height(d, j)  BY <1>1, <2>0, <4>1
      <4>3. Height(d, j) > n - k /\ Height(d, j) \in Int
        <5>1. Height(d, j) \in Int  BY <4>1, HeightType
        <5> QED BY <3>1, <4>2, <5>1
      <4> QED BY <3>3, <4>3
    <3>5. m \in Openers(d)  BY <2>1, <3>2, <3>4 DEF Openers
    <3>6. d[m].name = names[k]  BY <3>3, <3>5
    <3> QED BY <1>1, <2>2, <2>4, <3>6
  <2> QED BY <1>2, <2>3, <2>4
<1> QED BY <1>3, <1>4, <1>5 DEF WellRead

(* So what end tags can complete is what is read well and has one root.     *)
LEMMA Completion ==
  ASSUME NEW d \in Seq(Token)
  PROVE  LET n == Height(d, Len(d))
         IN  n > 0 /\ (\E names \in [1 .. n -> Name] : IsDocument(d \o Ends(n, names)))
               <=> Unclosed(d)
<1> DEFINE n == Height(d, Len(d))
<1>0. Len(d) \in Nat /\ n \in Int  BY HeightType
<1>1. ASSUME n > 0, NEW names \in [1 .. n -> Name], IsDocument(d \o Ends(n, names))
      PROVE  Unclosed(d)
  <2> DEFINE e == d \o Ends(n, names)
  <2>0. n \in Nat  BY <1>0, <1>1
  <2>1. Completed(d, n, names, e)  BY <2>0, EndsComplete
  <2>2. /\ e \in Seq(Token) /\ Len(e) = Len(d) + n /\ RootsIn(e) = RootsIn(d)
        /\ \A i \in 1 .. Len(d) : e[i] = d[i]
    <3> HIDE DEF e, n
    <3> QED BY <2>1 DEF Completed
  <2>3. Whole(e)  BY <1>1, <2>2, DocumentIsWhole
  <2> HIDE DEF e
  <2>4. WellRead(e) /\ \E r \in 1 .. Len(e) : RootsIn(e) = {r}  BY <2>3 DEF Whole
  <2>5. Len(d) <= Len(e)  BY <1>0, <2>0, <2>2
  <2>6. WellRead(d)  BY <2>2, <2>4, <2>5, ReadBefore
  <2>7. \E r \in 1 .. Len(d) : RootsIn(d) = {r}
    <3>1. PICK r \in 1 .. Len(e) : RootsIn(d) = {r}  BY <2>2, <2>4
    <3>2. r \in RootsIn(d)  BY <3>1
    <3>3. r \in 1 .. Len(d)  BY <3>2 DEF RootsIn
    <3> QED BY <3>1, <3>3
  <2> QED BY <1>1, <2>6, <2>7 DEF Unclosed
<1>2. ASSUME Unclosed(d)
      PROVE  n > 0 /\ \E names \in [1 .. n -> Name] : IsDocument(d \o Ends(n, names))
  <2>1. WellRead(d) /\ n > 0 /\ \E r \in 1 .. Len(d) : RootsIn(d) = {r}  BY <1>2 DEF Unclosed
  <2>2. n \in Nat /\ n >= 1  BY <1>0, <2>1
  <2> DEFINE opener(k) == CHOOSE o \in Openers(d) : Height(d, o) = (n - k) + 1
             names == [k \in 1 .. n |-> d[opener(k)].name]
             e == d \o Ends(n, names)
  <2>3. \A k \in 1 .. n : opener(k) \in Openers(d) /\ Height(d, opener(k)) = (n - k) + 1
    <3> TAKE k \in 1 .. n
    <3>1. (n - k) + 1 \in Nat /\ (n - k) + 1 >= 1 /\ n >= (n - k) + 1  BY <2>2
    <3>2. \E o \in Openers(d) : Height(d, o) = (n - k) + 1  BY <3>1, OpenerAt
    <3> QED BY <3>2
  <2> HIDE DEF opener
  <2>4. names \in [1 .. n -> Name]
    <3>1. \A k \in 1 .. n : d[opener(k)].name \in Name
      <4> TAKE k \in 1 .. n
      <4>1. opener(k) \in 1 .. Len(d) /\ d[opener(k)].t = "start"  BY <2>3 DEF Openers
      <4>2. d[opener(k)] \in Token  BY <4>1
      <4> QED BY <4>1, <4>2 DEF Token
    <3> QED BY <3>1
  <2>5. \A k \in 1 .. n, o \in Openers(d) : Height(d, o) = (n - k) + 1 => d[o].name = names[k]
    <3> TAKE k \in 1 .. n, o \in Openers(d)
    <3> HAVE Height(d, o) = (n - k) + 1
    <3>1. opener(k) \in Openers(d) /\ Height(d, o) = Height(d, opener(k))  BY <2>3
    <3>2. ~(o < opener(k)) /\ ~(opener(k) < o)  BY <3>1, OneOpener
    <3>3. o \in Int /\ opener(k) \in Int  BY <3>1 DEF Openers
    <3>4. o = opener(k)  BY <3>2, <3>3
    <3> QED BY <3>4
  <2> HIDE DEF names
  <2>6. Completed(d, n, names, e)  BY <2>2, <2>4, EndsComplete
  <2> HIDE DEF e
  <2>7. WellRead(e) /\ Height(e, Len(e)) = 0
    <3>1. Height(d, Len(d)) = n  OBVIOUS
    <3> HIDE DEF n
    <3> QED BY <2>1, <2>2, <2>5, <2>6, <3>1, CompletedWell
  <2>8. e \in Seq(Token) /\ Len(e) = Len(d) + n /\ RootsIn(e) = RootsIn(d)
    <3> HIDE DEF n
    <3> QED BY <2>6 DEF Completed
  <2>9. \E r \in 1 .. Len(e) : RootsIn(e) = {r}
    <3>1. PICK r \in 1 .. Len(d) : RootsIn(d) = {r}  BY <2>1
    <3>2. r \in 1 .. Len(e)  BY <1>0, <2>2, <2>8
    <3> QED BY <2>8, <3>1, <3>2
  <2>10. IsDocument(e)  BY <2>7, <2>8, <2>9, WholeIsDocument DEF Whole
  <2> QED BY <2>1, <2>4, <2>10 DEF e
<1> QED BY <1>1, <1>2
-----------------------------------------------------------------------------
Judged(state, d) == /\ state = "PARSED" <=> Whole(d)
                    /\ state = "NOT_CLOSED" <=> Unclosed(d)

ReadInv ==
  /\ entry = "none" => tree = <<Anchor>> /\ xml = Top /\ doc = <<>>
  /\ entry = "parse" =>
       /\ pc \in {"skip", "loop", "stopped", "over"} /\ doc \in Seq(Token)
       /\ pc \in {"skip", "loop"} => Reads(tree, xml, doc)
       /\ pc = "stopped" => \E d \in Seq(Token), tok \in Token :
                              doc = Append(d, tok) /\ Stopped(tree, xml, d, tok)
       /\ pc = "over" => Judged(tree[Top].state, Taken)

(* Before the first token the anchor alone is what was read.                *)
LEMMA StartReads == Reads(<<Anchor>>, Top, <<>>)
<1> DEFINE nodes == <<Anchor>>
           d == <<>>
<1>1. DOMAIN nodes = {1} /\ nodes[1] = Anchor  OBVIOUS
<1>2. d \in Seq(Token) /\ Len(d) = 0  OBVIOUS
<1>3. \A k \in 1 .. Len(d) : FALSE  BY <1>2
<1>4. Height(d, Len(d)) = 0  BY <1>2, HeightZero
<1> HIDE DEF nodes, d
<1>5. nodes[Top].state = "ANCHOR" /\ nodes[Top].prev = 0 /\ nodes[Top].id = "anchor"
  BY <1>1 DEF Top, Anchor, NewNode
<1>6. PendingIn(nodes) = {}  BY <1>1 DEF PendingIn, Top
<1>7. RootNodes(nodes) = {}
  <2>1. Children(nodes, Top) = {}  BY <1>1, <1>5 DEF Children, Top
  <2> QED BY <2>1 DEF RootNodes
<1>8. RootsIn(d) = {}  BY <1>3 DEF RootsIn
<1>9. WellRead(d)  BY <1>3 DEF WellRead
<1>10. /\ Cardinality(PendingIn(nodes)) = Height(d, Len(d))
       /\ Cardinality(RootNodes(nodes)) = Cardinality(RootsIn(d))
  BY <1>4, <1>6, <1>7, <1>8, FS_EmptySet
<1>11. Reads(nodes, Top, d)  BY <1>2, <1>5, <1>6, <1>9, <1>10 DEF Reads
<1> QED BY <1>11 DEF nodes, d

(* What is not there is not taken.                                          *)
LEMMA TakenAll ==
  ASSUME doc \in Seq(Token), doc = <<>> \/ doc[Len(doc)].t # "bad"
  PROVE  Taken = doc
BY DEF Taken, Refused, Last

LEMMA TakenBefore ==
  ASSUME NEW d \in Seq(Token), NEW tok \in Token, doc = Append(d, tok), tok.t = "bad"
  PROVE  Taken = d
<1>1. /\ doc # <<>> /\ Len(doc) = Len(d) + 1 /\ doc[Len(doc)] = tok /\ Len(d) \in Nat
      /\ doc \in Seq(Token)
  OBVIOUS
<1>2. Taken = Front(doc)  BY <1>1 DEF Taken, Refused, Last
<1>3. Front(doc) = d  BY <1>1 DEF Front
<1> QED BY <1>2, <1>3

(* The state that xml_parse leaves in the anchor.                           *)
LEMMA ReturnJudges ==
  ASSUME NEW nodes, NEW at, Tree(nodes, at), NEW d, Reads(nodes, at, d)
  PROVE  Judged(Rooted(nodes, IF at = Top THEN "PARSED" ELSE "NOT_CLOSED"), d)
<1> DEFINE one == \E r \in 1 .. Len(d) : RootsIn(d) = {r}
           state == Rooted(nodes, IF at = Top THEN "PARSED" ELSE "NOT_CLOSED")
<1>0. d \in Seq(Token) /\ WellRead(d) /\ Len(d) \in Nat  BY DEF Reads
<1>1. Roots(nodes) = Cardinality(RootsIn(d))
  <2>1. Roots(nodes) = Cardinality(RootNodes(nodes))  BY DEF Roots, RootNodes
  <2> QED BY <2>1 DEF Reads
<1>2. IsFiniteSet(RootsIn(d))
  <2>1. IsFiniteSet(1 .. Len(d))  BY <1>0, FS_Interval
  <2>2. RootsIn(d) \subseteq 1 .. Len(d)  BY DEF RootsIn
  <2> QED BY <2>1, <2>2, FS_Subset
<1>3. Roots(nodes) = 1 <=> one
  <2>1. ASSUME Roots(nodes) = 1 PROVE one
    <3>1. Cardinality(RootsIn(d)) = 1  BY <1>1, <2>1
    <3>2. PICK r : RootsIn(d) = {r}  BY <1>2, <3>1, FS_Singleton
    <3>3. r \in RootsIn(d)  BY <3>2
    <3>4. r \in 1 .. Len(d)  BY <3>3 DEF RootsIn
    <3> QED BY <3>2, <3>4
  <2>2. ASSUME one PROVE Roots(nodes) = 1
    <3>1. PICK r \in 1 .. Len(d) : RootsIn(d) = {r}  BY <2>2
    <3>2. Cardinality(RootsIn(d)) = 1  BY <3>1, FS_Singleton
    <3> QED BY <1>1, <3>2
  <2> QED BY <2>1, <2>2
<1>4. Roots(nodes) = 1 => Children(nodes, Top) # {}
  <2>1. ASSUME Children(nodes, Top) = {} PROVE Roots(nodes) = 0
    <3>1. {i \in Children(nodes, Top) : nodes[i].id = "name"} = {}  BY <2>1
    <3> QED BY <3>1, FS_EmptySet DEF Roots
  <2>2. Roots(nodes) = 0 => Roots(nodes) # 1  OBVIOUS
  <2> QED BY <2>1, <2>2
<1>5. /\ state = "PARSED" <=> Roots(nodes) = 1 /\ at = Top
      /\ state = "NOT_CLOSED" <=> Roots(nodes) = 1 /\ at # Top
  BY <1>4 DEF Rooted
<1>6. /\ at = Top <=> Height(d, Len(d)) = 0
      /\ at # Top <=> Height(d, Len(d)) > 0
  <2>1. Height(d, Len(d)) \in Int  BY <1>0, HeightType
  <2>2. at = Top => Height(d, Len(d)) = 0  BY AtTop
  <2>3. at # Top => Height(d, Len(d)) >= 1  BY AtTop
  <2> QED BY <2>1, <2>2, <2>3
<1>7. /\ Whole(d) <=> Height(d, Len(d)) = 0 /\ one
      /\ Unclosed(d) <=> Height(d, Len(d)) > 0 /\ one
  BY <1>0 DEF Whole, Unclosed
<1> HIDE DEF one, state
<1>8. Judged(state, d)  BY <1>3, <1>5, <1>6, <1>7 DEF Judged
<1> QED BY <1>8 DEF state

(* The invariant of what was read, from the first state and by every step.  *)
LEMMA InitReads == Init => ReadInv
BY DEF Init, ReadInv

LEMMA StepReadInv == IInv /\ ReadInv /\ [Next]_vars => ReadInv'
<1> SUFFICES ASSUME IInv, ReadInv, [Next]_vars PROVE ReadInv'
  OBVIOUS
<1>1. CASE Parse
  <2>1. entry' = "parse" /\ pc' = "skip" /\ tree' = <<Anchor>> /\ xml' = Top /\ doc' = <<>>
    BY <1>1 DEF Parse, ReadInv
  <2>2. Reads(tree', xml', doc') /\ doc' \in Seq(Token)
    <3>1. Reads(<<Anchor>>, Top, <<>>)  BY StartReads
    <3> QED BY <2>1, <3>1
  <2> QED BY <2>1, <2>2 DEF ReadInv
<1>2. ASSUME entry' = "seq" PROVE ReadInv'
  BY <1>2 DEF ReadInv
<1>3. CASE ParseFirst
  BY <1>2, <1>3 DEF ParseFirst
<1>4. CASE ParseSeq \/ SeqReturns \/ Close
  BY <1>2, <1>4 DEF ParseSeq, SeqReturns, Close
<1>5. ASSUME NEW tok \in Token, Turn(tok) PROVE ReadInv'
  <2> DEFINE q == Step(At(tree, xml, TRUE), tok)
  <2>1. /\ pc \in {"skip", "begin", "loop"} /\ (tok.t = "blank" => pc = "begin") /\ entry' = entry
        /\ tree' = q.nodes /\ xml' = q.at /\ pc' = (IF q.ok THEN "loop" ELSE "stopped")
    BY <1>5 DEF Turn
  <2>2. entry = "none" => FALSE  BY <2>1 DEF IInv, Flow
  <2>3. CASE entry = "parse"
    <3>1. doc' = Append(doc, tok)  BY <1>5, <2>3 DEF Turn
    <3>2. /\ pc \in {"skip", "loop"} /\ doc \in Seq(Token) /\ Reads(tree, xml, doc)
          /\ tok.t # "blank"
      BY <2>1, <2>3 DEF ReadInv
    <3>3. Tree(tree, xml)  BY <3>2 DEF IInv, Tree
    <3>4. Outcome(q, doc, tok)  BY <3>2, <3>3, StepReads
    <3> HIDE DEF q
    <3>5. doc' \in Seq(Token)  BY <3>1, <3>2
    <3>6. CASE q.ok = TRUE /\ Reads(q.nodes, q.at, Append(doc, tok))
      <4>1. pc' = "loop" /\ Reads(tree', xml', doc')  BY <2>1, <3>1, <3>6
      <4> QED BY <2>1, <2>3, <3>5, <4>1 DEF ReadInv
    <3>7. CASE q.ok = FALSE /\ Stopped(q.nodes, q.at, doc, tok)
      <4>1. pc' = "stopped" /\ Stopped(tree', xml', doc, tok)  BY <2>1, <3>7
      <4>2. \E d \in Seq(Token), k \in Token : doc' = Append(d, k) /\ Stopped(tree', xml', d, k)
        BY <3>1, <3>2, <4>1
      <4> QED BY <2>1, <2>3, <3>5, <4>1, <4>2 DEF ReadInv
    <3> QED BY <3>4, <3>6, <3>7 DEF Outcome
  <2>4. CASE entry = "seq"
    BY <1>2, <2>1, <2>4
  <2> QED BY <2>2, <2>3, <2>4 DEF IInv, Flow
<1>6. CASE ParseReturns
  <2>1. /\ entry = "parse" /\ pc' = "over" /\ xml' = xml /\ entry' = entry /\ doc' = doc
        /\ tree' = IF tree[xml].state = "PARSE_ERROR" THEN tree
                   ELSE [tree EXCEPT ![Top].state =
                           Rooted(tree, IF xml = Top THEN "PARSED" ELSE "NOT_CLOSED")]
        /\ pc \in {"skip", "begin", "loop", "stopped"}
    BY <1>6 DEF ParseReturns
  <2>2. doc \in Seq(Token) /\ pc \in {"skip", "loop", "stopped"}  BY <2>1 DEF ReadInv
  <2>3. Tree(tree, xml)  BY <2>2 DEF IInv, Tree
  <2>4. Taken' = Taken  BY <2>1 DEF Taken, Refused
  <2>5. ASSUME Reads(tree, xml, Taken) PROVE Judged(tree'[Top].state, Taken)
    <3>1. tree[xml].state # "PARSE_ERROR"
      <4>1. xml = Top => tree[xml].state = "ANCHOR"  BY <2>5 DEF Reads
      <4>2. xml # Top => xml \in PendingIn(tree)  BY <2>3, <2>5, AtTop
      <4>3. xml # Top => tree[xml].state = "OPENED"  BY <2>5, <4>2 DEF Reads
      <4> QED BY <4>1, <4>3
    <3> DEFINE s == Rooted(tree, IF xml = Top THEN "PARSED" ELSE "NOT_CLOSED")
    <3>2. tree' = [tree EXCEPT ![Top].state = s]  BY <2>1, <3>1
    <3>3. Judged(s, Taken)  BY <2>3, <2>5, ReturnJudges
    <3> HIDE DEF s
    <3>4. Top \in DOMAIN tree /\ tree[Top] \in Node
      <4>1. Typed(tree, xml)  BY <2>3 DEF Tree
      <4>2. Top \in 1 .. Len(tree) /\ tree \in Seq(Node) /\ DOMAIN tree = 1 .. Len(tree)
        BY <4>1, PendingCounts
      <4> QED BY <4>2
    <3>5. tree'[Top].state = s  BY <3>2, <3>4 DEF Node
    <3> QED BY <3>3, <3>5
  <2>6. ASSUME pc \in {"skip", "loop"} PROVE Judged(tree'[Top].state, Taken)
    <3>1. Reads(tree, xml, doc)  BY <2>1, <2>6 DEF ReadInv
    <3>2. doc = <<>> \/ doc[Len(doc)].t # "bad"
      <4>1. doc # <<>> => Len(doc) \in 1 .. Len(doc)  BY <2>2
      <4>2. WellRead(doc)  BY <3>1 DEF Reads
      <4> QED BY <4>1, <4>2 DEF WellRead, Inner
    <3>3. Taken = doc  BY <2>2, <3>2, TakenAll
    <3> QED BY <2>5, <3>1, <3>3
  <2>7. ASSUME pc = "stopped" PROVE Judged(tree'[Top].state, Taken)
    <3>1. PICK d \in Seq(Token), tok \in Token :
            doc = Append(d, tok) /\ Stopped(tree, xml, d, tok)
      BY <2>1, <2>7 DEF ReadInv
    <3>2. CASE tok.t = "bad"
      <4>1. Reads(tree, xml, d)  BY <3>1, <3>2 DEF Stopped
      <4>2. Taken = d  BY <3>1, <3>2, TakenBefore
      <4> QED BY <2>5, <4>1, <4>2
    <3>3. CASE tok.t # "bad"
      <4>1. Misfit(tree, xml, doc)  BY <3>1, <3>3 DEF Stopped
      <4>2. Taken = doc
        <5>1. doc[Len(doc)] = tok  BY <3>1
        <5> QED BY <2>2, <3>3, <5>1, TakenAll
      <4>3. /\ ~WellRead(doc) /\ tree[xml].state = "PARSE_ERROR"
            /\ tree[Top].state \in {"ANCHOR", "PARSE_ERROR"}
        BY <4>1 DEF Misfit
      <4>4. ~Whole(doc) /\ ~Unclosed(doc)  BY <4>3 DEF Whole, Unclosed
      <4>5. tree' = tree  BY <2>1, <4>3
      <4> QED BY <4>2, <4>3, <4>4, <4>5 DEF Judged
    <3> QED BY <3>2, <3>3
  <2>8. Judged(tree'[Top].state, Taken)  BY <2>2, <2>6, <2>7
  <2>9. Judged(tree'[Top].state, Taken')  BY <2>4, <2>8
  <2> QED BY <2>1, <2>2, <2>9 DEF ReadInv
<1>7. CASE UNCHANGED vars
  <2>1. tree' = tree /\ xml' = xml /\ entry' = entry /\ pc' = pc /\ doc' = doc  BY <1>7 DEF vars
  <2>2. Taken' = Taken  BY <2>1 DEF Taken, Refused
  <2> QED BY <2>1, <2>2 DEF ReadInv
<1> QED BY <1>1, <1>3, <1>4, <1>5, <1>6, <1>7 DEF Next

LEMMA ReadsHolds == Spec => []ReadInv
BY InitReads, StepReadInv, InvHolds, PTL DEF Spec

(* How many elements are open, as Verdict counts them.                      *)
LEMMA CountsHeight ==
  ASSUME doc \in Seq(Token)
  PROVE  Count("start") - Count("end") = Height(Taken, Len(Taken)) /\ Taken \in Seq(Token)
<1>1. DOMAIN doc = 1 .. Len(doc)  OBVIOUS
<1>2. Count("start") - Count("end") = Height(doc, Len(doc))  BY <1>1 DEF Count, Height, Marks
<1>3. CASE doc = <<>> \/ doc[Len(doc)].t # "bad"  BY <1>2, <1>3, TakenAll
<1>4. CASE ~(doc = <<>> \/ doc[Len(doc)].t # "bad")
  <2> DEFINE d == SubSeq(doc, 1, Len(doc) - 1)
             tok == doc[Len(doc)]
  <2>1. d \in Seq(Token) /\ tok \in Token /\ doc = Append(d, tok) /\ tok.t = "bad"
    BY <1>4
  <2> HIDE DEF d, tok
  <2>2. Taken = d  BY <2>1, TakenBefore
  <2>3. Grows(d, tok, doc)  BY <2>1, Grown
  <2>4. tok.t \notin {"start", "end"}  BY <2>1
  <2>5. Height(doc, Len(doc)) = Height(d, Len(d))  BY <2>3, <2>4 DEF Grows
  <2> QED BY <1>2, <2>1, <2>2, <2>5
<1> QED BY <1>3, <1>4

(* Of a document of any length and with any names, but without a refused    *)
(* tag, xml_parse says PARSED where the grammar has it, and of no other,    *)
(* and NOT_CLOSED just where end tags are all that it lacks; with a refused *)
(* tag at the end it says PARSED only of what is a document in front of it. *)
THEOREM VerdictIsRight == Spec => []Verdict
<1>1. ReadInv => Verdict
  <2> SUFFICES ASSUME ReadInv, entry = "parse", pc = "over"
               PROVE  Verdict
    BY DEF Verdict
  <2>1. doc \in Seq(Token) /\ Judged(tree[Top].state, Taken)  BY DEF ReadInv
  <2>2. Count("start") - Count("end") = Height(Taken, Len(Taken)) /\ Taken \in Seq(Token)
    BY <2>1, CountsHeight
  <2>3. IsDocument(Taken) <=> Whole(Taken)  BY <2>2, DocumentIsWhole, WholeIsDocument
  <2> DEFINE n == Count("start") - Count("end")
             m == Height(Taken, Len(Taken))
  <2>4. m > 0 /\ (\E names \in [1 .. m -> Name] : IsDocument(Taken \o Ends(m, names)))
          <=> Unclosed(Taken)
    BY <2>2, Completion
  <2>5. n = m  BY <2>2
  <2> HIDE DEF n, m
  <2>6. n > 0 /\ (\E names \in [1 .. n -> Name] : IsDocument(Taken \o Ends(n, names)))
          <=> Unclosed(Taken)
    BY <2>4, <2>5
  <2>7. tree[Top].state = "NOT_CLOSED" <=>
          n > 0 /\ \E names \in [1 .. n -> Name] : IsDocument(
            Taken \o [k \in 1 .. n |-> [t |-> "end", name |-> names[k]]])
    BY <2>1, <2>6 DEF Judged, Ends
  <2>8. tree[Top].state = "PARSED" <=> IsDocument(Taken)  BY <2>1, <2>3 DEF Judged
  <2>9. CASE ~Refused
    <3>1. Taken = doc  BY <2>9 DEF Taken
    <3>2. tree[Top].state = "NOT_CLOSED" <=>
            n > 0 /\ \E names \in [1 .. n -> Name] : IsDocument(
              doc \o [k \in 1 .. n |-> [t |-> "end", name |-> names[k]]])
      BY <2>7, <3>1
    <3>3. tree[Top].state = "PARSED" <=> IsDocument(doc)  BY <2>8, <3>1
    <3> QED BY <2>9, <3>2, <3>3 DEF Verdict, n
  <2>10. CASE Refused  BY <2>8, <2>10 DEF Verdict
  <2> QED BY <2>9, <2>10
<1> QED BY <1>1, ReadsHolds, PTL
=============================================================================
