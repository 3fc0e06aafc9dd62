------------------------------ MODULE TinyXml ------------------------------
(***************************************************************************)
(* The parser of Lib/txml.c at the level of its loop: xml_main_parse takes *)
(* one tag or one run of text after the other and hangs nodes into a tree, *)
(* for xml_parse (a whole document) and xml_parse_seq (a document in       *)
(* pieces, each with altp of the last call).  xml_inverse_parse and        *)
(* close_xml work on the tree.  Names are the only data; attributes, what  *)
(* a text or comment says, depth and lv are left out, and comments, data   *)
(* and processing instructions, which are treated alike, are "aside".      *)
(***************************************************************************)
EXTENDS Integers, Sequences, FiniteSets, SequencesExt

CONSTANTS
  Name,       (* the names of elements                                    *)
  NoName,     (* the key of a node that is no element                     *)
  MaxTokens,  (* how long a document of xml_parse is: bounds the model    *)
  MaxNodes    (* how large a tree xml_parse_seq builds: bounds the model  *)

ASSUME NameAssumption == NoName \notin Name
ASSUME BoundAssumption == MaxTokens \in Nat /\ MaxNodes \in Nat

(* What a turn of the loop finds: "bad" is a tag that its parser refuses,   *)
(* "blank" white space where no content is looked for.                      *)
Token == [t : {"start", "empty", "end"}, name : Name]
           \cup [t : {"text", "aside", "bad", "blank"}, name : {NoName}]

Top == 1   \* the anchor node

Node == [ id    : {"anchor", "name", "content", "aside"},
          name  : Name \cup {NoName},
          prev  : Nat,   \* the parent; children are in the order of their indices
          state : {"ANCHOR", "DEFAULT", "PARSED", "NOT_CLOSED", "MULTI_ROOT",
                   "OPENED", "CLOSED", "EMPTY", "PARSE_ERROR"} ]

VARIABLES
  tree,   (* the nodes in the order they were made, the anchor first      *)
  xml,    (* the node the parser is at; between calls the anchor's altp   *)
  entry,  (* the function that was called: "none", "parse" or "seq"       *)
  pc,     (* "idle", "skip" (looking for the first tag), "begin" (of a    *)
          (* piece), "loop", "stopped" (n <= 0), "over" (no more is fed)  *)
  text,   (* was the last thing taken text? two texts are one             *)
  doc     (* history: what xml_parse was given and has taken              *)

vars == <<tree, xml, entry, pc, text, doc>>

NewNode(id, name, parent, state) ==
  [id |-> id, name |-> name, prev |-> parent, state |-> state]

Anchor == NewNode("anchor", NoName, 0, "ANCHOR")

Children(nodes, k) == {i \in DOMAIN nodes : nodes[i].prev = k}
-----------------------------------------------------------------------------
(* One turn of the loop of xml_main_parse: from tree and current node to    *)
(* the new ones and whether the loop goes on.                               *)
At(nodes, k, ok) == [nodes |-> nodes, at |-> k, ok |-> ok]

Enter(p, node) == At(Append(p.nodes, node), Len(p.nodes) + 1, TRUE)
Leaf(p, node)  == At(Append(p.nodes, node), p.at, TRUE)

Fail(p)   == At([p.nodes EXCEPT ![p.at].state = "PARSE_ERROR"], p.at, FALSE)
Refuse(p) == At(p.nodes, p.at, FALSE)  \* n is not positive, and no node says so

IsOpen(p) == p.nodes[p.at].state = "OPENED"

EndTagLeaves(p, name) ==  \* a slip: a tag of another name closes the node too
  IF IsOpen(p)
  THEN At([p.nodes EXCEPT ![p.at].state = IF p.nodes[p.at].name = name THEN "CLOSED"
                                          ELSE "PARSE_ERROR"],
          p.nodes[p.at].prev, TRUE)
  ELSE Fail(p)

EndTag(p, name) ==
  IF IsOpen(p) /\ p.nodes[p.at].name = name
  THEN At([p.nodes EXCEPT ![p.at].state = IF Children(p.nodes, p.at) = {} THEN "EMPTY"
                                          ELSE "CLOSED"],
          p.nodes[p.at].prev, TRUE)
  ELSE Fail(p)

TextAnywhere(p) == Leaf(p, NewNode("content", NoName, p.at, "CLOSED"))  \* a slip

Text(p) == IF IsOpen(p) THEN Leaf(p, NewNode("content", NoName, p.at, "CLOSED")) ELSE Fail(p)

Blank(p) == IF IsOpen(p) THEN p ELSE Fail(p)

Step(p, tok) ==
  CASE tok.t = "start" -> Enter(p, NewNode("name", tok.name, p.at, "OPENED"))
    [] tok.t = "empty" -> Leaf(p, NewNode("name", tok.name, p.at, "EMPTY"))
    [] tok.t = "end"   -> EndTag(p, tok.name)
    [] tok.t = "text"  -> Text(p)
    [] tok.t = "aside" -> Leaf(p, NewNode("aside", NoName, p.at, "EMPTY"))
    [] tok.t = "bad"   -> Refuse(p)
    [] tok.t = "blank" -> Blank(p)
-----------------------------------------------------------------------------
Init == /\ tree = <<Anchor>> /\ xml = Top /\ entry = "none"
        /\ pc = "idle" /\ text = FALSE /\ doc = <<>>

(* xml_parse, and the first call of xml_parse_seq: both make the anchor.    *)
Parse == /\ entry = "none"
         /\ entry' = "parse" /\ pc' = "skip"
         /\ UNCHANGED <<tree, xml, text, doc>>

ParseFirst == /\ entry = "none"
              /\ entry' = "seq" /\ pc' = "skip"
              /\ UNCHANGED <<tree, xml, text, doc>>

(* xml_parse_seq(xml->altp, pp) *)
ParseSeq == /\ entry = "seq" /\ pc = "idle"
            /\ pc' = "begin" /\ text' = FALSE
            /\ tree' = IF xml = Top THEN [tree EXCEPT ![Top].state = "DEFAULT"] ELSE tree
            /\ UNCHANGED <<xml, entry, doc>>

(* A turn of the loop.  White space behind a tag or text is skipped at the  *)
(* end of the turn that took it, so it is found by a turn only where a      *)
(* piece begins with it; in front of the first tag everything is skipped.   *)
Turn(tok) ==
  /\ pc \in {"skip", "begin", "loop"}
  /\ tok.t = "text" => pc # "skip" /\ ~text
  /\ tok.t = "blank" => pc = "begin"
  /\ IF entry = "parse" THEN Len(doc) < MaxTokens ELSE Len(tree) < MaxNodes
  /\ LET p == Step(At(tree, xml, TRUE), tok)
     IN  /\ tree' = p.nodes /\ xml' = p.at
         /\ pc' = IF p.ok THEN "loop" ELSE "stopped"
  /\ text' = (tok.t \in {"text", "blank"})
  /\ doc' = IF entry = "parse" THEN Append(doc, tok) ELSE doc
  /\ UNCHANGED entry

Roots(nodes) == Cardinality({i \in Children(nodes, Top) : nodes[i].id = "name"})

Rooted(nodes, state) == IF Children(nodes, Top) = {} THEN "DEFAULT"
                        ELSE IF Roots(nodes) # 1 THEN "MULTI_ROOT"
                        ELSE state

(* A negative state of the node the parser stopped at is left for the       *)
(* caller to find.                                                          *)
ParseReturns ==
  /\ entry = "parse" /\ pc \in {"skip", "begin", "loop", "stopped"}
  /\ tree' = IF tree[xml].state = "PARSE_ERROR" THEN tree
             ELSE [tree EXCEPT ![Top].state =
                     Rooted(tree, IF xml = Top THEN "PARSED" ELSE "NOT_CLOSED")]
  /\ pc' = "over"
  /\ UNCHANGED <<xml, entry, text, doc>>

(* xml->state = node->state, where both are the anchor, changes nothing.    *)
SeqReturns ==
  /\ entry = "seq" /\ pc \in {"skip", "begin", "loop", "stopped"}
  /\ tree' = IF xml # Top THEN tree
             ELSE [tree EXCEPT ![Top].state = Rooted(tree, @)]
  /\ pc' = "idle" /\ text' = FALSE
  /\ UNCHANGED <<xml, entry, doc>>

(* close_xml of the anchor *)
Close ==
  /\ entry = "seq" /\ pc = "idle"
  /\ tree' = [i \in DOMAIN tree |->
                [tree[i] EXCEPT !.state = CASE i = Top -> "PARSED"
                                            [] i # Top /\ Children(tree, i) = {} -> "EMPTY"
                                            [] OTHER -> IF @ = "EMPTY" THEN @ ELSE "CLOSED"]]
  /\ pc' = "over"
  /\ UNCHANGED <<xml, entry, text, doc>>

Next == \/ Parse \/ ParseFirst \/ ParseSeq
        \/ \E tok \in Token : Turn(tok)
        \/ ParseReturns \/ SeqReturns \/ Close

Spec == Init /\ [][Next]_vars
-----------------------------------------------------------------------------
(* xml_inverse_parse: the tree as a document.                               *)
Opening(nodes, i) ==
  CASE nodes[i].id = "anchor"  -> <<>>
    [] nodes[i].id = "content" -> <<[t |-> "text", name |-> NoName]>>
    [] nodes[i].id = "aside"   -> <<[t |-> "aside", name |-> NoName]>>
    [] nodes[i].id = "name"    ->
         IF Children(nodes, i) # {} THEN <<[t |-> "start", name |-> nodes[i].name]>>
         ELSE IF nodes[i].state = "EMPTY" THEN <<[t |-> "empty", name |-> nodes[i].name]>>
         ELSE <<[t |-> "start", name |-> nodes[i].name], [t |-> "end", name |-> nodes[i].name]>>

ClosingClosed(nodes, i) ==  \* a slip: only a node that is closed is given its end tag
  IF nodes[i].id = "name" /\ Children(nodes, i) # {} /\ nodes[i].state = "CLOSED"
  THEN <<[t |-> "end", name |-> nodes[i].name]>> ELSE <<>>

Closing(nodes, i) ==
  IF nodes[i].id = "name" /\ Children(nodes, i) # {}
  THEN <<[t |-> "end", name |-> nodes[i].name]>> ELSE <<>>

InverseParse(nodes) ==
  LET sisters(i) == SelectSeq([k \in DOMAIN nodes |-> k], LAMBDA k : nodes[k].prev = i)
      print[i \in DOMAIN nodes] ==
        Opening(nodes, i)
          \o FlattenSeq([c \in DOMAIN sisters(i) |-> print[sisters(i)[c]]])
          \o Closing(nodes, i)
  IN  print[Top]

(* The loop over a whole document in which texts stand together. *)
Joined(tokens) ==
  FoldLeft(LAMBDA s, tok : IF tok.t = "text" /\ s # <<>> /\ Last(s).t = "text" THEN s
                           ELSE Append(s, tok), <<>>, tokens)
MainParse(tokens) ==
  FoldLeft(LAMBDA p, tok : IF p.ok THEN Step(p, tok) ELSE p, At(<<Anchor>>, Top, TRUE), tokens)
-----------------------------------------------------------------------------
TypeOK == /\ tree \in Seq(Node) /\ tree # <<>>
          /\ xml \in DOMAIN tree
          /\ entry \in {"none", "parse", "seq"}
          /\ pc \in {"idle", "skip", "begin", "loop", "stopped", "over"}
          /\ text \in BOOLEAN

(* The nodes below the anchor that wait for their end tag, or that met an   *)
(* error instead.                                                           *)
PendingIn(nodes) ==
  {i \in DOMAIN nodes : i # Top /\ nodes[i].state \in {"OPENED", "PARSE_ERROR"}}
Pending == PendingIn(tree)

(* However a document is cut and whatever errors its pieces meet, the nodes *)
(* that wait for their end form one chain from the anchor to the node that  *)
(* is handed on in altp: nothing is left open beside it.                    *)
OpenIsChain ==
  pc # "over" =>
    /\ xml \in Pending \cup {Top}
    /\ \A i \in Pending : tree[i].prev \in Pending \cup {Top}
    /\ \A i \in Pending : tree[i].prev # xml
    /\ \A i, j \in Pending : tree[i].prev = tree[j].prev => i = j

(* So a caller of xml_parse_seq that finds the anchor in altp has no        *)
(* element left open and no error inside one, whatever came before.         *)
AltpTells == pc # "over" /\ xml = Top => Pending = {}

(* Texts next to each other, as the pieces cut them, count as one.          *)
Doubled(nodes) == {i \in DOMAIN nodes : /\ i > 1 /\ nodes[i].id = "content"
                                        /\ nodes[i - 1].id = "content"
                                        /\ nodes[i - 1].prev = nodes[i].prev}
Shape(nodes) ==
  LET kept     == DOMAIN nodes \ Doubled(nodes)
      place(i) == Cardinality({j \in kept : j <= i})
  IN  {<<place(i), nodes[i].id, nodes[i].name, place(nodes[i].prev)>> : i \in kept}

(* What xml_inverse_parse prints, also of a tree that is half read or met   *)
(* an error, is a document that is read back without error as the same     *)
(* tree, with every element closed.                                         *)
RoundTrip ==
  pc \in {"idle", "over"} =>
    \E p \in {MainParse(Joined(InverseParse(tree)))} :
      /\ p.ok /\ p.at = Top
      /\ Shape(p.nodes) = Shape(tree)
      /\ \A i \in DOMAIN p.nodes : i # Top => p.nodes[i].state \in {"CLOSED", "EMPTY"}

(* The grammar of documents: tokens i .. j - 1 of d are the content of an   *)
(* element, given which shorter stretches are.                              *)
Derives(C, d, i, j) ==
  \/ i = j
  \/ /\ i < j /\ d[i].t \in {"text", "aside", "empty"} /\ C[i + 1, j]
  \/ /\ i < j /\ d[i].t = "start"
     /\ \E k \in i + 1 .. j - 1 : /\ d[k] = [t |-> "end", name |-> d[i].name]
                                  /\ C[i + 1, k] /\ C[k + 1, j]
Cuts(d) == (1 .. Len(d) + 1) \X (1 .. Len(d) + 1)
IsContent(d) == LET C[p \in Cuts(d)] == Derives(C, d, p[1], p[2]) IN C
IsDocument(d) ==
  \E i \in DOMAIN d, j \in DOMAIN d :
    /\ \/ i = j /\ d[i].t = "empty"
       \/ /\ i < j /\ d[i].t = "start" /\ d[j] = [t |-> "end", name |-> d[i].name]
          /\ IsContent(d)[i + 1, j]
    /\ \A k \in DOMAIN d \ (i .. j) : d[k].t = "aside"

(* A refused tag ends the reading, and n <= 0 is not looked at afterwards.  *)
Refused == doc # <<>> /\ Last(doc).t = "bad"
Taken   == IF Refused THEN Front(doc) ELSE doc

Count(t) == Cardinality({i \in DOMAIN doc : doc[i].t = t})

(* Of a document without a refused tag xml_parse says PARSED if it has one  *)
(* root and its tags match, and only then, and NOT_CLOSED if and only if    *)
(* end tags would complete it.  A refused tag, which has no state of its    *)
(* own, can pass for the end of a whole document, but for nothing else.     *)
Verdict ==
  entry = "parse" /\ pc = "over" =>
    /\ ~Refused =>
         /\ tree[Top].state = "PARSED" <=> IsDocument(doc)
         /\ tree[Top].state = "NOT_CLOSED" <=>
              LET n == Count("start") - Count("end")
              IN  n > 0 /\ \E names \in [1 .. n -> Name] : IsDocument(
                    doc \o [k \in 1 .. n |-> [t |-> "end", name |-> names[k]]])
    /\ Refused /\ tree[Top].state = "PARSED" => IsDocument(Taken)
=============================================================================
