------------------------ MODULE CompileRenderProofs ------------------------
(***************************************************************************)
(* A document comes out of its file as it went in, hashes verify, no       *)
(* payload is covered by a hotter one, and nothing is refused: for all     *)
(* documents, levels, vocabularies and forms of file.                      *)
(*                                                                         *)
(* The inductive invariant has five parts, each over the ones before.      *)
(*   BuildInv   the builder's list is a GoodTree, the open sections are    *)
(*              nodes of the tier build_into remembers for them, and what  *)
(*              waits for a payload is the innermost of them               *)
(*   ShapeInv   the list is in pre-order already as it is built (Nests,    *)
(*              Growing), and each document is a part of it (Rooted)       *)
(*   OrderInv   so pre_order's stack yields the numbers in their order     *)
(*              (Tour), and the file says node by node what the list says  *)
(*              (Faithful)                                                 *)
(*   StoryInv   the nodes of a document, in that order, print its source   *)
(*   RenderInv  render's stack takes them in that order, so what is out is *)
(*              what they print so far                                     *)
(***************************************************************************)
EXTENDS CompileRender, FiniteSetTheorems, WellFoundedInduction, TLAPS

Roles == {"none", "charter", "root", "frontmatter", "section", "continuation",
          "fence", "fenceUnclosed", "artifact", "gate"}
Names == {<<>>, <<"artifact">>, <<"gate">>} \cup {<<t>> : t \in Titles}
           \cup (BOOLEAN \X BOOLEAN)
Payloads == Texts \cup Codes \cup {None, FrontText, ArtifactText, GateText}

BuiltNode == [kind : Kinds, tier : Tiers, role : Roles, name : Names,
              payload : Payloads, parent : Nat, depth : Nat]

Block == [type : {"heading"}, level : Levels, title : Titles]
           \cup [type : {"text"}, text : Texts]
           \cup [type : {"fence"}, code : Codes, runs : BOOLEAN, closed : BOOLEAN]

Document == [front : BOOLEAN, blocks : Seq(Block), adorned : BOOLEAN]

\* What a node with a payload has to be.
Fit(node) == node.tier = 0 /\ node.payload # None => node.kind = "applicability"

\* The first node is the root; any other follows its parent and is no hotter.
GoodTree(b) ==
  /\ b \in Seq(BuiltNode)
  /\ b # <<>> => b[1].tier = 0 /\ b[1].parent = 0
  /\ \A k \in 2 .. Len(b) : b[k].parent \in 1 .. k-1
                            /\ b[b[k].parent].tier <= b[k].tier
  /\ \A k \in 1 .. Len(b) : Fit(b[k])

OpenSections(s, b) ==
  /\ s \in Seq(Nat \X Nat \X Tiers) /\ s # <<>>
  /\ \A i \in 1 .. Len(s) : s[i][2] \in 1 .. Len(b) /\ b[s[i][2]].tier = s[i][3]

Waiting ==
  pending # 0 => /\ pending = Current
                 /\ built[Current].tier = 0 => built[Current].kind = "applicability"

BuildInv ==
  /\ pc # "refused"
  /\ form \in {"single", "bundle", "org"}
  /\ docs \in Seq(Document)
  /\ roots \in Seq(Nat)
  /\ GoodTree(built)
  /\ form = "single" /\ docs = <<>> => built = <<>>
  /\ form # "single" \/ docs # <<>> => built # <<>>
  /\ pc = "blocks" => /\ docs # <<>> /\ roots # <<>>
                      /\ Last(roots) \in 1 .. Len(built) /\ built[Last(roots)].tier = 0
                      /\ OpenSections(stack, built)
                      /\ Waiting

\* A nonempty set of numbers up to a bound has a greatest one.
LEMMA Greatest ==
  ASSUME NEW bound \in Nat, NEW S \in SUBSET (0 .. bound), S # {}
  PROVE  \E i \in S : \A j \in S : j <= i
<1> DEFINE Left == {bound - i : i \in S}
<1>1. Left \subseteq Nat /\ Left # {}
  <2>1. \A i \in S : i \in Nat /\ i <= bound /\ bound - i \in Nat
    OBVIOUS
  <2>2. PICK i \in S : TRUE
    OBVIOUS
  <2>3. bound - i \in Left
    OBVIOUS
  <2> QED
    BY <2>1, <2>3
<1>2. IsWellFoundedOn(OpToRel(<, Nat), Nat)
  BY NatLessThanWellFounded
<1>3. PICK x \in Left : \A y \in Left : ~ (<<y, x>> \in OpToRel(<, Nat))
  <2> HIDE DEF Left
  <2> QED
    BY <1>1, <1>2, WFMin
<1>4. \A y \in Left : ~ (y < x)
  BY <1>1, <1>3 DEF OpToRel
<1>5. PICK i \in S : x = bound - i
  BY <1>3
<1>6. \A j \in S : bound - j \in Left /\ ~ (bound - j < bound - i)
  BY <1>4, <1>5
<1> QED
  BY <1>6

\* Closing sections keeps an initial part of the open ones, and never none.
LEMMA ClosingIsPart ==
  ASSUME NEW b, OpenSections(stack, b), NEW level
  PROVE  /\ Closing(level) \in Seq(Nat \X Nat \X Tiers)
         /\ Len(Closing(level)) \in 1 .. Len(stack)
         /\ \A i \in 1 .. Len(Closing(level)) : Closing(level)[i] = stack[i]
<1> DEFINE open == {i \in DOMAIN stack : i = 1 \/ \A j \in 2 .. i : stack[j][1] < level}
           top == CHOOSE i \in open : \A j \in open : j <= i
<1>1. stack \in Seq(Nat \X Nat \X Tiers) /\ Len(stack) \in Nat /\ Len(stack) >= 1
      /\ DOMAIN stack = 1 .. Len(stack)
  BY DEF OpenSections
<1>2. open \in SUBSET (0 .. Len(stack)) /\ open # {}
  <2>1. 1 \in open
    BY <1>1
  <2> QED
    BY <1>1, <2>1
<1>3. \E i \in open : \A j \in open : j <= i
  <2> HIDE DEF open
  <2> QED
    BY <1>1, <1>2, Greatest
<1>4. top \in open
  <2> HIDE DEF open
  <2> QED
    BY <1>3
<1>5. top \in 1 .. Len(stack)
  BY <1>1, <1>4
<1>6. Closing(level) = SubSeq(stack, 1, top)
  BY DEF Closing
<1> HIDE DEF top
<1>7. /\ SubSeq(stack, 1, top) \in Seq(Nat \X Nat \X Tiers)
      /\ Len(SubSeq(stack, 1, top)) = top
      /\ \A i \in 1 .. top : SubSeq(stack, 1, top)[i] = stack[i]
  BY <1>1, <1>5
<1> QED
  BY <1>5, <1>6, <1>7

LEMMA ClosingKeeps ==
  ASSUME NEW b, OpenSections(stack, b), NEW level
  PROVE  OpenSections(Closing(level), b)
<1> DEFINE kept == Closing(level)
<1>1. /\ kept \in Seq(Nat \X Nat \X Tiers) /\ Len(kept) \in 1 .. Len(stack)
      /\ \A i \in 1 .. Len(kept) : kept[i] = stack[i]
  BY ClosingIsPart
<1> HIDE DEF kept
<1>2. kept # <<>> /\ stack \in Seq(Nat \X Nat \X Tiers)
  BY <1>1 DEF OpenSections
<1>3. ASSUME NEW i \in 1 .. Len(kept)
      PROVE  kept[i][2] \in 1 .. Len(b) /\ b[kept[i][2]].tier = kept[i][3]
  <2>1. i \in 1 .. Len(stack) /\ kept[i] = stack[i]
    BY <1>1, <1>2
  <2>2. stack[i][2] \in 1 .. Len(b) /\ b[stack[i][2]].tier = stack[i][3]
    BY <2>1 DEF OpenSections
  <2> QED
    BY <2>1, <2>2
<1>4. OpenSections(kept, b)
  BY <1>1, <1>2, <1>3 DEF OpenSections
<1> QED
  BY <1>4 DEF kept

\* Open sections stay so while their nodes keep their place and tier.
LEMMA OpenStays ==
  ASSUME NEW s, NEW b, NEW c, OpenSections(s, b),
         \A k \in 1 .. Len(b) : k \in 1 .. Len(c) /\ c[k].tier = b[k].tier
  PROVE  OpenSections(s, c)
BY DEF OpenSections

\* A tree stays good when a node is added below one of its nodes.
LEMMA Grows ==
  ASSUME NEW b, GoodTree(b), NEW node \in BuiltNode, Fit(node),
         IF b = <<>> THEN node.tier = 0 /\ node.parent = 0
         ELSE node.parent \in 1 .. Len(b) /\ b[node.parent].tier <= node.tier
  PROVE  /\ GoodTree(Append(b, node))
         /\ Len(b) \in Nat /\ Len(Append(b, node)) = Len(b) + 1
         /\ Append(b, node)[Len(b) + 1] = node
         /\ \A k \in 1 .. Len(b) : Append(b, node)[k] = b[k]
<1> DEFINE new == Append(b, node)
<1>1. b \in Seq(BuiltNode) /\ Len(b) \in Nat /\ (b = <<>> <=> Len(b) = 0)
  BY DEF GoodTree
<1>2. /\ new \in Seq(BuiltNode) /\ Len(new) = Len(b) + 1 /\ new[Len(b) + 1] = node
      /\ \A k \in 1 .. Len(b) : new[k] = b[k]
  BY <1>1
<1> HIDE DEF new
<1>3. new[1].tier = 0 /\ new[1].parent = 0
  BY <1>1, <1>2 DEF GoodTree
<1>4. ASSUME NEW k \in 2 .. Len(new)
      PROVE  new[k].parent \in 1 .. k-1 /\ new[new[k].parent].tier <= new[k].tier
  <2>1. CASE k = Len(b) + 1
    BY <1>1, <1>2, <2>1
  <2>2. CASE k # Len(b) + 1
    <3>1. k \in 2 .. Len(b) /\ k \in 1 .. Len(b) /\ b[k].parent \in 1 .. k-1
          /\ b[b[k].parent].tier <= b[k].tier
      BY <1>1, <1>2, <2>2 DEF GoodTree
    <3>2. b[k].parent \in 1 .. Len(b)
      BY <1>1, <3>1
    <3> QED
      BY <1>2, <3>1, <3>2
  <2> QED
    BY <2>1, <2>2
<1>5. \A k \in 1 .. Len(new) : Fit(new[k])
  BY <1>1, <1>2, SMTT(30) DEF GoodTree
<1>6. GoodTree(new)
  BY <1>2, <1>3, <1>4, <1>5 DEF GoodTree
<1> QED
  BY <1>1, <1>2, <1>6 DEF new

\* Concatenation with one or two nodes, a node at a time.
LEMMA ConcatIsAppend ==
  ASSUME NEW S, NEW s \in Seq(S), NEW x \in S, NEW y \in S
  PROVE  /\ s \o <<>> = s /\ s \o <<x>> = Append(s, x)
         /\ s \o <<x, y>> = Append(Append(s, x), y)
OBVIOUS

\* The parser's next block leaves the documents of their type.
LEMMA ParsedKeeps ==
  ASSUME BuildInv, NEW block \in Block, Parsed(block)
  PROVE  docs' \in Seq(Document) /\ docs' # <<>>
<1>1. docs \in Seq(Document) /\ docs # <<>> /\ Len(docs) \in 1 .. Len(docs)
      /\ Len(docs) \in DOMAIN docs
  BY DEF BuildInv, Parsed
<1> DEFINE d == docs[Len(docs)]
           new == [d EXCEPT !.blocks = Append(d.blocks, block)]
<1>2. d \in Document /\ d.blocks \in Seq(Block)
  <2>1. d \in Document
    BY <1>1
  <2> HIDE DEF d
  <2> QED
    BY <2>1 DEF Document
<1>3. Append(d.blocks, block) \in Seq(Block)
  BY <1>2
<1>4. new \in Document
  BY <1>2, <1>3 DEF Document
<1>5. docs' = [docs EXCEPT ![Len(docs)] = new]
  BY DEF Parsed
<1> HIDE DEF new, d
<1> QED
  BY <1>1, <1>4, <1>5

\* What is known while the blocks of a document are read.
LEMMA Reading ==
  ASSUME BuildInv, pc = "blocks"
  PROVE  /\ built \in Seq(BuiltNode) /\ Len(built) \in Nat /\ built # <<>>
         /\ DOMAIN built = 1 .. Len(built)
         /\ Len(stack) \in 1 .. Len(stack)
         /\ Current \in 1 .. Len(built) /\ CurrentTier \in Tiers
         /\ built[Current].tier = CurrentTier /\ built[Current] \in BuiltNode
<1>1. built \in Seq(BuiltNode) /\ OpenSections(stack, built)
  BY DEF BuildInv, GoodTree
<1>2. stack \in Seq(Nat \X Nat \X Tiers) /\ Len(stack) \in 1 .. Len(stack)
  BY <1>1 DEF OpenSections
<1>3. stack[Len(stack)] \in Nat \X Nat \X Tiers
  BY <1>2
<1>4. /\ stack[Len(stack)][2] \in 1 .. Len(built)
      /\ built[stack[Len(stack)][2]].tier = stack[Len(stack)][3]
  BY <1>1, <1>2 DEF OpenSections
<1> QED
  BY <1>1, <1>2, <1>3, <1>4 DEF Current, CurrentTier, Last

\* A node is added to the innermost section, and no section opens or closes.
LEMMA AddKeeps ==
  ASSUME BuildInv, pc = "blocks", pc' = pc, form' = form, roots' = roots,
         docs' \in Seq(Document), docs' # <<>>, stack' = stack, pending' \in {0, pending},
         NEW node \in BuiltNode, Fit(node),
         node.parent = Current, CurrentTier <= node.tier,
         built' = Append(built, node)
  PROVE  BuildInv'
<1>1. /\ GoodTree(built')
      /\ Len(built') = Len(built) + 1 /\ Len(built) \in Nat
      /\ \A k \in 1 .. Len(built) : built'[k] = built[k]
  BY Grows, Reading DEF BuildInv
<1>2. built' # <<>>
  BY <1>1, Reading DEF GoodTree
<1>3. OpenSections(stack', built')
  <2>1. OpenSections(stack, built) /\ \A k \in 1 .. Len(built) : k \in 1 .. Len(built')
    BY <1>1 DEF BuildInv
  <2> QED
    BY <1>1, <2>1, OpenStays
<1>4. Waiting'
  BY <1>1, Reading DEF BuildInv, Waiting, Current
<1>5. Last(roots') \in 1 .. Len(built') /\ built'[Last(roots')].tier = 0
  BY <1>1 DEF BuildInv
<1> QED
  BY <1>1, <1>2, <1>3, <1>4, <1>5 DEF BuildInv

LEMMA Appended ==
  ASSUME NEW S, NEW s \in Seq(S), NEW e \in S
  PROVE  /\ Append(s, e) \in Seq(S) /\ Append(s, e) # <<>>
         /\ Len(Append(s, e)) = Len(s) + 1
         /\ Append(s, e)[Len(s) + 1] = e /\ \A i \in 1 .. Len(s) : Append(s, e)[i] = s[i]
         /\ Last(Append(s, e)) = e
BY DEF Last

\* A section is opened.
LEMMA OpenPush ==
  ASSUME NEW s, NEW b, OpenSections(s, b), NEW e \in Nat \X Nat \X Tiers,
         e[2] \in 1 .. Len(b), b[e[2]].tier = e[3]
  PROVE  OpenSections(Append(s, e), b) /\ Last(Append(s, e)) = e
<1> DEFINE new == Append(s, e)
<1>1. s \in Seq(Nat \X Nat \X Tiers) /\ Len(s) \in Nat
  BY DEF OpenSections
<1>2. /\ new \in Seq(Nat \X Nat \X Tiers) /\ new # <<>> /\ Len(new) = Len(s) + 1
      /\ new[Len(s) + 1] = e /\ \A i \in 1 .. Len(s) : new[i] = s[i]
  <2> DEFINE Triples == Nat \X Nat \X Tiers
  <2>1. s \in Seq(Triples) /\ e \in Triples
    BY <1>1
  <2> HIDE DEF Triples
  <2>2. /\ Append(s, e) \in Seq(Triples) /\ Append(s, e) # <<>>
        /\ Len(Append(s, e)) = Len(s) + 1 /\ Append(s, e)[Len(s) + 1] = e
        /\ \A i \in 1 .. Len(s) : Append(s, e)[i] = s[i]
    BY ONLY <2>1, Appended
  <2> QED
    BY <2>2 DEF Triples
<1> HIDE DEF new
<1>3. ASSUME NEW i \in 1 .. Len(new)
      PROVE  new[i][2] \in 1 .. Len(b) /\ b[new[i][2]].tier = new[i][3]
  <2>1. CASE i = Len(s) + 1
    BY <1>2, <2>1
  <2>2. CASE i # Len(s) + 1
    <3>1. i \in 1 .. Len(s)
      BY <1>1, <1>2, <2>2
    <3> QED
      BY <1>2, <3>1 DEF OpenSections
  <2> QED
    BY <2>1, <2>2
<1>4. OpenSections(new, b) /\ new[Len(new)] = e
  BY <1>2, <1>3 DEF OpenSections
<1> QED
  BY <1>4 DEF new, Last

LEMMA HeadingKeeps ==
  ASSUME BuildInv, NEW level \in Levels, NEW title \in Titles, Heading(level, title)
  PROVE  BuildInv'
<1> DEFINE outer == Closing(level)
           tier == SectionTier(title, Last(outer)[3])
           node == Node(Classify[title].kind, tier, "section", <<title>>, None,
                        Last(outer)[2], level)
           at == Len(built) + 1
<1>1. /\ pc = "blocks" /\ pc' = pc /\ form' = form /\ roots' = roots
      /\ built' = Append(built, node)
      /\ stack' = Append(outer, <<level, Len(built'), tier>>)
      /\ pending' = Len(built')
      /\ Parsed([type |-> "heading", level |-> level, title |-> title])
  BY DEF Heading, Parsed
<1>2. [type |-> "heading", level |-> level, title |-> title] \in Block
  BY DEF Block
<1>3. docs' \in Seq(Document) /\ docs' # <<>>
  BY <1>1, <1>2, ParsedKeeps
<1>4. /\ level \in Nat
      /\ Classify[title].kind \in Kinds /\ Classify[title].tier \in Tiers
      /\ Classify[title].tier = 0 => Classify[title].kind = "applicability"
  BY CompileAssumption
<1>5. OpenSections(outer, built)
  BY <1>1, ClosingKeeps DEF BuildInv
<1>6. /\ Last(outer)[2] \in 1 .. Len(built) /\ Last(outer)[3] \in Tiers
      /\ built[Last(outer)[2]].tier = Last(outer)[3]
  <2> HIDE DEF outer
  <2>1. outer \in Seq(Nat \X Nat \X Tiers) /\ Len(outer) \in 1 .. Len(outer)
    BY <1>5 DEF OpenSections
  <2>2. outer[Len(outer)] \in Nat \X Nat \X Tiers
    BY <2>1
  <2> QED
    BY <1>5, <2>1, <2>2 DEF OpenSections, Last
<1> HIDE DEF outer
<1>7. /\ tier \in Tiers /\ Last(outer)[3] <= tier
      /\ tier = 0 => Classify[title].tier = 0
  BY <1>4, <1>6 DEF SectionTier, Hotter, Tiers
<1> HIDE DEF tier
<1>8. /\ built \in Seq(BuiltNode) /\ Len(built) \in Nat /\ built # <<>>
      /\ GoodTree(built)
  BY <1>1, Reading DEF BuildInv
<1>9. /\ node \in BuiltNode /\ Fit(node)
      /\ node.parent = Last(outer)[2] /\ node.tier = tier
      /\ node.kind = Classify[title].kind
  <2>1. Last(outer)[2] \in Nat
    BY <1>6, <1>8
  <2> QED
    BY <1>4, <1>7, <2>1 DEF Node, BuiltNode, Fit, Roles, Names, Payloads
<1> HIDE DEF node
<1>10. /\ GoodTree(built') /\ Len(built') = at /\ at \in Nat
       /\ built'[at] = node
       /\ \A k \in 1 .. Len(built) : built'[k] = built[k]
  BY <1>1, <1>6, <1>7, <1>8, <1>9, Grows
<1>11. OpenSections(outer, built')
  BY <1>5, <1>8, <1>10, OpenStays
<1>12. OpenSections(stack', built') /\ Last(stack') = <<level, at, tier>>
  <2>1. /\ <<level, at, tier>> \in Nat \X Nat \X Tiers
        /\ at \in 1 .. Len(built') /\ built'[at].tier = tier
    BY <1>4, <1>7, <1>8, <1>9, <1>10
  <2>2. stack' = Append(outer, <<level, at, tier>>)
    BY <1>1, <1>10
  <2> HIDE DEF at
  <2> QED
    BY <1>11, <2>1, <2>2, OpenPush
<1>13. Waiting'
  <2>1. Current' = at /\ pending' = at
    BY <1>1, <1>10, <1>12 DEF Current
  <2> QED
    BY <1>4, <1>7, <1>9, <1>10, <2>1 DEF Waiting
<1>14. Last(roots') \in 1 .. Len(built') /\ built'[Last(roots')].tier = 0
       /\ roots' # <<>> /\ roots' \in Seq(Nat)
  BY <1>1, <1>8, <1>10 DEF BuildInv
<1>15. built' # <<>>
  BY <1>10 DEF GoodTree
<1> QED
  BY <1>1, <1>3, <1>10, <1>12, <1>13, <1>14, <1>15 DEF BuildInv

\* The innermost section gets its payload.
LEMMA PayloadKeeps ==
  ASSUME BuildInv, pc = "blocks", pc' = pc, form' = form, roots' = roots, stack' = stack,
         docs' \in Seq(Document), docs' # <<>>, pending # 0, pending' = 0,
         NEW content \in Texts, built' = [built EXCEPT ![Current].payload = content]
  PROVE  BuildInv'
<1> DEFINE old == built[Current]
           node == [old EXCEPT !.payload = content]
<1>1. /\ built \in Seq(BuiltNode) /\ Len(built) \in Nat /\ built # <<>>
      /\ DOMAIN built = 1 .. Len(built) /\ Current \in 1 .. Len(built)
      /\ old \in BuiltNode /\ GoodTree(built)
      /\ old.tier = 0 => old.kind = "applicability"
  BY Reading DEF BuildInv, Waiting
<1> HIDE DEF old
<1>2. /\ node \in BuiltNode /\ Fit(node)
      /\ node.tier = old.tier /\ node.parent = old.parent
  BY <1>1 DEF BuiltNode, Payloads, Fit
<1>3. built' = [built EXCEPT ![Current] = node]
  BY DEF old
<1> HIDE DEF node
<1>4. /\ built' \in Seq(BuiltNode) /\ Len(built') = Len(built) /\ built' # <<>>
      /\ \A k \in 1 .. Len(built) :
           /\ built'[k] = IF k = Current THEN node ELSE built[k]
           /\ built'[k].tier = built[k].tier /\ built'[k].parent = built[k].parent
  BY <1>1, <1>2, <1>3, SMTT(30) DEF old
<1>5. GoodTree(built')
  <2>1. built'[1].tier = 0 /\ built'[1].parent = 0
    BY <1>1, <1>4 DEF GoodTree
  <2>2. ASSUME NEW k \in 2 .. Len(built)
        PROVE  built'[k].parent \in 1 .. k-1 /\ built'[built'[k].parent].tier <= built'[k].tier
    <3>1. built[k].parent \in 1 .. k-1 /\ built[built[k].parent].tier <= built[k].tier
          /\ k \in 1 .. Len(built)
      BY <1>1 DEF GoodTree
    <3>2. built[k].parent \in 1 .. Len(built)
      BY <1>1, <3>1
    <3> QED
      BY <1>4, <3>1, <3>2
  <2>3. \A k \in 1 .. Len(built) : Fit(built'[k])
    BY <1>1, <1>2, <1>4 DEF GoodTree
  <2> QED
    BY <1>4, <2>1, <2>2, <2>3 DEF GoodTree
<1>6. OpenSections(stack', built')
  <2>1. OpenSections(stack, built)
    BY DEF BuildInv
  <2> QED
    BY <1>4, <2>1, OpenStays
<1>7. Last(roots') \in 1 .. Len(built') /\ built'[Last(roots')].tier = 0
  BY <1>4 DEF BuildInv
<1> QED
  BY <1>4, <1>5, <1>6, <1>7 DEF BuildInv, Waiting

LEMMA TextKeeps ==
  ASSUME BuildInv, NEW content \in Texts, Text(content) PROVE BuildInv'
<1>1. [type |-> "text", text |-> content] \in Block
  BY DEF Block
<1>2. /\ pc = "blocks" /\ pc' = pc /\ form' = form /\ roots' = roots /\ stack' = stack
      /\ docs' \in Seq(Document) /\ docs' # <<>>
  BY <1>1, ParsedKeeps DEF Text, Parsed
<1>3. CASE fenced \/ pending = 0
  <2> DEFINE node == Node("prose", ContinuationTier, "continuation", <<>>,
                          content, Current, 0)
  <2>1. built' = Append(built, node) /\ pending' = pending
    BY <1>3 DEF Text
  <2>2. /\ ContinuationTier \in Tiers /\ ContinuationTier # 0
        /\ CurrentTier <= ContinuationTier /\ Current \in Nat
    BY <1>2, Reading DEF ContinuationTier, Hotter, Tiers
  <2>3. node \in BuiltNode /\ Fit(node) /\ node.parent = Current
        /\ CurrentTier <= node.tier
    BY <2>2 DEF Node, BuiltNode, Fit, Roles, Names, Payloads, Kinds
  <2> HIDE DEF node
  <2> QED
    BY <1>2, <2>1, <2>3, AddKeeps
<1>4. CASE ~ (fenced \/ pending = 0)
  <2>1. built' = [built EXCEPT ![Current].payload = content] /\ pending' = 0
    BY <1>4 DEF Text
  <2> QED
    BY <1>2, <1>4, <2>1, PayloadKeeps
<1> QED
  BY <1>3, <1>4

LEMMA FenceKeeps ==
  ASSUME BuildInv, NEW code \in Codes, NEW runs \in BOOLEAN, NEW closed \in BOOLEAN,
         Fence(code, runs, closed)
  PROVE  BuildInv'
<1> DEFINE node == Node(IF runs THEN "segment" ELSE "resource", 2,
                        IF closed THEN "fence" ELSE "fenceUnclosed",
                        <<runs, closed>>, code, Current, 0)
<1>1. [type |-> "fence", code |-> code, runs |-> runs, closed |-> closed] \in Block
  BY DEF Block
<1>2. /\ pc = "blocks" /\ pc' = pc /\ form' = form /\ roots' = roots /\ stack' = stack
      /\ docs' \in Seq(Document) /\ docs' # <<>>
      /\ built' = Append(built, node) /\ pending' = pending
  BY <1>1, ParsedKeeps DEF Fence, Parsed
<1>3. Current \in Nat /\ CurrentTier \in Tiers
  BY <1>2, Reading
<1>4. node \in BuiltNode /\ Fit(node) /\ node.parent = Current /\ CurrentTier <= node.tier
  <2>1. <<runs, closed>> \in Names
    BY DEF Names
  <2> QED
    BY <1>3, <2>1 DEF Node, BuiltNode, Fit, Roles, Payloads, Kinds, Tiers
<1> HIDE DEF node
<1> QED
  BY <1>2, <1>4, AddKeeps

\* The first nodes of a document and what is known of its root.
LEMMA BeginSkillKeeps == ASSUME BuildInv, BeginSkill PROVE BuildInv'
<1>1. PICK front \in BOOLEAN, adorned \in BOOLEAN :
        LET root == Node("prose", 0, "root", <<>>, None, IF form = "single" THEN 0 ELSE 1, 0)
            at == Len(built) + 1
            matter == Node("applicability", 0, "frontmatter", <<>>, FrontText, at, 0)
        IN  /\ docs' = Append(docs, [front |-> front, blocks |-> <<>>, adorned |-> adorned])
            /\ built' = built \o (IF front THEN <<root, matter>> ELSE <<root>>)
            /\ roots' = Append(roots, at)
            /\ stack' = <<<<0, at, 0>>>>
  BY DEF BeginSkill
<1> DEFINE root == Node("prose", 0, "root", <<>>, None, IF form = "single" THEN 0 ELSE 1, 0)
           at == Len(built) + 1
           matter == Node("applicability", 0, "frontmatter", <<>>, FrontText, at, 0)
           doc == [front |-> front, blocks |-> <<>>, adorned |-> adorned]
           one == Append(built, root)
           two == Append(one, matter)
<1>2. /\ pc = "skills" /\ pc' = "blocks" /\ form' = form /\ pending' = 0
      /\ Len(docs) < (IF form = "single" THEN 1 ELSE MaxSkills)
      /\ docs' = Append(docs, doc) /\ roots' = Append(roots, at)
      /\ stack' = <<<<0, at, 0>>>>
      /\ built' = built \o (IF front THEN <<root, matter>> ELSE <<root>>)
  BY <1>1 DEF BeginSkill
<1>3. docs' \in Seq(Document) /\ docs' # <<>>
  <2>1. <<>> \in Seq(Block) /\ docs \in Seq(Document)
    BY DEF BuildInv
  <2>2. doc \in Document
    BY <2>1 DEF Document
  <2> HIDE DEF doc
  <2> QED
    BY <1>2, <2>1, <2>2, Appended
<1>4. /\ built \in Seq(BuiltNode) /\ Len(built) \in Nat /\ GoodTree(built)
      /\ built = <<>> <=> Len(built) = 0
      /\ at \in Nat
  BY DEF BuildInv, GoodTree
<1>5. form = "single" => built = <<>>
  BY <1>2 DEF BuildInv
<1>6. /\ root \in BuiltNode /\ Fit(root) /\ root.tier = 0
      /\ root.parent = IF form = "single" THEN 0 ELSE 1
  BY DEF Node, BuiltNode, Fit, Roles, Names, Payloads, Kinds, Tiers
<1>7. /\ matter \in BuiltNode /\ Fit(matter) /\ matter.tier = 0 /\ matter.parent = at
  <2> HIDE DEF at
  <2> QED
    BY <1>4 DEF Node, BuiltNode, Fit, Roles, Names, Payloads, Kinds, Tiers
<1>8. /\ built \o <<root>> = one /\ built \o <<root, matter>> = two
  <2> HIDE DEF root, matter
  <2> QED
    BY <1>4, <1>6, <1>7, ConcatIsAppend
<1>9. built' = IF front THEN two ELSE one
  BY <1>2, <1>8
<1> HIDE DEF root, matter
<1>10. GoodTree(one) /\ Len(one) = at /\ one[at] = root
  <2>1. IF built = <<>> THEN root.tier = 0 /\ root.parent = 0
        ELSE root.parent \in 1 .. Len(built) /\ built[root.parent].tier <= root.tier
    BY <1>4, <1>5, <1>6 DEF GoodTree, BuildInv
  <2> QED
    BY <1>4, <1>6, <2>1, Grows
<1> HIDE DEF one
<1>11. GoodTree(two) /\ Len(two) = at + 1 /\ two[at] = root
  <2>1. one # <<>> /\ matter.parent \in 1 .. Len(one) /\ one[matter.parent].tier <= matter.tier
    BY <1>4, <1>6, <1>7, <1>10 DEF GoodTree
  <2> QED
    BY <1>4, <1>7, <1>10, <2>1, Grows
<1> HIDE DEF two
<1>12. /\ GoodTree(built') /\ at \in 1 .. Len(built') /\ built'[at].tier = 0
       /\ built' # <<>>
  <2>1. CASE front
    BY <1>4, <1>6, <1>9, <1>11, <2>1 DEF GoodTree
  <2>2. CASE ~front
    BY <1>4, <1>6, <1>9, <1>10, <2>2 DEF GoodTree
  <2> QED
    BY <2>1, <2>2
<1> HIDE DEF at
<1>13. Last(roots') = at /\ roots' \in Seq(Nat) /\ roots' # <<>>
  <2>1. roots \in Seq(Nat) /\ at \in Nat
    BY <1>4 DEF BuildInv
  <2>2. /\ Append(roots, at) \in Seq(Nat) /\ Append(roots, at) # <<>>
        /\ Last(Append(roots, at)) = at
    BY ONLY <2>1, Appended
  <2>3. roots' = Append(roots, at)
    BY <1>2
  <2> QED
    BY <2>2, <2>3
<1>14. OpenSections(stack', built')
  <2>1. <<0, at, 0>> \in Nat \X Nat \X Tiers
    BY <1>4 DEF Tiers
  <2> DEFINE e == <<0, at, 0>>
  <2>2. e[2] = at /\ e[3] = 0
    OBVIOUS
  <2> HIDE DEF e
  <2>3. /\ <<e>> \in Seq(Nat \X Nat \X Tiers) /\ <<e>> # <<>> /\ Len(<<e>>) = 1
        /\ <<e>>[1] = e
    BY <2>1 DEF e
  <2>4. stack' = <<e>>
    BY <1>2 DEF e
  <2> QED
    BY <1>12, <2>2, <2>3, <2>4 DEF OpenSections
<1>15. pc' # "refused" /\ form' \in {"single", "bundle", "org"} /\ Waiting'
  BY <1>2 DEF BuildInv, Waiting
<1> QED
  BY <1>2, <1>3, <1>12, <1>13, <1>14, <1>15 DEF BuildInv

LEMMA EndSkillKeeps == ASSUME BuildInv, EndSkill PROVE BuildInv'
<1> DEFINE artifact == Node("binding", 1, "artifact", <<"artifact">>, ArtifactText,
                            Last(roots), 0)
           gate == Node("contract", 1, "gate", <<"gate">>, GateText, Last(roots), 0)
           one == Append(built, artifact)
           two == Append(one, gate)
<1>1. /\ pc = "blocks" /\ pc' = "skills" /\ form' = form /\ docs' = docs /\ roots' = roots
      /\ built' = built \o (IF Doc.adorned THEN <<artifact, gate>> ELSE <<>>)
  BY DEF EndSkill, source
<1>2. /\ built \in Seq(BuiltNode) /\ Len(built) \in Nat /\ GoodTree(built)
      /\ docs # <<>> /\ built # <<>>
      /\ Last(roots) \in 1 .. Len(built) /\ built[Last(roots)].tier = 0
  BY <1>1, Reading DEF BuildInv
<1>3. /\ artifact \in BuiltNode /\ Fit(artifact) /\ artifact.tier = 1
      /\ artifact.parent = Last(roots)
      /\ gate \in BuiltNode /\ Fit(gate) /\ gate.tier = 1 /\ gate.parent = Last(roots)
  <2>1. Last(roots) \in Nat
    BY <1>2
  <2> QED
    BY <2>1 DEF Node, BuiltNode, Fit, Roles, Names, Payloads, Kinds, Tiers
<1> HIDE DEF artifact, gate
<1>4. built \o <<artifact, gate>> = two /\ built \o <<>> = built
  BY <1>2, <1>3, ConcatIsAppend
<1>5. /\ GoodTree(one) /\ Len(one) = Len(built) + 1
      /\ one[Last(roots)].tier = 0
  BY <1>2, <1>3, Grows
<1> HIDE DEF one
<1>6. GoodTree(two) /\ Len(two) = Len(built) + 2
  <2>1. one # <<>> /\ Last(roots) \in 1 .. Len(one)
    BY <1>2, <1>5 DEF GoodTree
  <2> QED
    BY <1>2, <1>3, <1>5, <2>1, Grows
<1> HIDE DEF two
<1>7. GoodTree(built') /\ built' # <<>>
  <2>1. two # <<>>
    BY <1>2, <1>6 DEF GoodTree
  <2>2. built' = two \/ built' = built
    BY <1>1, <1>4
  <2> QED
    BY <1>2, <1>6, <2>1, <2>2
<1> QED
  BY <1>1, <1>2, <1>7 DEF BuildInv

\* A nonempty set of numbers has a smallest one.
LEMMA Smallest == ASSUME NEW S, S \subseteq Nat, S # {} PROVE \E x \in S : \A y \in S : x <= y
<1>1. PICK x \in S : \A y \in S : ~ (<<y, x>> \in OpToRel(<, Nat))
  BY NatLessThanWellFounded, WFMin
<1>2. \A y \in S : ~ (y < x)
  BY <1>1 DEF OpToRel
<1> QED
  BY <1>2

\* The stack of a turn: the last node off, its children on, the first of them last.
Turned(t, kids) == Front(t) \o Reverse(kids)

\* Popping a node and stacking its children, last to first.
LEMMA PopAndStack ==
  ASSUME NEW D, NEW t \in Seq(D), NEW kids \in Seq(D), t # <<>>
  PROVE  /\ Turned(t, kids) \in Seq(D) /\ Len(t) \in Nat /\ Len(t) >= 1 /\ Len(kids) \in Nat
         /\ Len(Turned(t, kids)) = Len(t) - 1 + Len(kids)
         /\ \A k \in 1 .. Len(t) - 1 : Turned(t, kids)[k] = t[k]
         /\ \A k \in Len(t) .. Len(Turned(t, kids)) :
              Turned(t, kids)[k] = kids[Len(t) + Len(kids) - k]
<1> DEFINE front == SubSeq(t, 1, Len(t) - 1)
           back == Reverse(kids)
           t2 == Turned(t, kids)
<1>1. Len(t) \in Nat /\ Len(t) >= 1 /\ Len(kids) \in Nat
  OBVIOUS
<1>2. /\ front \in Seq(D) /\ Len(front) = Len(t) - 1
      /\ \A k \in 1 .. Len(t) - 1 : front[k] = t[k]
  <2>1. t \in Seq(D) /\ 1 \in 1 .. Len(t) + 1 /\ Len(t) - 1 \in 0 .. Len(t)
    BY <1>1
  <2>2. front = [k \in 1 .. Len(t) - 1 |-> t[k]]
    BY ONLY <1>1, <2>1
  <2>3. \A k \in 1 .. Len(t) - 1 : t[k] \in D
    BY <1>1
  <2> HIDE DEF front
  <2>4. front \in [1 .. Len(t) - 1 -> D]
    BY <2>2, <2>3
  <2> QED
    BY <1>1, <2>2, <2>4
<1>3. /\ back \in Seq(D) /\ Len(back) = Len(kids)
      /\ \A k \in 1 .. Len(kids) : back[k] = kids[Len(kids) - k + 1]
  <2>1. back = [k \in 1 .. Len(kids) |-> kids[Len(kids) - k + 1]]
    BY DEF Reverse
  <2>2. \A k \in 1 .. Len(kids) : Len(kids) - k + 1 \in 1 .. Len(kids)
    BY <1>1
  <2>3. \A k \in 1 .. Len(kids) : kids[Len(kids) - k + 1] \in D
    BY <1>1, <2>2
  <2> HIDE DEF back
  <2>4. back \in [1 .. Len(kids) -> D]
    BY <2>1, <2>3
  <2> QED
    BY <1>1, <2>1, <2>4
<1>4. t2 = front \o back
  BY DEF Turned, Front
<1> HIDE DEF front, back, t2
<1>5. /\ t2 \in Seq(D) /\ Len(t2) = Len(front) + Len(back)
      /\ \A k \in 1 .. Len(front) : t2[k] = front[k]
      /\ \A k \in Len(front) + 1 .. Len(front) + Len(back) : t2[k] = back[k - Len(front)]
  <2>1. front \in Seq(D) /\ back \in Seq(D)
    BY <1>2, <1>3
  <2> QED
    BY ONLY <1>4, <2>1
<1>6. ASSUME NEW k \in Len(t) .. Len(t2)
      PROVE  t2[k] = kids[Len(t) + Len(kids) - k]
  <2>1. /\ k \in Len(front) + 1 .. Len(front) + Len(back)
        /\ k - Len(front) \in 1 .. Len(kids)
        /\ Len(kids) - (k - Len(front)) + 1 = Len(t) + Len(kids) - k
    BY <1>1, <1>2, <1>3, <1>5
  <2> QED
    BY <1>3, <1>5, <2>1
<1>7. Len(t2) = Len(t) - 1 + Len(kids) /\ \A k \in 1 .. Len(t) - 1 : t2[k] = t[k]
  BY <1>2, <1>3, <1>5
<1> QED
  BY ONLY <1>1, <1>5, <1>6, <1>7 DEF t2

\* The members of a set of numbers from the least to the greatest.
LEMMA AscendingLists ==
  ASSUME NEW S, S \subseteq Nat, IsFiniteSet(S)
  PROVE  /\ Ascending(S) \in Seq(S)
         /\ \A k, m \in 1 .. Len(Ascending(S)) : k < m => Ascending(S)[k] < Ascending(S)[m]
         /\ \A c \in S : \E k \in 1 .. Len(Ascending(S)) : Ascending(S)[k] = c
<1> DEFINE n == Cardinality(S)
           Before(c) == Cardinality({d \in S : d < c})
           rank == [c \in S |-> Before(c)]
           ranks == 0 .. n-1
           At(k) == CHOOSE c \in S : Before(c) = k - 1
<1>1. n \in Nat
  BY FS_CardinalityType
<1>2. ASSUME NEW c \in S
      PROVE  Before(c) \in ranks
  <2> DEFINE less == {d \in S : d < c}
  <2>1. less \in SUBSET S /\ less # S
    OBVIOUS
  <2>2. IsFiniteSet(less) /\ Cardinality(less) <= n /\ n # Cardinality(less)
    <3> HIDE DEF less
    <3> QED
      BY <2>1, FS_Subset
  <2>3. Cardinality(less) \in Nat
    BY <2>2, FS_CardinalityType
  <2> QED
    BY <1>1, <2>2, <2>3
<1>a. ASSUME NEW x \in S, NEW y \in S, x < y
      PROVE  Before(x) < Before(y)
  <2> DEFINE lessX == {e \in S : e < x}
             lessY == {e \in S : e < y}
  <2>1. lessX \in SUBSET lessY /\ lessX # lessY /\ lessY \in SUBSET S
    <3>1. x \in lessY /\ x \notin lessX
      BY <1>a
    <3>2. \A e \in S : e < x => e < y
      BY <1>a
    <3> QED
      BY <3>1, <3>2
  <2>2. Cardinality(lessX) \in Nat /\ Cardinality(lessY) \in Nat
        /\ Cardinality(lessX) <= Cardinality(lessY) /\ Cardinality(lessX) # Cardinality(lessY)
    <3> HIDE DEF lessX, lessY
    <3>1. IsFiniteSet(lessY)
      BY <2>1, FS_Subset
    <3> QED
      BY <2>1, <3>1, FS_Subset, FS_CardinalityType
  <2> DEFINE m == Cardinality(lessX)
             k == Cardinality(lessY)
  <2>3. m \in Nat /\ k \in Nat /\ m <= k /\ m # k
    BY <2>2
  <2> HIDE DEF m, k
  <2>4. m < k
    BY ONLY <2>3
  <2> QED
    BY <2>4 DEF m, k
<1>3. ASSUME NEW c \in S, NEW d \in S, Before(c) = Before(d)
      PROVE  c = d
  <2>1. c \in Nat /\ d \in Nat
    OBVIOUS
  <2>2. Before(c) \in Nat /\ ~ (Before(c) < Before(d)) /\ ~ (Before(d) < Before(c))
    <3>1. Before(c) \in Nat
      BY <1>1, <1>2
    <3> HIDE DEF Before
    <3> QED
      BY <1>3, <3>1
  <2>3. ~ (c < d) /\ ~ (d < c)
    <3> HIDE DEF Before
    <3> QED
      BY <1>a, <2>2
  <2> QED
    BY <2>1, <2>3
<1>4. rank \in [S -> ranks] /\ \A c \in S : rank[c] = Before(c)
  BY <1>2
<1> HIDE DEF Before, rank
<1>5. rank \in Surjection(S, ranks)
  <2>1. rank \in Injection(S, ranks)
    <3> HIDE DEF ranks
    <3> QED
      BY <1>3, <1>4 DEF Injection, IsInjective
  <2>2. IsFiniteSet(ranks) /\ Cardinality(ranks) = n
    <3> HIDE DEF n
    <3>1. n - 1 \in Int /\ 0 \in Int
      BY <1>1
    <3>2. IsFiniteSet(0 .. n-1) /\ Cardinality(0 .. n-1) = IF 0 > n-1 THEN 0 ELSE n-1 - 0 + 1
      BY ONLY <3>1, FS_Interval
    <3> QED
      BY <1>1, <3>2
  <2> HIDE DEF ranks
  <2> QED
    BY <2>1, <2>2, FS_Injection
<1>6. ASSUME NEW k \in 1 .. n
      PROVE  At(k) \in S /\ Before(At(k)) = k - 1
  <2>1. k - 1 \in ranks
    BY <1>1
  <2>2. \E c \in S : Before(c) = k - 1
    BY <1>4, <1>5, <2>1 DEF Surjection
  <2> QED
    BY <2>2
<1>7. Ascending(S) = [k \in 1 .. n |-> At(k)]
  BY DEF Ascending, Before
<1> HIDE DEF At, n
<1>8. /\ Ascending(S) \in Seq(S) /\ Len(Ascending(S)) = n
      /\ \A k \in 1 .. n : Ascending(S)[k] = At(k)
  <2>1. Ascending(S) \in [1 .. n -> S]
    BY <1>6, <1>7
  <2> QED
    BY <1>1, <1>7, <2>1
<1>9. ASSUME NEW c \in S PROVE \E k \in 1 .. n : At(k) = c
  <2> DEFINE k == Before(c) + 1
  <2>1. k \in 1 .. n /\ Before(c) = k - 1
    BY <1>1, <1>2
  <2> HIDE DEF k
  <2>2. At(k) \in S /\ Before(At(k)) = Before(c)
    BY <1>6, <2>1
  <2>3. At(k) = c
    BY <1>3, <2>2
  <2> QED
    BY <2>1, <2>3
<1>10. ASSUME NEW k \in 1 .. n, NEW m \in 1 .. n, k < m PROVE At(k) < At(m)
  <2>1. At(k) \in S /\ At(m) \in S /\ Before(At(k)) = k - 1 /\ Before(At(m)) = m - 1
    BY <1>6
  <2>2. ~ (At(m) < At(k))
    <3>1. ~ (m - 1 < k - 1)
      BY <1>1, <1>10
    <3> QED
      BY <1>a, <2>1, <3>1
  <2>3. At(m) # At(k)
    <3>1. m - 1 # k - 1
      BY <1>1, <1>10
    <3> QED
      BY <2>1, <3>1
  <2>4. At(k) \in Nat /\ At(m) \in Nat
    BY <2>1
  <2> QED
    BY <2>2, <2>3, <2>4
<1> QED
  BY <1>8, <1>9, <1>10

\* The equation RootPath is defined by has a solution.
LEMMA PathsExist ==
  ASSUME NEW n \in Nat, NEW up, \A i \in 1 .. n : up[i] = 0 \/ up[i] \in 1 .. i-1
  PROVE  \E p : p = [i \in 1 .. n |-> {i} \cup (IF up[i] = 0 THEN {} ELSE p[up[i]])]
<1> DEFINE Follows(p, k) ==
             \A i \in 1 .. k : p[i] = {i} \cup (IF up[i] = 0 THEN {} ELSE p[up[i]])
           Without == {k \in 0 .. n : ~ \E p : Follows(p, k)}
<1>1. Without = {}
  <2> SUFFICES ASSUME Without # {} PROVE FALSE
    OBVIOUS
  <2>1. PICK k \in Without : \A m \in Without : k <= m
    <3>1. Without \subseteq Nat
      OBVIOUS
    <3> HIDE DEF Without
    <3> QED
      BY <3>1, Smallest
  <2>2. k \in 0 .. n /\ ~ \E p : Follows(p, k)
    BY <2>1
  <2>3. k # 0
    <3>1. \A p : Follows(p, 0)
      OBVIOUS
    <3> HIDE DEF Follows
    <3> QED
      BY <2>2, <3>1
  <2>4. k - 1 \in 0 .. n /\ k - 1 \notin Without
    <3>1. k \in Nat /\ k - 1 \in 0 .. n /\ ~ (k <= k - 1)
      BY <2>2, <2>3
    <3> HIDE DEF Without
    <3> QED
      BY <2>1, <3>1
  <2>5. PICK p : Follows(p, k-1)
    <3> HIDE DEF Follows
    <3> QED
      BY <2>4
  <2> DEFINE q == [i \in 1 .. k |->
                     {i} \cup (IF up[i] = 0 THEN {} ELSE p[up[i]])]
  <2>6. ASSUME NEW i \in 1 .. k
        PROVE  q[i] = {i} \cup (IF up[i] = 0 THEN {} ELSE q[up[i]])
    <3>1. CASE up[i] = 0
      BY <3>1
    <3>2. CASE up[i] # 0
      <4>1. up[i] \in 1 .. i-1 /\ up[i] \in 1 .. k-1 /\ up[i] \in 1 .. k
        BY <2>2, <3>2
      <4> DEFINE j == up[i]
      <4>2. p[j] = {j} \cup (IF up[j] = 0 THEN {} ELSE p[up[j]])
        BY <2>5, <4>1
      <4>3. q[j] = {j} \cup (IF up[j] = 0 THEN {} ELSE p[up[j]])
        BY <4>1
      <4>4. q[i] = {i} \cup p[j]
        BY <3>2
      <4> QED
        BY <3>2, <4>2, <4>3, <4>4
    <3> QED
      BY <3>1, <3>2
  <2> HIDE DEF q
  <2>7. Follows(q, k)
    BY <2>6
  <2> HIDE DEF Follows
  <2> QED
    BY <2>2, <2>7
<1>2. PICK p : Follows(p, n)
  <2>1. n \notin Without
    <3> HIDE DEF Without
    <3> QED
      BY <1>1
  <2>2. n \in 0 .. n
    OBVIOUS
  <2> HIDE DEF Follows
  <2> QED
    BY <2>1, <2>2
<1> DEFINE q == [i \in 1 .. n |-> p[i]]
<1>3. ASSUME NEW i \in 1 .. n
      PROVE  q[i] = {i} \cup (IF up[i] = 0 THEN {} ELSE q[up[i]])
  <2>1. up[i] # 0 => up[i] \in 1 .. n
    OBVIOUS
  <2> QED
    BY <1>2, <2>1
<1>4. q = [i \in 1 .. n |-> {i} \cup (IF up[i] = 0 THEN {} ELSE q[up[i]])]
  <2>1. q = [i \in 1 .. n |-> q[i]]
    OBVIOUS
  <2> HIDE DEF q
  <2> QED
    BY <1>3, <2>1
<1> HIDE DEF q
<1> QED
  BY <1>4

\* Steps that leave the builder alone.
LEMMA OthersKeep ==
  ASSUME BuildInv, UNCHANGED <<form, docs, built, roots, stack, pending>>,
         pc' = pc \/ pc' \in {"visit", "open", "render", "printed"}
  PROVE  BuildInv'
<1>1. CASE pc' = pc
  BY <1>1 DEF BuildInv, Waiting, Current
<1>2. CASE pc' \in {"visit", "open", "render", "printed"}
  BY <1>2 DEF BuildInv
<1> QED
  BY <1>1, <1>2

LEMMA BuildInvInit == Init => BuildInv
<1> SUFFICES ASSUME Init PROVE BuildInv
  OBVIOUS
<1>1. form \in {"single", "bundle", "org"} /\ docs = <<>> /\ pc = "skills" /\ roots = <<>>
  BY CompileAssumption DEF Init
<1>2. Synthetic \in BuiltNode /\ Charter \in BuiltNode
  BY DEF Synthetic, Charter, Node, BuiltNode, Roles, Names, Payloads, Kinds, Tiers
<1>3. /\ Synthetic.tier = 0 /\ Synthetic.payload = None /\ Synthetic.parent = 0
      /\ Charter.tier = 0 /\ Charter.payload = None /\ Charter.parent = 1
  BY DEF Synthetic, Charter, Node
<1>4. CASE form = "single"
  <2>1. built = <<>>
    BY <1>4 DEF Init
  <2> QED
    BY <1>1, <1>4, <2>1 DEF BuildInv, GoodTree
<1>5. CASE form = "bundle"
  <2>1. built = <<Synthetic>>
    BY <1>5 DEF Init
  <2>2. GoodTree(built) /\ built # <<>>
    BY <1>2, <1>3, <2>1 DEF GoodTree, Fit
  <2> QED
    BY <1>1, <1>5, <2>2 DEF BuildInv
<1>6. CASE form = "org"
  <2>1. built = <<Synthetic, Charter>>
    BY <1>6 DEF Init
  <2>2. GoodTree(built) /\ built # <<>>
    BY <1>2, <1>3, <2>1 DEF GoodTree, Fit
  <2> QED
    BY <1>1, <1>6, <2>2 DEF BuildInv
<1> QED
  BY <1>1, <1>4, <1>5, <1>6

-----------------------------------------------------------------------------
(***************************************************************************)
(* The shape of the tree                                                   *)
(***************************************************************************)
\* What emit_at prints without looking at its children.
Leaf(node) == node.role \in {"frontmatter", "fence", "fenceUnclosed"} \/ node.kind = "segment"

\* No leaf has a child, and between a node and its parent in the list are only
\* nodes that are below that parent: the list is in pre-order.
Nests(b) ==
  \A k \in 2 .. Len(b) :
    /\ ~ Leaf(b[b[k].parent])
    /\ \A j \in b[k].parent + 1 .. k-1 : b[j].parent >= b[k].parent

\* Node n can be given another child at the end of the list.
Growing(b, n) ==
  /\ n \in 1 .. Len(b) /\ ~ Leaf(b[n])
  /\ \A j \in n+1 .. Len(b) : b[j].parent >= n

\* The last node of document d, when its root is rts[d].
LastOf(b, rts, d) == IF d = Len(rts) THEN Len(b) ELSE rts[d+1] - 1

\* The nodes below r are those that follow it up to e.
Spans(b, r, e) == \A k \in 1 .. Len(b) : b[k].parent \in r .. e <=> k \in r+1 .. e

Bare(node) == node.role = "root" /\ node.payload = None /\ node.depth = 0 /\ node.kind = "prose"

\* Each document has a root that prints nothing, and a part of the list.
Rooted(b, rts) ==
  /\ rts \in Seq(Nat)
  /\ \A d \in 1 .. Len(rts) :
       /\ rts[d] \in 1 .. Len(b) /\ Bare(b[rts[d]])
       /\ d < Len(rts) => rts[d] < rts[d+1]
       /\ Spans(b, rts[d], LastOf(b, rts, d))

\* The open sections are each in the one before, and can all be given children.
Chained(s, b) ==
  /\ \A i \in 1 .. Len(s) : Growing(b, s[i][2])
  /\ \A i, m \in 1 .. Len(s) : i < m => s[i][2] < s[m][2]

\* The node that waits for a payload is a heading's; while no fence follows it is
\* the last of all.
Filling ==
  pending # 0 =>
    /\ built[pending].role = "section" /\ built[pending].depth > 0
    /\ built[pending].kind # "segment"
    /\ ~ fenced => pending = Len(built) /\ built[pending].payload = None

ShapeInv ==
  /\ pc \in {"skills", "blocks", "visit", "open", "render", "printed"}
  /\ pending \in 0 .. Len(built) /\ fenced \in BOOLEAN
  /\ Nests(built)
  /\ form # "single" => Growing(built, 1) /\ \A d \in 1 .. Len(roots) : roots[d] # 1
  /\ Len(roots) = Len(docs)
  /\ Rooted(built, roots)
  /\ pc = "blocks" => Chained(stack, built) /\ stack[1][2] = Last(roots) /\ Filling

\* c is b with node at its end.
Grown(b, node, c) ==
  /\ b \in Seq(BuiltNode) /\ c \in Seq(BuiltNode) /\ node \in BuiltNode
  /\ Len(b) \in Nat /\ Len(c) = Len(b) + 1 /\ c[Len(b) + 1] = node
  /\ \A k \in 1 .. Len(b) : c[k] = b[k]
  /\ \A k \in 2 .. Len(b) : b[k].parent \in 1 .. k-1
  /\ \A k \in 1 .. Len(b) : b[k].parent \in 0 .. k-1
  /\ node.parent \in Nat

LEMMA GrownTree ==
  ASSUME NEW b, GoodTree(b), NEW node \in BuiltNode
  PROVE  Grown(b, node, Append(b, node))
<1>1. b \in Seq(BuiltNode)
  BY DEF GoodTree
<1>2. /\ Append(b, node) \in Seq(BuiltNode) /\ Len(b) \in Nat
      /\ Len(Append(b, node)) = Len(b) + 1 /\ Append(b, node)[Len(b) + 1] = node
      /\ \A k \in 1 .. Len(b) : Append(b, node)[k] = b[k]
  BY <1>1
<1>3. \A k \in 1 .. Len(b) : b[k].parent \in 0 .. k-1
  <2>1. b # <<>> => b[1].parent = 0
    BY DEF GoodTree
  <2>2. \A k \in 2 .. Len(b) : b[k].parent \in 1 .. k-1
    BY DEF GoodTree
  <2>3. Len(b) = 0 <=> b = <<>>
    BY <1>1
  <2> QED
    BY <1>2, <2>1, <2>2, <2>3
<1>4. node.parent \in Nat
  BY DEF BuiltNode
<1> QED
  BY <1>1, <1>2, <1>3, <1>4 DEF Grown, GoodTree

\* A node added below one that can grow keeps the list in pre-order.
LEMMA GrownNests ==
  ASSUME NEW b, NEW node, NEW c, Grown(b, node, c), Nests(b),
         b = <<>> \/ Growing(b, node.parent)
  PROVE  Nests(c)
<1> DEFINE M == Len(b)
<1>1. /\ M \in Nat /\ Len(c) = M + 1 /\ c[M + 1] = node
      /\ \A k \in 1 .. M : c[k] = b[k]
      /\ \A k \in 2 .. M : b[k].parent \in 1 .. k-1
      /\ b = <<>> => M = 0
  BY DEF Grown
<1>2. /\ \A k \in 2 .. M : ~ Leaf(b[b[k].parent])
      /\ \A k \in 2 .. M : \A j \in b[k].parent + 1 .. k-1 : b[j].parent >= b[k].parent
  BY DEF Nests
<1>3. M # 0 => /\ node.parent \in 1 .. M /\ ~ Leaf(b[node.parent])
               /\ \A j \in node.parent + 1 .. M : b[j].parent >= node.parent
  BY <1>1 DEF Growing
<1> HIDE DEF M
<1> SUFFICES ASSUME NEW k \in 2 .. M + 1
    PROVE  /\ ~ Leaf(c[c[k].parent])
           /\ \A j \in c[k].parent + 1 .. k-1 : c[j].parent >= c[k].parent
  BY <1>1 DEF Nests
<1>4. CASE k = M + 1
  <2>1. M # 0 /\ c[k] = node /\ node.parent \in 1 .. M
    BY ONLY <1>1, <1>3, <1>4, k \in 2 .. M + 1
  <2>2. \A j \in node.parent + 1 .. k-1 : j \in 1 .. M /\ c[j] = b[j]
    BY ONLY <1>1, <1>4, <2>1
  <2>3. k - 1 = M
    BY ONLY <1>1, <1>4
  <2> QED
    BY ONLY <1>1, <1>3, <2>1, <2>2, <2>3
<1>5. CASE k # M + 1
  <2>1. k \in 2 .. M /\ k \in 1 .. M
    BY ONLY <1>1, <1>5, k \in 2 .. M + 1
  <2>2. c[k] = b[k] /\ b[k].parent \in 1 .. k-1 /\ b[k].parent \in 1 .. M
    BY ONLY <1>1, <2>1
  <2>3. \A j \in b[k].parent + 1 .. k-1 : j \in 1 .. M /\ c[j] = b[j]
    BY ONLY <1>1, <2>1, <2>2
  <2> QED
    BY ONLY <1>1, <1>2, <2>1, <2>2, <2>3
<1> QED
  BY <1>4, <1>5

\* It leaves what is at or above its parent growing.
LEMMA GrownGrowing ==
  ASSUME NEW b, NEW node, NEW c, Grown(b, node, c),
         NEW n, Growing(b, n), node.parent >= n
  PROVE  Growing(c, n)
<1> DEFINE M == Len(b)
<1>1. /\ M \in Nat /\ Len(c) = M + 1 /\ c[M + 1] = node
      /\ \A k \in 1 .. M : c[k] = b[k]
  BY DEF Grown
<1>2. n \in 1 .. M /\ ~ Leaf(b[n]) /\ \A j \in n+1 .. M : b[j].parent >= n
  BY DEF Growing
<1> HIDE DEF M
<1>3. ASSUME NEW j \in n+1 .. M + 1 PROVE c[j].parent >= n
  <2>1. CASE j = M + 1
    BY ONLY <1>1, <2>1, node.parent >= n
  <2>2. CASE j # M + 1
    <3>1. j \in n+1 .. M /\ j \in 1 .. M
      BY ONLY <1>1, <1>2, <1>3, <2>2
    <3> QED
      BY ONLY <1>1, <1>2, <3>1
  <2> QED
    BY <2>1, <2>2
<1>4. n \in 1 .. M + 1 /\ c[n] = b[n]
  BY ONLY <1>1, <1>2
<1> QED
  BY ONLY <1>1, <1>2, <1>3, <1>4 DEF Growing

\* The last node can be given a child, unless it is a leaf.
LEMMA LastGrowing ==
  ASSUME NEW b, NEW node, NEW c, Grown(b, node, c), ~ Leaf(node)
  PROVE  Growing(c, Len(b) + 1)
BY DEF Grown, Growing

\* The roots are in the order of their documents.
LEMMA RootsRise ==
  ASSUME NEW b, NEW rts, Rooted(b, rts), Len(b) \in Nat
  PROVE  \A d \in 1 .. Len(rts) : rts[d] <= rts[Len(rts)]
<1> DEFINE M == Len(b)
           R == Len(rts)
<1>a. M \in Nat
  OBVIOUS
<1>b. R \in Nat /\ rts \in Seq(Nat)
  BY DEF Rooted
<1>c. \A d \in 1 .. R : rts[d] \in 1 .. M /\ (d < R => rts[d] < rts[d+1])
  BY DEF Rooted
<1> DEFINE Bad == {d \in Nat : d < R /\ ~ (rts[R - d] <= rts[R])}
<1>1. Bad = {}
  <2> SUFFICES ASSUME Bad # {} PROVE FALSE
    OBVIOUS
  <2>1. PICK x \in Bad : \A y \in Bad : x <= y
    <3>1. Bad \subseteq Nat
      OBVIOUS
    <3> HIDE DEF Bad
    <3> QED
      BY <3>1, Smallest
  <2> HIDE DEF R
  <2>2. x \in Nat /\ x < R /\ ~ (rts[R - x] <= rts[R])
    BY <2>1
  <2>3. x # 0
    <3>1. rts[R] \in 1 .. M
      BY <1>b, <1>c
    <3> QED
      BY <1>b, <2>2, <3>1
  <2>4. x - 1 \in Nat /\ x - 1 < R /\ R - (x - 1) = R - x + 1
    BY <1>b, <2>2, <2>3
  <2>5. x - 1 \notin Bad
    <3> HIDE DEF Bad
    <3> QED
      BY <2>1, <2>2, <2>4
  <2>6. rts[R - x + 1] <= rts[R]
    BY <2>4, <2>5
  <2>7. R - x \in 1 .. R /\ R - x < R /\ R - x + 1 \in 1 .. R /\ R \in 1 .. R
    BY <1>b, <2>2, <2>3
  <2>8. rts[R - x] < rts[R - x + 1]
    BY <1>c, <2>7
  <2>9. rts[R-x] \in 1 .. M /\ rts[R-x+1] \in 1 .. M /\ rts[R] \in 1 .. M
    BY <1>c, <2>7
  <2> QED
    BY <2>2, <2>6, <2>8, <2>9
<1> HIDE DEF R
<1>2. ASSUME NEW d \in 1 .. R PROVE rts[d] <= rts[R]
  <2>1. R - d \in Nat /\ R - d < R /\ R - (R - d) = d
    BY <1>b
  <2> QED
    BY <1>1, <2>1
<1> QED
  BY <1>2 DEF R

\* The documents keep their parts, and the last one has the new node.
LEMMA GrownRooted ==
  ASSUME NEW b, NEW node, NEW c, Grown(b, node, c), NEW rts, Rooted(b, rts), rts # <<>>,
         rts[Len(rts)] <= node.parent, node.parent \in 1 .. Len(b)
  PROVE  Rooted(c, rts)
<1> DEFINE M == Len(b)
           R == Len(rts)
<1>1. /\ M \in Nat /\ Len(c) = M + 1 /\ c[M + 1] = node
      /\ \A k \in 1 .. M : c[k] = b[k]
      /\ \A k \in 1 .. M : b[k].parent \in 0 .. k-1
      /\ \A k \in 2 .. M : b[k].parent \in 1 .. k-1
  BY DEF Grown
<1>m. M \in Nat
  BY <1>1
<1>2. R \in Nat /\ R >= 1 /\ rts \in Seq(Nat)
  BY DEF Rooted
<1>3. \A d \in 1 .. R : rts[d] \in 1 .. M /\ Bare(b[rts[d]])
                        /\ (d < R => rts[d] < rts[d+1])
  BY DEF Rooted
<1>4. \A d \in 1 .. R : Spans(b, rts[d], LastOf(b, rts, d))
  BY DEF Rooted
<1>5. \A d \in 1 .. R : rts[d] <= rts[R]
  BY <1>1, RootsRise
<1> HIDE DEF M, R
<1>6. rts[R] <= node.parent /\ node.parent \in 1 .. M
  BY DEF M, R
<1>7. ASSUME NEW d \in 1 .. R PROVE Spans(c, rts[d], LastOf(c, rts, d))
  <2> DEFINE r == rts[d]
             e == LastOf(b, rts, d)
             f == LastOf(c, rts, d)
  <2>1. \A k \in 1 .. M : b[k].parent \in r .. e <=> k \in r+1 .. e
    BY <1>4 DEF Spans, M
  <2>2. r \in 1 .. M
    BY <1>3
  <2>3. CASE d = R
    <3>1. e = M /\ f = M + 1 /\ r = rts[R]
      BY <1>1, <2>3 DEF LastOf, R, M
    <3> HIDE DEF r, e, f
    <3>2. ASSUME NEW k \in 1 .. M + 1
          PROVE  c[k].parent \in r .. M + 1 <=> k \in r+1 .. M + 1
      <4>1. CASE k = M + 1
        BY ONLY <1>1, <1>6, <2>2, <3>1, <4>1
      <4>2. CASE k # M + 1
        <5>1. k \in 1 .. M
          BY ONLY <1>m, <3>2, <4>2
        <5> DEFINE x == b[k].parent
        <5>2. c[k].parent = x /\ x \in 0 .. k-1
          BY ONLY <1>1, <5>1
        <5>3. x \in r .. e <=> k \in r+1 .. e
          BY ONLY <2>1, <5>1
        <5>4. e = M /\ r \in 1 .. M
          BY ONLY <2>2, <3>1
        <5> HIDE DEF x
        <5>5. x \in r .. M + 1 <=> k \in r+1 .. M + 1
          BY ONLY <1>m, <5>1, <5>2, <5>3, <5>4
        <5> QED
          BY ONLY <5>2, <5>5
      <4> QED
        BY <4>1, <4>2
    <3> QED
      BY ONLY <1>1, <3>1, <3>2 DEF Spans, r, f
  <2>4. CASE d # R
    <3>1. e = rts[d+1] - 1 /\ f = rts[d+1] - 1 /\ d+1 \in 1 .. R
      BY <1>2, <2>4 DEF LastOf, R
    <3>2. rts[d+1] \in 1 .. M /\ rts[d+1] <= rts[R]
      BY <1>3, <1>5, <3>1
    <3>3. rts[R] \in 1 .. M
      BY <1>2, <1>3
    <3> HIDE DEF r, e, f
    <3>4. ASSUME NEW k \in 1 .. M + 1
          PROVE  c[k].parent \in r .. f <=> k \in r+1 .. f
      <4>1. CASE k = M + 1
        <5> DEFINE x == node.parent
                   q == rts[d+1]
                   z == rts[R]
        <5>1. c[k].parent = x
          BY ONLY <1>1, <4>1
        <5>2. z <= x /\ x \in 1 .. M /\ q \in 1 .. M /\ q <= z /\ z \in 1 .. M /\ f = q - 1
          BY ONLY <1>6, <3>1, <3>2, <3>3
        <5> HIDE DEF x, q, z
        <5>3. ~ (x \in r .. f) /\ ~ (k \in r+1 .. f)
          BY ONLY <1>m, <2>2, <4>1, <5>2
        <5> QED
          BY ONLY <5>1, <5>3
      <4>2. CASE k # M + 1
        <5>1. k \in 1 .. M /\ c[k] = b[k]
          BY ONLY <1>1, <3>4, <4>2
        <5> QED
          BY ONLY <2>1, <3>1, <5>1
      <4> QED
        BY <4>1, <4>2
    <3> QED
      BY ONLY <1>1, <3>4 DEF Spans, r, f
  <2> QED
    BY <2>3, <2>4
<1>8. ASSUME NEW d \in 1 .. R PROVE rts[d] \in 1 .. M + 1 /\ Bare(c[rts[d]])
  <2>1. rts[d] \in 1 .. M /\ Bare(b[rts[d]])
    BY <1>3
  <2>2. c[rts[d]] = b[rts[d]]
    BY <1>1, <2>1
  <2> QED
    BY <1>1, <2>1, <2>2
<1> QED
  BY ONLY <1>1, <1>2, <1>3, <1>7, <1>8 DEF Rooted, R

\* The root of a new document is added, below no node of another.
LEMMA NewRooted ==
  ASSUME NEW b, NEW node, NEW c, Grown(b, node, c), NEW rts, Rooted(b, rts),
         Bare(node), node.parent <= Len(b), \A d \in 1 .. Len(rts) : node.parent < rts[d]
  PROVE  Rooted(c, Append(rts, Len(b) + 1))
<1> DEFINE M == Len(b)
           R == Len(rts)
           new == Append(rts, Len(b) + 1)
<1>1. /\ M \in Nat /\ Len(c) = M + 1 /\ c[M + 1] = node
      /\ \A k \in 1 .. M : c[k] = b[k]
      /\ \A k \in 1 .. M : b[k].parent \in 0 .. k-1
      /\ node.parent \in Nat
  BY DEF Grown
<1>a. node.parent <= M
  OBVIOUS
<1>2. R \in Nat /\ rts \in Seq(Nat)
  BY DEF Rooted
<1>3. /\ new \in Seq(Nat) /\ Len(new) = R + 1 /\ new[R + 1] = M + 1
      /\ \A d \in 1 .. R : new[d] = rts[d]
  BY <1>1, <1>2
<1>4. \A d \in 1 .. R : rts[d] \in 1 .. M /\ Bare(b[rts[d]])
                        /\ (d < R => rts[d] < rts[d+1])
  BY DEF Rooted
<1>5. \A d \in 1 .. R : Spans(b, rts[d], LastOf(b, rts, d))
  BY DEF Rooted
<1>6. \A d \in 1 .. R : node.parent < rts[d]
  OBVIOUS
<1> HIDE DEF new, R, M
<1>7. ASSUME NEW d \in 1 .. R + 1
      PROVE  new[d] \in 1 .. M + 1 /\ Bare(c[new[d]]) /\ (d < R + 1 => new[d] < new[d+1])
  <2>1. CASE d = R + 1
    <3>1. new[d] = M + 1 /\ c[new[d]] = node /\ ~ (d < R + 1)
      BY <1>1, <1>2, <1>3, <2>1
    <3> QED
      BY <1>1, <3>1
  <2>2. CASE d # R + 1
    <3>1. d \in 1 .. R /\ new[d] = rts[d] /\ rts[d] \in 1 .. M
      BY <1>2, <1>3, <1>4, <2>2
    <3>2. c[new[d]] = b[rts[d]]
      BY <1>1, <3>1
    <3>3. new[d] < new[d+1]
      <4>1. CASE d = R
        <5>1. new[d+1] = M + 1
          BY <1>3, <4>1
        <5> QED
          BY <1>1, <3>1, <5>1
      <4>2. CASE d # R
        <5>1. d + 1 \in 1 .. R /\ d < R
          BY <1>2, <3>1, <4>2
        <5> QED
          BY <1>3, <1>4, <3>1, <5>1
      <4> QED
        BY <4>1, <4>2
    <3> QED
      BY <1>1, <1>4, <3>1, <3>2, <3>3
  <2> QED
    BY <2>1, <2>2
<1>8. ASSUME NEW d \in 1 .. R + 1 PROVE Spans(c, new[d], LastOf(c, new, d))
  <2> DEFINE r == new[d]
             f == LastOf(c, new, d)
  <2>1. CASE d = R + 1
    <3>1. r = M + 1 /\ f = M + 1
      BY <1>1, <1>3, <2>1 DEF LastOf
    <3> HIDE DEF r, f
    <3>2. ASSUME NEW k \in 1 .. M + 1 PROVE c[k].parent # M + 1
      <4>1. CASE k = M + 1
        BY ONLY <1>1, <1>a, <4>1
      <4>2. CASE k # M + 1
        <5>1. k \in 1 .. M /\ c[k] = b[k] /\ b[k].parent \in 0 .. k-1
          BY ONLY <1>1, <3>2, <4>2
        <5> QED
          BY ONLY <1>1, <5>1
      <4> QED
        BY <4>1, <4>2
    <3>3. \A k \in 1 .. M + 1 : c[k].parent \in r .. f <=> k \in r+1 .. f
      BY ONLY <1>1, <3>1, <3>2
    <3> QED
      BY ONLY <1>1, <3>3 DEF Spans, r, f
  <2>2. CASE d # R + 1
    <3>1. d \in 1 .. R /\ r = rts[d]
      BY <1>2, <1>3, <2>2
    <3> DEFINE e == LastOf(b, rts, d)
    <3>2. e = f /\ e \in Nat /\ e <= M
      <4>1. CASE d = R
        BY <1>1, <1>2, <1>3, <4>1 DEF LastOf, R, M
      <4>2. CASE d # R
        <5>1. d + 1 \in 1 .. R
          BY <1>2, <3>1, <4>2
        <5>2. new[d+1] = rts[d+1] /\ rts[d+1] \in 1 .. M
          BY <1>3, <1>4, <5>1
        <5>3. e = rts[d+1] - 1 /\ f = new[d+1] - 1
          BY <1>2, <1>3, <2>2, <4>2 DEF LastOf, R
        <5> QED
          BY <1>1, <5>2, <5>3
      <4> QED
        BY <4>1, <4>2
    <3>3. \A k \in 1 .. M : b[k].parent \in r .. e <=> k \in r+1 .. e
      BY <1>5, <3>1 DEF Spans, M
    <3>4. node.parent < r /\ r \in 1 .. M
      BY <1>4, <1>6, <3>1
    <3> HIDE DEF r, e, f
    <3>5. ASSUME NEW k \in 1 .. M + 1
          PROVE  c[k].parent \in r .. f <=> k \in r+1 .. f
      <4>1. CASE k = M + 1
        BY ONLY <1>1, <3>2, <3>4, <4>1
      <4>2. CASE k # M + 1
        <5>1. k \in 1 .. M /\ c[k] = b[k]
          BY ONLY <1>1, <3>5, <4>2
        <5> QED
          BY ONLY <3>2, <3>3, <5>1
      <4> QED
        BY <4>1, <4>2
    <3> QED
      BY ONLY <1>1, <3>5 DEF Spans, r, f
  <2> QED
    BY <2>1, <2>2
<1>9. Rooted(c, new)
  BY ONLY <1>1, <1>3, <1>7, <1>8 DEF Rooted
<1> QED
  BY <1>9 DEF new

\* c is b but for the payload of node p.
Filled(b, p, c) ==
  /\ Len(b) \in Nat /\ Len(c) = Len(b) /\ p \in 1 .. Len(b)
  /\ \A k \in 1 .. Len(b) :
       /\ c[k].kind = b[k].kind /\ c[k].role = b[k].role /\ c[k].depth = b[k].depth
       /\ c[k].parent = b[k].parent
       /\ k # p => c[k] = b[k]
  /\ \A k \in 2 .. Len(b) : b[k].parent \in 1 .. k-1

LEMMA FilledShape ==
  ASSUME NEW b, NEW p, NEW c, Filled(b, p, c), Nests(b),
         NEW rts, Rooted(b, rts), b[p].role # "root"
  PROVE  /\ Nests(c) /\ Rooted(c, rts)
         /\ \A n : Growing(b, n) => Growing(c, n)
<1> DEFINE M == Len(b)
<1>1. /\ M \in Nat /\ Len(c) = M /\ p \in 1 .. M
      /\ \A k \in 2 .. M : b[k].parent \in 1 .. k-1
  BY DEF Filled
<1>2. \A k \in 1 .. M : /\ c[k].parent = b[k].parent
                        /\ Leaf(c[k]) = Leaf(b[k])
                        /\ k # p => c[k] = b[k]
  BY DEF Filled, Leaf
<1>3. Nests(c)
  <2>1. ASSUME NEW k \in 2 .. M
        PROVE  /\ ~ Leaf(c[c[k].parent])
               /\ \A j \in c[k].parent + 1 .. k-1 : c[j].parent >= c[k].parent
    <3>1. ~ Leaf(b[b[k].parent]) /\ \A j \in b[k].parent + 1 .. k-1 : b[j].parent >= b[k].parent
      BY DEF Nests
    <3> HIDE DEF M
    <3>2. k \in 1 .. M /\ b[k].parent \in 1 .. M
      BY ONLY <1>1, <2>1
    <3>3. c[k].parent = b[k].parent /\ ~ Leaf(c[b[k].parent])
      BY ONLY <1>2, <3>1, <3>2
    <3>4. \A j \in b[k].parent + 1 .. k-1 : j \in 1 .. M
      BY ONLY <1>1, <2>1, <3>2
    <3> QED
      BY ONLY <1>2, <3>1, <3>3, <3>4
  <2> QED
    BY <1>1, <2>1 DEF Nests
<1>4. Rooted(c, rts)
  <2>1. rts \in Seq(Nat) /\ \A d \in 1 .. Len(rts) : d < Len(rts) => rts[d] < rts[d+1]
    BY DEF Rooted
  <2>a. \A d \in 1 .. Len(rts) : rts[d] \in 1 .. M /\ Bare(b[rts[d]])
    BY DEF Rooted
  <2>2. ASSUME NEW d \in 1 .. Len(rts) PROVE Bare(c[rts[d]])
    <3>1. Bare(b[rts[d]]) /\ rts[d] \in 1 .. M
      BY <2>a
    <3>2. rts[d] # p
      BY <3>1 DEF Bare
    <3>3. c[rts[d]] = b[rts[d]]
      BY ONLY <1>2, <3>1, <3>2
    <3> QED
      BY ONLY <3>1, <3>3
  <2>3. ASSUME NEW d \in 1 .. Len(rts) PROVE Spans(c, rts[d], LastOf(c, rts, d))
    <3>1. Spans(b, rts[d], LastOf(b, rts, d)) /\ LastOf(c, rts, d) = LastOf(b, rts, d)
      BY <1>1 DEF Rooted, LastOf
    <3> QED
      BY <1>1, <1>2, <3>1 DEF Spans
  <2> QED
    BY <1>1, <2>1, <2>2, <2>3, <2>a DEF Rooted
<1>5. ASSUME NEW n, Growing(b, n) PROVE Growing(c, n)
  <2>1. n \in 1 .. M /\ ~ Leaf(b[n]) /\ \A j \in n+1 .. M : b[j].parent >= n
    BY <1>5 DEF Growing
  <2> HIDE DEF M
  <2>2. \A j \in n+1 .. M : j \in 1 .. M
    BY <1>1, <2>1
  <2>3. ~ Leaf(c[n]) /\ \A j \in n+1 .. M : c[j].parent >= n
    BY <1>2, <2>1, <2>2
  <2> QED
    BY ONLY <1>1, <2>1, <2>3 DEF Growing
<1> QED
  BY <1>3, <1>4, <1>5

\* What is known of the open sections while the blocks of a document are read.
LEMMA ReadingShape ==
  ASSUME BuildInv, ShapeInv, pc = "blocks"
  PROVE  /\ roots # <<>> /\ Len(roots) \in Nat /\ Len(roots) >= 1
         /\ roots[Len(roots)] = stack[1][2] /\ roots[Len(roots)] \in 1 .. Len(built)
         /\ \A i \in 1 .. Len(stack) :
              Growing(built, stack[i][2]) /\ roots[Len(roots)] <= stack[i][2]
         /\ Len(stack) \in Nat /\ Len(stack) >= 1 /\ Current = stack[Len(stack)][2]
<1>1. /\ OpenSections(stack, built) /\ roots # <<>> /\ roots \in Seq(Nat)
  BY DEF BuildInv
<1>2. stack \in Seq(Nat \X Nat \X Tiers) /\ Len(stack) \in Nat /\ Len(stack) >= 1
  BY <1>1 DEF OpenSections
<1>3. Chained(stack, built) /\ stack[1][2] = Last(roots) /\ Rooted(built, roots)
  BY DEF ShapeInv
<1>4. Len(roots) \in Nat /\ Len(roots) >= 1 /\ Last(roots) = roots[Len(roots)]
  BY <1>1 DEF Last
<1>5. roots[Len(roots)] \in 1 .. Len(built)
  BY <1>3, <1>4 DEF Rooted
<1>6. Current = stack[Len(stack)][2]
  BY <1>2 DEF Current, Last
<1>7. \A i \in 1 .. Len(stack) : Growing(built, stack[i][2])
  BY <1>3 DEF Chained
<1>8. ASSUME NEW i \in 1 .. Len(stack) PROVE stack[1][2] <= stack[i][2]
  <2>1. \A k \in 1 .. Len(stack) : stack[k][2] \in 1 .. Len(built)
    BY <1>7 DEF Growing
  <2>2. \A k, m \in 1 .. Len(stack) : k < m => stack[k][2] < stack[m][2]
    BY <1>3 DEF Chained
  <2>3. 1 \in 1 .. Len(stack) /\ (i = 1 \/ 1 < i)
    BY <1>2
  <2> QED
    BY ONLY <2>1, <2>2, <2>3, i \in 1 .. Len(stack)
<1> QED
  BY <1>1, <1>2, <1>3, <1>4, <1>5, <1>6, <1>7, <1>8

\* A node is added to the innermost section.
LEMMA AddShape ==
  ASSUME BuildInv, ShapeInv, pc = "blocks", pc' = pc, form' = form, roots' = roots,
         Len(docs') = Len(docs), stack' = stack, pending' = pending,
         fenced' \in BOOLEAN, pending = 0 \/ fenced',
         NEW node \in BuiltNode, node.parent = Current, built' = Append(built, node)
  PROVE  ShapeInv'
<1>1. GoodTree(built) /\ built # <<>> /\ Nests(built) /\ Rooted(built, roots)
  BY DEF BuildInv, ShapeInv
<1>2. Grown(built, node, built')
  BY <1>1, GrownTree
<1>3. /\ Len(built) \in Nat /\ Len(built') = Len(built) + 1
      /\ \A k \in 1 .. Len(built) : built'[k] = built[k]
  BY <1>2 DEF Grown
<1>4. /\ roots # <<>> /\ Len(roots) \in Nat /\ Len(roots) >= 1
      /\ roots[Len(roots)] = stack[1][2] /\ roots[Len(roots)] \in 1 .. Len(built)
      /\ \A i \in 1 .. Len(stack) :
           Growing(built, stack[i][2]) /\ roots[Len(roots)] <= stack[i][2]
      /\ Len(stack) \in Nat /\ Len(stack) >= 1 /\ Current = stack[Len(stack)][2]
  BY ReadingShape
<1>5. Growing(built, Current) /\ roots[Len(roots)] <= Current
  BY <1>4
<1>6. Current \in 1 .. Len(built)
  BY <1>5 DEF Growing
<1>7. Nests(built')
  BY <1>1, <1>2, <1>5, GrownNests
<1>8. Rooted(built', roots)
  BY <1>1, <1>2, <1>4, <1>5, <1>6, GrownRooted
<1>9. Chained(stack, built')
  <2>1. ASSUME NEW i \in 1 .. Len(stack) PROVE Growing(built', stack[i][2])
    <3>1. \A k, m \in 1 .. Len(stack) : k < m => stack[k][2] < stack[m][2]
      BY DEF ShapeInv, Chained
    <3>2. \A k \in 1 .. Len(stack) : stack[k][2] \in 1 .. Len(built)
      BY <1>4 DEF Growing
    <3>3. Len(stack) \in 1 .. Len(stack) /\ (i = Len(stack) \/ i < Len(stack))
      BY <1>4
    <3>a. stack[i][2] \in 1 .. Len(built) /\ Current = stack[Len(stack)][2]
          /\ (i = Len(stack) \/ stack[i][2] < stack[Len(stack)][2])
      BY ONLY <1>4, <3>1, <3>2, <3>3, i \in 1 .. Len(stack)
    <3>b. stack[Len(stack)][2] \in 1 .. Len(built)
      BY ONLY <3>2, <3>3
    <3>4. stack[i][2] <= Current
      <4> DEFINE x == stack[i][2]
                 y == stack[Len(stack)][2]
                 m == Len(built)
      <4>1. /\ x \in 1 .. m /\ y \in 1 .. m /\ Current = y /\ (i = Len(stack) => x = y)
            /\ (i = Len(stack) \/ x < y)
        BY ONLY <3>a, <3>b
      <4>2. m \in Nat
        BY ONLY <1>3
      <4> HIDE DEF x, y, m
      <4>3. x <= y
        BY ONLY <4>1, <4>2
      <4> QED
        BY <4>1, <4>3 DEF x, y
    <3> QED
      BY <1>2, <1>4, <3>4, GrownGrowing
  <2> QED
    BY <2>1 DEF ShapeInv, Chained
<1>10. form' # "single" => Growing(built', 1) /\ \A d \in 1 .. Len(roots) : roots[d] # 1
  <2> SUFFICES ASSUME form # "single"
      PROVE  Growing(built', 1) /\ \A d \in 1 .. Len(roots) : roots[d] # 1
    OBVIOUS
  <2>1. Growing(built, 1) /\ \A d \in 1 .. Len(roots) : roots[d] # 1
    BY DEF ShapeInv
  <2> QED
    BY <1>2, <1>6, <2>1, GrownGrowing
<1>11. Filling'
  <2>1. Filling /\ pending \in 0 .. Len(built)
    BY DEF ShapeInv
  <2>2. CASE pending = 0
    BY <2>2 DEF Filling
  <2>3. CASE pending # 0
    <3>1. built'[pending] = built[pending] /\ fenced'
      BY <1>3, <2>1, <2>3
    <3> QED
      BY <2>1, <2>3, <3>1 DEF Filling
  <2> QED
    BY <2>2, <2>3
<1>12. pending' \in 0 .. Len(built')
  BY <1>3 DEF ShapeInv
<1> QED
  BY <1>7, <1>8, <1>9, <1>10, <1>11, <1>12 DEF ShapeInv

\* The innermost section gets its payload.
LEMMA FillShape ==
  ASSUME BuildInv, ShapeInv, pc = "blocks", pc' = pc, form' = form, roots' = roots,
         Len(docs') = Len(docs), stack' = stack, pending # 0, pending' = 0, fenced' = fenced,
         NEW content, built' = [built EXCEPT ![Current].payload = content]
  PROVE  ShapeInv'
<1>1. GoodTree(built) /\ built \in Seq(BuiltNode) /\ Nests(built) /\ Rooted(built, roots)
      /\ Filling /\ pending = Current
  BY DEF BuildInv, ShapeInv, GoodTree, Waiting
<1>2. /\ built \in Seq(BuiltNode) /\ Len(built) \in Nat /\ DOMAIN built = 1 .. Len(built)
      /\ Current \in 1 .. Len(built)
  BY <1>1, Reading
<1>3. Filled(built, Current, built')
  <2> DEFINE old == built[Current]
             node == [old EXCEPT !.payload = content]
  <2>1. old \in BuiltNode
    BY <1>2
  <2> HIDE DEF old
  <2>2. /\ node.kind = old.kind /\ node.role = old.role /\ node.depth = old.depth
        /\ node.parent = old.parent
    BY <2>1 DEF BuiltNode
  <2>3. built' = [built EXCEPT ![Current] = node]
    BY DEF old
  <2> HIDE DEF node
  <2>4. /\ DOMAIN built' = DOMAIN built
        /\ built' = [k \in 1 .. Len(built) |-> IF k = Current THEN node ELSE built[k]]
    BY <1>2, <2>3
  <2>5. Len(built') = Len(built)
    BY <1>2, <2>4
  <2>6. \A k \in 1 .. Len(built) : built'[k] = IF k = Current THEN node ELSE built[k]
    BY <2>4
  <2>7. \A k \in 1 .. Len(built) :
          /\ built'[k].kind = built[k].kind /\ built'[k].role = built[k].role
          /\ built'[k].depth = built[k].depth /\ built'[k].parent = built[k].parent
          /\ k # Current => built'[k] = built[k]
    BY <2>2, <2>6 DEF old
  <2>8. \A k \in 2 .. Len(built) : built[k].parent \in 1 .. k-1
    BY <1>1 DEF GoodTree
  <2> QED
    BY <1>2, <2>5, <2>7, <2>8 DEF Filled
<1>4. built[Current].role # "root"
  BY <1>1 DEF Filling
<1>5. Nests(built') /\ Rooted(built', roots) /\ \A n : Growing(built, n) => Growing(built', n)
  BY <1>1, <1>3, <1>4, FilledShape
<1>6. Len(built') = Len(built)
  BY <1>3 DEF Filled
<1>7. Chained(stack, built')
  BY <1>5 DEF ShapeInv, Chained
<1>8. form # "single" => Growing(built', 1) /\ \A d \in 1 .. Len(roots) : roots[d] # 1
  BY <1>5 DEF ShapeInv
<1>9. Filling' /\ pending' \in 0 .. Len(built')
  BY <1>2, <1>6 DEF Filling
<1>10. /\ pc' \in {"skills", "blocks", "visit", "open", "render", "printed"}
       /\ fenced' \in BOOLEAN /\ Len(roots) = Len(docs) /\ stack[1][2] = Last(roots)
  BY DEF ShapeInv
<1> QED
  BY <1>5, <1>7, <1>8, <1>9, <1>10 DEF ShapeInv

LEMMA TextShape ==
  ASSUME BuildInv, ShapeInv, NEW content \in Texts, Text(content) PROVE ShapeInv'
<1>1. [type |-> "text", text |-> content] \in Block
  BY DEF Block
<1>2. /\ pc = "blocks" /\ pc' = pc /\ form' = form /\ roots' = roots /\ stack' = stack
      /\ fenced' = fenced
  BY DEF Text, Parsed
<1>3. Len(docs') = Len(docs)
  BY DEF Text, Parsed, BuildInv
<1>4. CASE fenced \/ pending = 0
  <2> DEFINE node == Node("prose", ContinuationTier, "continuation", <<>>,
                          content, Current, 0)
  <2>1. built' = Append(built, node) /\ pending' = pending
    BY <1>4 DEF Text
  <2>2. ContinuationTier \in Tiers /\ Current \in Nat
    BY <1>2, Reading DEF ContinuationTier, Hotter, Tiers
  <2>3. node \in BuiltNode /\ node.parent = Current
    BY <2>2 DEF Node, BuiltNode, Roles, Names, Payloads, Kinds
  <2> HIDE DEF node
  <2>4. fenced' \in BOOLEAN
    BY <1>2 DEF ShapeInv
  <2> QED
    BY <1>2, <1>3, <1>4, <2>1, <2>3, <2>4, AddShape
<1>5. CASE ~ (fenced \/ pending = 0)
  <2>1. built' = [built EXCEPT ![Current].payload = content] /\ pending' = 0
    BY <1>5 DEF Text
  <2> QED
    BY <1>2, <1>3, <1>5, <2>1, FillShape
<1> QED
  BY <1>4, <1>5

LEMMA FenceShape ==
  ASSUME BuildInv, ShapeInv, NEW code \in Codes, NEW runs \in BOOLEAN, NEW closed \in BOOLEAN,
         Fence(code, runs, closed)
  PROVE  ShapeInv'
<1> DEFINE node == Node(IF runs THEN "segment" ELSE "resource", 2,
                        IF closed THEN "fence" ELSE "fenceUnclosed",
                        <<runs, closed>>, code, Current, 0)
<1>1. /\ pc = "blocks" /\ pc' = pc /\ form' = form /\ roots' = roots /\ stack' = stack
      /\ built' = Append(built, node) /\ pending' = pending /\ fenced' = TRUE
  BY DEF Fence, Parsed
<1>2. Len(docs') = Len(docs)
  BY DEF Fence, Parsed, BuildInv
<1>3. Current \in Nat
  BY <1>1, Reading
<1>4. node \in BuiltNode /\ node.parent = Current
  <2>1. <<runs, closed>> \in Names
    BY DEF Names
  <2> QED
    BY <1>3, <2>1 DEF Node, BuiltNode, Roles, Payloads, Kinds, Tiers
<1> HIDE DEF node
<1> QED
  BY <1>1, <1>2, <1>4, AddShape

LEMMA HeadingShape ==
  ASSUME BuildInv, ShapeInv, NEW level \in Levels, NEW title \in Titles, Heading(level, title)
  PROVE  ShapeInv'
<1> DEFINE outer == Closing(level)
           tier == SectionTier(title, Last(outer)[3])
           node == Node(Classify[title].kind, tier, "section", <<title>>, None,
                        Last(outer)[2], level)
           M == Len(built)
           e == <<level, M + 1, tier>>
<1>1. /\ pc = "blocks" /\ pc' = pc /\ form' = form /\ roots' = roots
      /\ built' = Append(built, node)
      /\ stack' = Append(outer, <<level, Len(built'), tier>>)
      /\ pending' = Len(built') /\ fenced' = FALSE
  BY DEF Heading, Parsed
<1>2. Len(docs') = Len(docs)
  BY DEF Heading, Parsed, BuildInv
<1>3. /\ level \in Nat /\ level > 0
      /\ Classify[title].kind \in Kinds /\ Classify[title].tier \in Tiers
      /\ Classify[title].kind # "segment"
  BY CompileAssumption
<1>4. OpenSections(stack, built) /\ GoodTree(built) /\ built # <<>> /\ Nests(built)
      /\ Rooted(built, roots)
  BY <1>1 DEF BuildInv, ShapeInv
<1>5. /\ outer \in Seq(Nat \X Nat \X Tiers) /\ Len(outer) \in 1 .. Len(stack)
      /\ \A i \in 1 .. Len(outer) : outer[i] = stack[i]
  BY <1>4, ClosingIsPart
<1> HIDE DEF outer
<1> DEFINE K == Len(outer)
           p == outer[K][2]
<1>6. /\ roots # <<>> /\ Len(roots) \in Nat /\ Len(roots) >= 1
      /\ roots[Len(roots)] = stack[1][2] /\ roots[Len(roots)] \in 1 .. Len(built)
      /\ \A i \in 1 .. Len(stack) :
           Growing(built, stack[i][2]) /\ roots[Len(roots)] <= stack[i][2]
      /\ Len(stack) \in Nat /\ Len(stack) >= 1
  BY <1>1, ReadingShape
<1>7. /\ K \in Nat /\ K >= 1 /\ Last(outer) = outer[K] /\ outer[K] \in Nat \X Nat \X Tiers
  <2>1. K \in Nat /\ K >= 1
    BY <1>5, <1>6
  <2> QED
    BY <1>5, <2>1 DEF Last
<1>8. /\ \A i \in 1 .. K : Growing(built, outer[i][2]) /\ roots[Len(roots)] <= outer[i][2]
      /\ \A i, m \in 1 .. K : i < m => outer[i][2] < outer[m][2]
      /\ outer[1] = stack[1]
  <2>1. \A i \in 1 .. K : i \in 1 .. Len(stack) /\ outer[i] = stack[i]
    BY <1>5, <1>6
  <2>2. \A k, m \in 1 .. Len(stack) : k < m => stack[k][2] < stack[m][2]
    BY <1>1 DEF ShapeInv, Chained
  <2>3. 1 \in 1 .. K
    BY <1>7
  <2> QED
    BY ONLY <1>6, <2>1, <2>2, <2>3
<1>9. Growing(built, p) /\ roots[Len(roots)] <= p /\ p \in 1 .. M /\ M \in Nat
  <2>1. Growing(built, p) /\ roots[Len(roots)] <= p
    BY <1>7, <1>8
  <2>2. p \in 1 .. M
    BY <2>1 DEF Growing
  <2> QED
    BY <1>4, <2>1, <2>2 DEF GoodTree
<1>10. /\ node \in BuiltNode /\ node.parent = p /\ ~ Leaf(node)
       /\ node.role = "section" /\ node.depth = level /\ node.kind # "segment"
       /\ node.payload = None
  <2>1. tier \in Tiers
    BY <1>3, <1>7 DEF SectionTier, Hotter, Tiers
  <2> HIDE DEF tier
  <2>2. p \in Nat /\ Last(outer)[2] = p
    BY <1>7
  <2> HIDE DEF p
  <2> QED
    BY <1>3, <2>1, <2>2 DEF Node, BuiltNode, Roles, Names, Payloads, Leaf
<1> HIDE DEF node, tier
<1>11. Grown(built, node, built')
  BY <1>1, <1>4, <1>10, GrownTree
<1>12. /\ Len(built') = M + 1 /\ built'[M + 1] = node
  BY <1>11 DEF Grown
<1>13. stack' = Append(outer, e)
  BY <1>1, <1>12
<1> DEFINE s == Append(outer, e)
<1>14. /\ Len(s) = K + 1 /\ s[K + 1] = e /\ \A i \in 1 .. K : s[i] = outer[i]
  BY <1>5
<1>15. e[2] = M + 1
  OBVIOUS
<1> HIDE DEF s, e
<1>16. Nests(built')
  BY <1>4, <1>9, <1>10, <1>11, GrownNests
<1>17. Rooted(built', roots)
  BY <1>4, <1>6, <1>9, <1>10, <1>11, GrownRooted
<1>18. Growing(built', M + 1)
  BY <1>10, <1>11, LastGrowing
<1>19. \A i \in 1 .. K : outer[i][2] \in 1 .. M /\ outer[i][2] <= p
  <2>1. \A i \in 1 .. K : outer[i][2] \in 1 .. M
    BY <1>8 DEF Growing
  <2>2. ASSUME NEW i \in 1 .. K PROVE outer[i][2] <= p
    <3>1. K \in 1 .. K /\ (i = K \/ i < K)
      BY <1>7
    <3> QED
      BY ONLY <1>8, <1>9, <2>1, <3>1, i \in 1 .. K
  <2> QED
    BY <2>1, <2>2
<1>20. \A i \in 1 .. K : Growing(built', outer[i][2])
  <2> SUFFICES ASSUME NEW i \in 1 .. K PROVE Growing(built', outer[i][2])
    OBVIOUS
  <2>1. Growing(built, outer[i][2]) /\ outer[i][2] <= node.parent
    BY <1>8, <1>10, <1>19
  <2> QED
    BY <1>11, <2>1, GrownGrowing
<1>21. Chained(s, built')
  <2>1. ASSUME NEW i \in 1 .. K + 1 PROVE Growing(built', s[i][2])
    <3>1. CASE i = K + 1
      BY <1>14, <1>15, <1>18, <3>1
    <3>2. CASE i # K + 1
      <4>1. i \in 1 .. K
        BY <1>7, <3>2
      <4> QED
        BY <1>14, <1>20, <4>1
    <3> QED
      BY <3>1, <3>2
  <2>2. ASSUME NEW i \in 1 .. K + 1, NEW m \in 1 .. K + 1, i < m PROVE s[i][2] < s[m][2]
    <3>1. i \in 1 .. K /\ s[i] = outer[i] /\ outer[i][2] \in 1 .. M
      BY <1>7, <1>14, <1>19, <2>2
    <3>2. CASE m = K + 1
      BY <1>9, <1>14, <1>15, <3>1, <3>2
    <3>3. CASE m # K + 1
      <4>1. m \in 1 .. K /\ s[m] = outer[m]
        BY <1>7, <1>14, <3>3
      <4> QED
        BY <1>8, <2>2, <3>1, <4>1
    <3> QED
      BY <3>2, <3>3
  <2> QED
    BY <1>14, <2>1, <2>2 DEF Chained
<1>22. s[1][2] = Last(roots)
  <2>1. s[1] = stack[1]
    BY <1>7, <1>8, <1>14
  <2> QED
    BY <1>1, <2>1 DEF ShapeInv
<1>23. form # "single" => Growing(built', 1) /\ \A d \in 1 .. Len(roots) : roots[d] # 1
  <2> SUFFICES ASSUME form # "single"
      PROVE  Growing(built', 1) /\ \A d \in 1 .. Len(roots) : roots[d] # 1
    OBVIOUS
  <2>1. Growing(built, 1) /\ \A d \in 1 .. Len(roots) : roots[d] # 1
    BY DEF ShapeInv
  <2>2. node.parent >= 1
    BY <1>9, <1>10
  <2> QED
    BY <1>11, <2>1, <2>2, GrownGrowing
<1>24. Filling'
  <2>1. pending' = M + 1 /\ Len(built') = M + 1
    BY <1>1, <1>12
  <2> QED
    BY <1>3, <1>10, <1>12, <2>1 DEF Filling
<1>25. pending' \in 0 .. Len(built') /\ fenced' \in BOOLEAN
  <2>1. pending' = M + 1 /\ Len(built') = M + 1
    BY <1>1, <1>12
  <2>2. pending' \in 0 .. Len(built')
    BY <1>9, <2>1
  <2>3. fenced' \in BOOLEAN
    BY <1>1
  <2> QED
    BY <2>2, <2>3
<1>26. pc' \in {"skills", "blocks", "visit", "open", "render", "printed"} /\ Len(roots') = Len(docs')
  BY <1>1, <1>2 DEF ShapeInv
<1>27. stack' = s
  BY <1>13 DEF s
<1> QED
  BY <1>1, <1>16, <1>17, <1>21, <1>22, <1>23, <1>24, <1>25, <1>26, <1>27 DEF ShapeInv

LEMMA BeginSkillShape == ASSUME BuildInv, ShapeInv, BeginSkill PROVE ShapeInv'
<1>1. PICK front \in BOOLEAN, adorned \in BOOLEAN :
        LET root == Node("prose", 0, "root", <<>>, None, IF form = "single" THEN 0 ELSE 1, 0)
            at == Len(built) + 1
            matter == Node("applicability", 0, "frontmatter", <<>>, FrontText, at, 0)
        IN  /\ docs' = Append(docs, [front |-> front, blocks |-> <<>>, adorned |-> adorned])
            /\ built' = built \o (IF front THEN <<root, matter>> ELSE <<root>>)
            /\ roots' = Append(roots, at)
            /\ stack' = <<<<0, at, 0>>>>
  BY DEF BeginSkill
<1> DEFINE root == Node("prose", 0, "root", <<>>, None, IF form = "single" THEN 0 ELSE 1, 0)
           M == Len(built)
           at == M + 1
           matter == Node("applicability", 0, "frontmatter", <<>>, FrontText, at, 0)
           one == Append(built, root)
           two == Append(one, matter)
<1>2. /\ pc = "skills" /\ pc' = "blocks" /\ form' = form /\ pending' = 0 /\ fenced' = FALSE
      /\ Len(docs) < (IF form = "single" THEN 1 ELSE MaxSkills)
      /\ Len(docs') = Len(docs) + 1 /\ roots' = Append(roots, at)
      /\ stack' = <<<<0, at, 0>>>>
      /\ built' = built \o (IF front THEN <<root, matter>> ELSE <<root>>)
  BY <1>1 DEF BeginSkill, BuildInv
<1>3. /\ built \in Seq(BuiltNode) /\ M \in Nat /\ GoodTree(built)
      /\ built = <<>> <=> M = 0
      /\ Nests(built) /\ Rooted(built, roots) /\ Len(roots) = Len(docs)
  BY DEF BuildInv, GoodTree, ShapeInv
<1>4. form = "single" => built = <<>> /\ Len(roots) = 0
  BY <1>2, <1>3 DEF BuildInv
<1>5. /\ root \in BuiltNode /\ Bare(root) /\ ~ Leaf(root) /\ root.tier = 0 /\ Fit(root)
      /\ root.parent = IF form = "single" THEN 0 ELSE 1
  BY DEF Node, BuiltNode, Bare, Leaf, Roles, Names, Payloads, Kinds, Tiers, Fit
<1>6. /\ matter \in BuiltNode /\ matter.parent = at
  <2> HIDE DEF at
  <2>1. at \in Nat
    BY <1>3 DEF at
  <2> QED
    BY <2>1 DEF Node, BuiltNode, Roles, Names, Payloads, Kinds, Tiers
<1>7. /\ built \o <<root>> = one /\ built \o <<root, matter>> = two
  <2> HIDE DEF root, matter
  <2> QED
    BY <1>3, <1>5, <1>6, ConcatIsAppend
<1>8. built' = IF front THEN two ELSE one
  BY <1>2, <1>7
<1> HIDE DEF root, matter
<1>9. Grown(built, root, one)
  BY <1>3, <1>5, GrownTree
<1>10. GoodTree(one)
  <2>1. IF built = <<>> THEN root.tier = 0 /\ root.parent = 0
        ELSE root.parent \in 1 .. Len(built) /\ built[root.parent].tier <= root.tier
    BY <1>3, <1>4, <1>5 DEF GoodTree, BuildInv
  <2> QED
    BY <1>3, <1>5, <2>1, Grows
<1> HIDE DEF one
<1>11. /\ Len(one) = at /\ one[at] = root /\ \A k \in 1 .. M : one[k] = built[k]
  BY <1>9 DEF Grown
<1>12. form # "single" => Growing(built, 1) /\ \A d \in 1 .. Len(roots) : roots[d] # 1
  BY DEF ShapeInv
<1>13. Nests(one)
  <2>1. built = <<>> \/ Growing(built, root.parent)
    BY <1>4, <1>5, <1>12
  <2> QED
    BY <1>3, <1>9, <2>1, GrownNests
<1>14. \A d \in 1 .. Len(roots) : roots[d] \in 1 .. M
  BY <1>3 DEF Rooted
<1>15. Rooted(one, roots')
  <2>1. \A d \in 1 .. Len(roots) : root.parent < roots[d]
    <3>1. CASE form = "single"
      BY <1>4, <3>1
    <3>2. CASE form # "single"
      BY <1>3, <1>5, <1>12, <1>14, <3>2
    <3> QED
      BY <3>1, <3>2
  <2>2. root.parent <= M
    <3>1. form # "single" => 1 \in 1 .. M
      BY <1>12 DEF Growing
    <3> QED
      BY <1>3, <1>5, <3>1
  <2> QED
    BY <1>2, <1>3, <1>5, <1>9, <2>1, <2>2, NewRooted
<1>16. Growing(one, at)
  BY <1>5, <1>9, LastGrowing
<1>17. form # "single" => Growing(one, 1)
  <2> SUFFICES ASSUME form # "single" PROVE Growing(one, 1)
    OBVIOUS
  <2>1. Growing(built, 1) /\ root.parent >= 1
    BY <1>5, <1>12
  <2> QED
    BY <1>9, <2>1, GrownGrowing
<1>18. Grown(one, matter, two)
  BY <1>6, <1>10, GrownTree
<1> HIDE DEF two
<1>19. Len(two) = at + 1 /\ \A k \in 1 .. at : two[k] = one[k]
  BY <1>11, <1>18 DEF Grown
<1>20. Nests(two)
  BY <1>6, <1>13, <1>16, <1>18, GrownNests
<1>21. /\ roots' \in Seq(Nat) /\ Len(roots') = Len(roots) + 1 /\ Len(roots) \in Nat
       /\ roots'[Len(roots) + 1] = at /\ \A d \in 1 .. Len(roots) : roots'[d] = roots[d]
       /\ roots' # <<>>
  BY <1>2, <1>3 DEF Rooted
<1>22. roots'[Len(roots')] = at
  BY <1>21
<1>23. Rooted(two, roots')
  <2>1. at \in 1 .. Len(one) /\ roots'[Len(roots')] <= matter.parent
    BY <1>3, <1>6, <1>11, <1>22
  <2> QED
    BY <1>6, <1>15, <1>18, <1>21, <2>1, GrownRooted
<1>24. Growing(two, at)
  <2>1. at <= matter.parent
    BY <1>3, <1>6
  <2> QED
    BY <1>16, <1>18, <2>1, GrownGrowing
<1>25. form # "single" => Growing(two, 1)
  <2> SUFFICES ASSUME form # "single" PROVE Growing(two, 1)
    OBVIOUS
  <2>1. Growing(one, 1) /\ matter.parent >= 1
    BY <1>3, <1>6, <1>17
  <2> QED
    BY <1>18, <2>1, GrownGrowing
<1>26. Nests(built') /\ Rooted(built', roots') /\ Growing(built', at)
  BY <1>8, <1>13, <1>15, <1>16, <1>20, <1>23, <1>24
<1>27. form # "single" => Growing(built', 1)
  BY <1>8, <1>17, <1>25
<1>28. form # "single" => \A d \in 1 .. Len(roots') : roots'[d] # 1
  <2> SUFFICES ASSUME form # "single", NEW d \in 1 .. Len(roots') PROVE roots'[d] # 1
    OBVIOUS
  <2>1. CASE d = Len(roots) + 1
    <3>1. 1 \in 1 .. M
      BY <1>12 DEF Growing
    <3> QED
      BY <1>3, <1>21, <2>1, <3>1
  <2>2. CASE d # Len(roots) + 1
    BY <1>12, <1>21, <2>2
  <2> QED
    BY <2>1, <2>2
<1>29. Len(built') \in Nat
  BY <1>3, <1>8, <1>11, <1>19
<1>30. Chained(stack', built') /\ stack'[1][2] = at
  <2> DEFINE e == <<0, at, 0>>
  <2>1. e[2] = at
    OBVIOUS
  <2> HIDE DEF e
  <2>2. Len(<<e>>) = 1 /\ <<e>>[1] = e
    OBVIOUS
  <2>3. stack' = <<e>>
    BY <1>2 DEF e
  <2>4. \A i \in 1 .. 1 : i = 1
    OBVIOUS
  <2> QED
    BY <1>26, <2>1, <2>2, <2>3, <2>4 DEF Chained
<1>31. Last(roots') = at
  BY <1>22 DEF Last
<1>32. Len(roots') = Len(docs')
  BY <1>2, <1>3, <1>21
<1>33. Filling' /\ pending' \in 0 .. Len(built')
  BY <1>2, <1>29 DEF Filling
<1>34. fenced' \in BOOLEAN
  BY <1>2
<1> QED
  BY <1>2, <1>26, <1>27, <1>28, <1>30, <1>31, <1>32, <1>33, <1>34 DEF ShapeInv

LEMMA EndSkillShape == ASSUME BuildInv, ShapeInv, EndSkill PROVE ShapeInv'
<1> DEFINE artifact == Node("binding", 1, "artifact", <<"artifact">>, ArtifactText,
                            Last(roots), 0)
           gate == Node("contract", 1, "gate", <<"gate">>, GateText, Last(roots), 0)
           one == Append(built, artifact)
           two == Append(one, gate)
           M == Len(built)
           r == Last(roots)
<1>1. /\ pc = "blocks" /\ pc' = "skills" /\ form' = form /\ docs' = docs /\ roots' = roots
      /\ pending' = pending /\ fenced' = fenced
      /\ built' = built \o (IF Doc.adorned THEN <<artifact, gate>> ELSE <<>>)
  BY DEF EndSkill, source, section
<1>2. /\ built \in Seq(BuiltNode) /\ M \in Nat /\ GoodTree(built)
      /\ docs # <<>> /\ built # <<>> /\ Nests(built) /\ Rooted(built, roots)
      /\ r \in 1 .. M /\ built[r].tier = 0
  BY <1>1, Reading DEF BuildInv, ShapeInv
<1>3. roots # <<>> /\ r = roots[Len(roots)] /\ Growing(built, r)
  <2>1. /\ roots # <<>> /\ roots[Len(roots)] = stack[1][2]
        /\ \A i \in 1 .. Len(stack) : Growing(built, stack[i][2])
        /\ Len(stack) \in Nat /\ Len(stack) >= 1
    BY <1>1, ReadingShape
  <2>2. r = roots[Len(roots)]
    BY DEF Last
  <2> HIDE DEF r
  <2> QED
    BY <2>1, <2>2
<1>4. /\ artifact \in BuiltNode /\ artifact.parent = r /\ artifact.tier = 1 /\ Fit(artifact)
      /\ gate \in BuiltNode /\ gate.parent = r
  <2>1. r \in Nat
    BY <1>2
  <2> HIDE DEF r
  <2>2. /\ artifact = Node("binding", 1, "artifact", <<"artifact">>, ArtifactText, r, 0)
        /\ gate = Node("contract", 1, "gate", <<"gate">>, GateText, r, 0)
    BY DEF r
  <2> HIDE DEF artifact, gate
  <2> QED
    BY <2>1, <2>2 DEF Node, BuiltNode, Roles, Names, Payloads, Kinds, Tiers, Fit
<1> HIDE DEF artifact, gate, r
<1>5. built \o <<artifact, gate>> = two /\ built \o <<>> = built
  BY <1>2, <1>4, ConcatIsAppend
<1>6. Grown(built, artifact, one) /\ GoodTree(one)
  <2>1. artifact.parent \in 1 .. M /\ built[artifact.parent].tier <= artifact.tier
    BY <1>2, <1>4
  <2> QED
    BY <1>2, <1>4, <2>1, Grows, GrownTree
<1> HIDE DEF one
<1>7. Len(one) = M + 1 /\ r \in 1 .. Len(one)
  BY <1>2, <1>6 DEF Grown
<1>8. r <= r
  BY <1>2
<1>9. Nests(one) /\ Rooted(one, roots) /\ Growing(one, r)
  BY <1>2, <1>3, <1>4, <1>6, <1>8, GrownNests, GrownRooted, GrownGrowing
<1>10. Grown(one, gate, two)
  BY <1>4, <1>6, GrownTree
<1> HIDE DEF two
<1>11. Nests(two) /\ Rooted(two, roots)
  BY <1>3, <1>4, <1>7, <1>8, <1>9, <1>10, GrownNests, GrownRooted
<1>12. Len(two) = M + 2
  BY <1>2, <1>7, <1>10 DEF Grown
<1>13. \A n : Growing(built, n) /\ n <= r => Growing(two, n)
  <2> SUFFICES ASSUME NEW n, Growing(built, n), n <= r PROVE Growing(two, n)
    OBVIOUS
  <2>1. n \in 1 .. M
    BY DEF Growing
  <2>2. artifact.parent >= n /\ gate.parent >= n
    BY <1>2, <1>4, <2>1
  <2>3. Growing(one, n)
    BY <1>6, <2>2, GrownGrowing
  <2> QED
    BY <1>10, <2>2, <2>3, GrownGrowing
<1>14. built' = two \/ built' = built
  BY <1>1, <1>5
<1>15. Nests(built') /\ Rooted(built', roots) /\ Len(built') \in M .. M + 2
  BY <1>2, <1>11, <1>12, <1>14
<1>16. form # "single" => Growing(built', 1) /\ \A d \in 1 .. Len(roots) : roots[d] # 1
  <2>1. form # "single" => Growing(built, 1) /\ \A d \in 1 .. Len(roots) : roots[d] # 1
    BY DEF ShapeInv
  <2>2. 1 <= r
    BY <1>2
  <2> QED
    BY <1>13, <1>14, <2>1, <2>2
<1>17. pending' \in 0 .. Len(built') /\ fenced' \in BOOLEAN /\ Len(roots') = Len(docs')
  <2>1. pending \in 0 .. M /\ fenced \in BOOLEAN /\ Len(roots) = Len(docs)
    BY DEF ShapeInv
  <2> HIDE DEF M
  <2> QED
    BY <1>1, <1>2, <1>15, <2>1
<1> QED
  BY <1>1, <1>15, <1>16, <1>17 DEF ShapeInv

\* Steps that leave the builder alone.
LEMMA OthersShape ==
  ASSUME ShapeInv, UNCHANGED <<form, docs, built, roots, stack, pending, fenced>>,
         pc' = pc \/ pc' \in {"visit", "open", "render", "printed"}
  PROVE  ShapeInv'
<1>1. Filling => Filling'
  BY DEF Filling
<1>2. CASE pc' = pc
  BY <1>1, <1>2 DEF ShapeInv
<1>3. CASE pc' \in {"visit", "open", "render", "printed"}
  BY <1>3 DEF ShapeInv
<1> QED
  BY <1>2, <1>3

LEMMA ShapeInvInit == Init => ShapeInv
<1> SUFFICES ASSUME Init PROVE ShapeInv
  OBVIOUS
<1>1. /\ form \in {"single", "bundle", "org"} /\ docs = <<>> /\ pc = "skills" /\ roots = <<>>
      /\ pending = 0 /\ fenced = FALSE
  BY CompileAssumption DEF Init
<1>2. /\ ~ Leaf(Synthetic) /\ ~ Leaf(Charter) /\ Charter.parent = 1
  BY DEF Synthetic, Charter, Node, Leaf
<1>3. Rooted(built, roots) /\ Len(roots) = 0 /\ Len(docs) = 0
  BY <1>1 DEF Rooted
<1>a. pending \in 0 .. Len(built) /\ fenced \in BOOLEAN
  <2>1. Len(built) \in Nat
    <3>1. BuildInv
      BY BuildInvInit
    <3> QED
      BY <3>1 DEF BuildInv, GoodTree
  <2>2. pending \in 0 .. Len(built)
    BY <1>1, <2>1
  <2>3. fenced \in BOOLEAN
    BY <1>1
  <2> QED
    BY <2>2, <2>3
<1>b. /\ pc \in {"skills", "blocks", "visit", "open", "render", "printed"} /\ pc # "blocks"
      /\ Len(roots) = Len(docs)
      /\ \A d : d \notin 1 .. Len(roots)
  BY <1>1, <1>3
<1>4. CASE form = "single"
  <2>1. built = <<>>
    BY <1>4 DEF Init
  <2>2. Len(built) = 0 /\ Nests(built)
    BY <2>1 DEF Nests
  <2> QED
    BY <1>a, <1>b, <1>3, <1>4, <2>2 DEF ShapeInv
<1>5. CASE form = "bundle"
  <2>1. built = <<Synthetic>>
    BY <1>5 DEF Init
  <2>2. Len(built) = 1 /\ built[1] = Synthetic
    BY <2>1
  <2>3. Nests(built) /\ Growing(built, 1)
    BY <1>2, <2>2 DEF Nests, Growing
  <2> QED
    BY <1>a, <1>b, <1>3, <1>5, <2>3 DEF ShapeInv
<1>6. CASE form = "org"
  <2>1. built = <<Synthetic, Charter>>
    BY <1>6 DEF Init
  <2>2. Len(built) = 2 /\ built[1] = Synthetic /\ built[2] = Charter
    BY <2>1
  <2>3. \A k \in 2 .. 2 : k = 2
    OBVIOUS
  <2>4. Nests(built) /\ Growing(built, 1)
    BY <1>2, <2>2, <2>3 DEF Nests, Growing
  <2> QED
    BY <1>a, <1>b, <1>3, <1>6, <2>4 DEF ShapeInv
<1> QED
  BY <1>1, <1>4, <1>5, <1>6

-----------------------------------------------------------------------------
(***************************************************************************)
(* The two loops                                                           *)
(*                                                                         *)
(* pre_order and render keep the same stack.  Of a list in pre-order they  *)
(* take the nodes in the order of their numbers: the top of the stack is   *)
(* the node after the last one taken, and what is stacked are the nodes    *)
(* still to come whose parent was taken (Tour).                            *)
(***************************************************************************)
\* The parents of M nodes in pre-order.
Tree(par, M) ==
  /\ M \in Nat
  /\ \A c \in 1 .. M : par[c] \in 0 .. c-1
  /\ \A c \in 2 .. M : par[c] # 0 /\ \A i \in par[c] + 1 .. c-1 : par[i] >= par[c]

\* The nodes r to e are r and all that is below it.
Part(par, M, r, e) ==
  /\ r \in 1 .. M /\ e \in r .. M
  /\ \A c \in 1 .. M : par[c] \in r .. e <=> c \in r+1 .. e

\* What the loop has when the nodes r to j are out and t[1] to t[L] are stacked.
Tour(par, r, e, j, t, L) ==
  /\ L \in Nat /\ j \in r-1 .. e
  /\ \A k, m \in 1 .. L : k < m => t[k] > t[m]
  /\ \A k \in 1 .. L : t[k] \in j+1 .. e /\ (t[k] = r \/ par[t[k]] \in r .. j)
  /\ \A c \in j+1 .. e : c = r \/ par[c] \in r .. j => \E k \in 1 .. L : t[k] = c

\* kids lists the children of n in the order of their numbers.
Listed(par, M, n, kids, K) ==
  /\ K \in Nat
  /\ \A m \in 1 .. K : kids[m] \in 1 .. M /\ par[kids[m]] = n
  /\ \A k, m \in 1 .. K : k < m => kids[k] < kids[m]
  /\ \A c \in 1 .. M : par[c] = n => \E m \in 1 .. K : kids[m] = c

\* The last node comes off the stack t, and kids go on it, the first of them last.
Turn(t, L, kids, K, t2) ==
  /\ \A k \in 1 .. L - 1 : t2[k] = t[k]
  /\ \A k \in L .. L - 1 + K : t2[k] = kids[L + K - k]

LEMMA TourStart ==
  ASSUME NEW par, NEW M, Tree(par, M), NEW r, NEW e, Part(par, M, r, e), NEW t, t[1] = r
  PROVE  Tour(par, r, e, r-1, t, 1)
<1>1. /\ r \in Nat /\ r >= 1 /\ e \in Nat /\ e >= r /\ e <= M /\ M \in Nat
      /\ \A c \in 1 .. M : par[c] \in 0 .. c-1
  BY DEF Part, Tree
<1>2. \A k \in 1 .. 1 : k = 1
  OBVIOUS
<1>3. r - 1 \in r-1 .. e /\ 1 \in Nat
  BY <1>1
<1>4. \A k, m \in 1 .. 1 : k < m => t[k] > t[m]
  BY <1>2
<1>5. \A k \in 1 .. 1 : t[k] \in r-1+1 .. e /\ (t[k] = r \/ par[t[k]] \in r .. r-1)
  BY <1>1, <1>2
<1>6. ASSUME NEW c \in r-1+1 .. e, c = r \/ par[c] \in r .. r-1
      PROVE  \E k \in 1 .. 1 : t[k] = c
  <2>1. c = r
    BY <1>1, <1>6
  <2> QED
    BY <1>2, <2>1
<1> QED
  BY ONLY <1>3, <1>4, <1>5, <1>6 DEF Tour

LEMMA TourTop ==
  ASSUME NEW par, NEW M, Tree(par, M), NEW r, NEW e, Part(par, M, r, e),
         NEW j, NEW t, NEW L, Tour(par, r, e, j, t, L), L # 0
  PROVE  t[L] = j+1 /\ j+1 \in r .. e
<1>1. /\ r \in Nat /\ r >= 1 /\ e \in Nat /\ e >= r /\ e <= M /\ M \in Nat
      /\ \A c \in 1 .. M : par[c] \in r .. e <=> c \in r+1 .. e
      /\ \A c \in 1 .. M : par[c] \in 0 .. c-1
  BY DEF Part, Tree
<1>2. /\ L \in Nat /\ L >= 1 /\ j \in Int /\ r-1 <= j /\ j <= e
      /\ \A k, m \in 1 .. L : k < m => t[k] > t[m]
      /\ \A k \in 1 .. L : t[k] \in j+1 .. e
      /\ \A c \in j+1 .. e : c = r \/ par[c] \in r .. j => \E k \in 1 .. L : t[k] = c
  <2>1. L \in Nat /\ j \in r-1 .. e
    BY DEF Tour
  <2> QED
    BY <1>1, <2>1 DEF Tour
<1>3. L \in 1 .. L /\ t[L] \in j+1 .. e
  BY ONLY <1>2
<1>4. j+1 \in j+1 .. e /\ j+1 \in r .. e
  BY ONLY <1>1, <1>2, <1>3
<1>5. j+1 = r \/ par[j+1] \in r .. j
  <2> SUFFICES ASSUME j+1 # r PROVE par[j+1] \in r .. j
    OBVIOUS
  <2>1. j+1 \in r+1 .. e /\ j+1 \in 1 .. M
    BY <1>1, <1>2, <1>4
  <2> DEFINE i == j+1
  <2>2. i \in r+1 .. e /\ i \in 1 .. M
    BY <2>1
  <2>3. i = j+1
    OBVIOUS
  <2> HIDE DEF i
  <2>4. par[i] \in r .. e /\ par[i] \in 0 .. i-1
    BY ONLY <1>1, <2>2
  <2> QED
    BY ONLY <1>1, <1>2, <2>3, <2>4
<1>6. PICK k \in 1 .. L : t[k] = j+1
  BY <1>2, <1>4, <1>5
<1>7. k = L
  <2>1. ~ (k < L)
    BY ONLY <1>2, <1>3, <1>6
  <2> QED
    BY ONLY <1>2, <1>6, <2>1
<1> QED
  BY <1>4, <1>6, <1>7

\* When nothing is stacked any more, all of the part is out.
LEMMA TourEnd ==
  ASSUME NEW par, NEW M, Tree(par, M), NEW r, NEW e, Part(par, M, r, e),
         NEW j, NEW t, Tour(par, r, e, j, t, 0)
  PROVE  j = e
<1>1. /\ r \in Nat /\ r >= 1 /\ e \in Nat /\ e >= r /\ e <= M /\ M \in Nat
      /\ \A c \in 1 .. M : par[c] \in r .. e <=> c \in r+1 .. e
      /\ \A c \in 1 .. M : par[c] \in 0 .. c-1
  BY DEF Part, Tree
<1>2. j \in Int /\ r-1 <= j /\ j <= e
  BY <1>1 DEF Tour
<1>3. \A c \in j+1 .. e : ~ (c = r \/ par[c] \in r .. j)
  BY DEF Tour
<1> SUFFICES ASSUME j < e PROVE FALSE
  BY <1>1, <1>2
<1>4. j+1 \in j+1 .. e /\ j+1 \in 1 .. M
  BY <1>1, <1>2
<1>5. j+1 # r
  BY <1>3, <1>4
<1>6. j+1 \in r+1 .. e
  BY <1>1, <1>2, <1>4, <1>5
<1> DEFINE i == j+1
<1>7. i \in r+1 .. e /\ i \in 1 .. M /\ i = j+1
  BY <1>4, <1>6
<1> HIDE DEF i
<1>8. par[i] \in r .. j
  <2>1. par[i] \in r .. e /\ par[i] \in 0 .. i-1
    BY ONLY <1>1, <1>7
  <2> QED
    BY ONLY <1>1, <1>2, <1>7, <2>1
<1> QED
  BY <1>3, <1>4, <1>7, <1>8

LEMMA TourTurn ==
  ASSUME NEW par, NEW M, Tree(par, M), NEW r, NEW e, Part(par, M, r, e),
         NEW j, NEW t, NEW L, Tour(par, r, e, j, t, L), L # 0,
         NEW kids, NEW K, Listed(par, M, j+1, kids, K), NEW t2, Turn(t, L, kids, K, t2)
  PROVE  Tour(par, r, e, j+1, t2, L - 1 + K)
<1>1. /\ r \in Nat /\ r >= 1 /\ e \in Nat /\ e >= r /\ e <= M /\ M \in Nat
      /\ \A c \in 1 .. M : par[c] \in r .. e <=> c \in r+1 .. e
      /\ \A c \in 1 .. M : par[c] \in 0 .. c-1
  BY DEF Part, Tree
<1>a. \A c \in 2 .. M : \A i \in par[c] + 1 .. c-1 : par[i] >= par[c]
  BY DEF Tree
<1>2. t[L] = j+1 /\ j+1 \in r .. e
  BY TourTop
<1>3. /\ L \in Nat /\ L >= 1 /\ j \in Int /\ r-1 <= j /\ j < e
      /\ \A k, m \in 1 .. L : k < m => t[k] > t[m]
      /\ \A k \in 1 .. L : t[k] \in j+1 .. e /\ (t[k] = r \/ par[t[k]] \in r .. j)
      /\ \A c \in j+1 .. e : c = r \/ par[c] \in r .. j => \E k \in 1 .. L : t[k] = c
  <2>1. L \in Nat /\ j \in r-1 .. e
    BY DEF Tour
  <2> QED
    BY <1>1, <1>2, <2>1 DEF Tour
<1>4. /\ K \in Nat
      /\ \A m \in 1 .. K : kids[m] \in 1 .. M /\ par[kids[m]] = j+1
      /\ \A k, m \in 1 .. K : k < m => kids[k] < kids[m]
      /\ \A c \in 1 .. M : par[c] = j+1 => \E m \in 1 .. K : kids[m] = c
  BY DEF Listed
<1>5. /\ \A k \in 1 .. L - 1 : t2[k] = t[k]
      /\ \A k \in L .. L - 1 + K : t2[k] = kids[L + K - k]
  BY DEF Turn
<1> DEFINE i == j+1
           L2 == L - 1 + K
<1>6. i \in Nat /\ r <= i /\ i <= e /\ i \in 1 .. M /\ L2 \in Nat
  BY <1>1, <1>2, <1>3, <1>4
\* What stays stacked.
<1>7. ASSUME NEW k \in 1 .. L - 1
      PROVE  t2[k] = t[k] /\ t[k] \in i+1 .. e /\ par[t[k]] \in r .. j /\ t[k] # r
  <2>1. k \in 1 .. L /\ L \in 1 .. L /\ k < L
    BY <1>3
  <2>2. t[k] > i /\ t[k] \in i .. e /\ (t[k] = r \/ par[t[k]] \in r .. j)
    BY <1>2, <1>3, <2>1
  <2>3. t[k] # r
    BY ONLY <1>1, <1>6, <2>2
  <2> QED
    BY ONLY <1>5, <1>6, <1>1, <2>2, <2>3, <1>7
\* What is stacked now.
<1>8. ASSUME NEW m \in 1 .. K
      PROVE  kids[m] \in i+1 .. e /\ par[kids[m]] = i
  <2>1. kids[m] \in 1 .. M /\ par[kids[m]] = i
    BY <1>4
  <2>2. par[kids[m]] \in r .. e /\ par[kids[m]] \in 0 .. kids[m]-1
    BY ONLY <1>1, <1>6, <2>1
  <2>3. kids[m] \in r+1 .. e
    BY ONLY <1>1, <2>1, <2>2
  <2> HIDE DEF i
  <2> QED
    BY ONLY <1>1, <1>6, <2>1, <2>2, <2>3
<1>9. ASSUME NEW k \in L .. L2
      PROVE  L + K - k \in 1 .. K /\ t2[k] = kids[L + K - k]
  BY <1>3, <1>4, <1>5, <1>9
<1>10. \A k \in 1 .. L2 : k \in 1 .. L - 1 \/ k \in L .. L2
  BY <1>3, <1>4, <1>6
<1> HIDE DEF i, L2
<1>11. ASSUME NEW k \in 1 .. L2
       PROVE  t2[k] \in i+1 .. e /\ (t2[k] = r \/ par[t2[k]] \in r .. i)
  <2>1. CASE k \in 1 .. L - 1
    <3>1. t2[k] \in i+1 .. e /\ par[t2[k]] \in r .. j
      BY <1>7, <2>1
    <3> QED
      BY <1>3, <3>1 DEF i
  <2>2. CASE k \in L .. L2
    <3>1. t2[k] \in i+1 .. e /\ par[t2[k]] = i
      BY <1>8, <1>9, <2>2
    <3> QED
      BY <1>6, <3>1
  <2> QED
    BY <1>10, <2>1, <2>2
<1>12. ASSUME NEW c \in i+1 .. e, c = r \/ par[c] \in r .. i
       PROVE  \E k \in 1 .. L2 : t2[k] = c
  <2>1. c \in 1 .. M /\ c # r /\ c # i /\ c \in j+1 .. e
    BY <1>1, <1>6, <1>12 DEF i
  <2>2. CASE par[c] = i
    <3>1. PICK m \in 1 .. K : kids[m] = c
      BY <1>4, <2>1, <2>2 DEF i
    <3> DEFINE k == L + K - m
    <3>2. k \in L .. L2 /\ L + K - k = m /\ k \in 1 .. L2
      BY <1>3, <1>4 DEF L2
    <3> HIDE DEF k
    <3>3. t2[k] = c
      BY <1>9, <3>1, <3>2
    <3> QED
      BY <3>2, <3>3
  <2>3. CASE par[c] # i
    <3>1. par[c] \in r .. j
      BY <1>1, <1>3, <1>12, <2>1, <2>3 DEF i
    <3>2. PICK k \in 1 .. L : t[k] = c
      BY <1>3, <2>1, <3>1
    <3>3. k # L
      BY <1>2, <2>1, <3>2 DEF i
    <3>4. k \in 1 .. L - 1 /\ k \in 1 .. L2
      BY <1>3, <1>4, <3>3 DEF L2
    <3> QED
      BY <1>7, <3>2, <3>4
  <2> QED
    BY <2>2, <2>3
<1>13. ASSUME NEW k \in 1 .. L2, NEW m \in 1 .. L2, k < m
       PROVE  t2[k] > t2[m]
  <2>1. CASE k \in 1 .. L - 1 /\ m \in 1 .. L - 1
    <3>1. k \in 1 .. L /\ m \in 1 .. L
      BY <1>3, <2>1
    <3> QED
      BY <1>3, <1>7, <1>13, <2>1, <3>1
  <2>2. CASE k \in 1 .. L - 1 /\ m \in L .. L2
    <3> DEFINE c == t2[k]
               y == t2[m]
    <3>1. c \in i+1 .. e /\ par[c] \in r .. j
      BY <1>7, <2>2
    <3>2. y \in i+1 .. e /\ par[y] = i
      BY <1>8, <1>9, <2>2
    <3> HIDE DEF c, y
    <3>3. y \in 2 .. M
      BY <1>1, <1>6, <3>2
    <3>4. ~ (c < y)
      <4> SUFFICES ASSUME c < y PROVE FALSE
        OBVIOUS
      <4>1. c \in i+1 .. y-1
        BY <1>6, <3>1, <3>2
      <4>2. par[c] >= i
        BY <1>a, <3>2, <3>3, <4>1
      <4> QED
        BY <1>1, <1>3, <3>1, <4>2 DEF i
    <3>5. c # y
      BY <1>1, <1>3, <3>1, <3>2 DEF i
    <3>6. c > y
      BY <1>6, <3>1, <3>2, <3>4, <3>5
    <3> QED
      BY <3>6 DEF c, y
  <2>3. CASE k \in L .. L2 /\ m \in L .. L2
    <3>1. /\ L + K - k \in 1 .. K /\ t2[k] = kids[L + K - k]
          /\ L + K - m \in 1 .. K /\ t2[m] = kids[L + K - m]
      BY <1>9, <2>3
    <3>2. L + K - m < L + K - k
      BY <1>3, <1>4, <1>13
    <3>3. kids[L + K - m] < kids[L + K - k]
      BY <1>4, <3>1, <3>2
    <3>4. kids[L + K - m] \in i+1 .. e /\ kids[L + K - k] \in i+1 .. e
      BY <1>8, <3>1
    <3> QED
      BY <1>6, <3>1, <3>3, <3>4
  <2>4. ~ (k \in L .. L2 /\ m \in 1 .. L - 1)
    BY <1>3, <1>13
  <2> QED
    BY <1>10, <2>1, <2>2, <2>3, <2>4
<1>14. L2 \in Nat /\ i \in r-1 .. e
  BY <1>1, <1>6
<1>15. Tour(par, r, e, i, t2, L2)
  BY ONLY <1>11, <1>12, <1>13, <1>14 DEF Tour
<1> QED
  BY <1>15 DEF i, L2

Parents(b) == [n \in DOMAIN b |-> b[n].parent]

\* The children of a node of b.
KidsIn(b, n) == Ascending({c \in DOMAIN b : b[c].parent = n})

\* The tree as the lemmas about the loops take it.
LEMMA TreeOfParents ==
  ASSUME NEW b, GoodTree(b), Nests(b), b # <<>>
  PROVE  /\ Tree(Parents(b), Len(b)) /\ Part(Parents(b), Len(b), 1, Len(b))
         /\ Len(b) \in Nat /\ Len(b) >= 1 /\ DOMAIN b = 1 .. Len(b)
         /\ \A k \in 1 .. Len(b) : Parents(b)[k] = b[k].parent
<1> DEFINE M == Len(b)
           par == Parents(b)
<1>1. M \in Nat /\ M >= 1 /\ DOMAIN b = 1 .. M
  BY DEF GoodTree
<1>2. \A k \in 1 .. M : par[k] = b[k].parent
  BY <1>1 DEF Parents
<1>3. /\ b[1].parent = 0 /\ \A k \in 2 .. M : b[k].parent \in 1 .. k-1
      /\ \A k \in 2 .. M : \A j \in b[k].parent + 1 .. k-1 : b[j].parent >= b[k].parent
  BY DEF GoodTree, Nests
<1> HIDE DEF M, par
<1>4. par[1] = 0 /\ \A k \in 2 .. M : par[k] \in 1 .. k-1
  BY <1>1, <1>2, <1>3
<1>5. \A c \in 1 .. M : par[c] \in 0 .. c-1
  <2>1. \A c \in 1 .. M : c = 1 \/ c \in 2 .. M
    BY <1>1
  <2> QED
    BY <1>4, <2>1
<1>6. ASSUME NEW c \in 2 .. M
      PROVE  par[c] # 0 /\ \A i \in par[c] + 1 .. c-1 : par[i] >= par[c]
  <2>1. par[c] \in 1 .. c-1 /\ c \in 1 .. M /\ par[c] = b[c].parent
    BY <1>1, <1>2, <1>4
  <2>2. \A i \in par[c] + 1 .. c-1 : i \in 1 .. M
    BY <1>1, <2>1
  <2> QED
    BY <1>2, <1>3, <2>1, <2>2
<1>7. Tree(par, M)
  BY <1>1, <1>5, <1>6 DEF Tree
<1>8. Part(par, M, 1, M)
  <2>1. 1 \in 1 .. M /\ M \in 1 .. M
    BY <1>1
  <2>2. ASSUME NEW c \in 1 .. M PROVE par[c] \in 1 .. M <=> c \in 1+1 .. M
    <3>1. CASE c = 1
      BY <1>4, <3>1
    <3>2. CASE c # 1
      BY <1>1, <1>4, <3>2
    <3> QED
      BY <3>1, <3>2
  <2> QED
    BY <2>1, <2>2 DEF Part
<1> QED
  BY <1>1, <1>2, <1>7, <1>8 DEF M, par

\* Ascending lists the children of n.
LEMMA ChildrenListed ==
  ASSUME NEW M \in Nat, NEW par, NEW n, NEW S, S = {c \in 1 .. M : par[c] = n}
  PROVE  /\ Ascending(S) \in Seq(1 .. M)
         /\ Listed(par, M, n, Ascending(S), Len(Ascending(S)))
<1> DEFINE s == Ascending(S)
           D == 1 .. M
<1>1. IsFiniteSet(S)
  <2>1. IsFiniteSet(1 .. M)
    BY FS_Interval
  <2>2. S \in SUBSET (1 .. M)
    OBVIOUS
  <2> QED
    BY <2>1, <2>2, FS_Subset
<1>2. S \subseteq Nat /\ S \subseteq D
  OBVIOUS
<1>3. /\ s \in Seq(S) /\ \A k, m \in 1 .. Len(s) : k < m => s[k] < s[m]
      /\ \A c \in S : \E k \in 1 .. Len(s) : s[k] = c
  <2>1. s \in Seq(S)
    BY <1>1, <1>2, AscendingLists
  <2>2. \A k, m \in 1 .. Len(s) : k < m => s[k] < s[m]
    BY <1>1, <1>2, AscendingLists
  <2>3. \A c \in S : \E k \in 1 .. Len(s) : s[k] = c
    BY <1>1, <1>2, AscendingLists
  <2> QED
    BY <2>1, <2>2, <2>3
<1> HIDE DEF s
<1>4. Len(s) \in Nat /\ \A k \in 1 .. Len(s) : s[k] \in S
  BY <1>3
<1>5. \A k \in 1 .. Len(s) : s[k] \in 1 .. M /\ par[s[k]] = n
  BY <1>4
<1>6. \A c \in 1 .. M : par[c] = n => \E k \in 1 .. Len(s) : s[k] = c
  BY <1>3
<1>7. s \in Seq(D)
  <2> HIDE DEF D
  <2> QED
    BY <1>2, <1>3
<1>8. Listed(par, M, n, s, Len(s))
  BY <1>3, <1>4, <1>5, <1>6 DEF Listed
<1> QED
  BY <1>7, <1>8 DEF s

\* A turn of either loop.
LEMMA LoopTurn ==
  ASSUME NEW par, NEW M, Tree(par, M), NEW r, NEW e, Part(par, M, r, e),
         NEW j, NEW t \in Seq(1 .. M), t # <<>>, Tour(par, r, e, j, t, Len(t)),
         NEW kids \in Seq(1 .. M), Listed(par, M, Last(t), kids, Len(kids))
  PROVE  /\ Last(t) = j+1 /\ j+1 \in r .. e
         /\ Turned(t, kids) \in Seq(1 .. M)
         /\ Tour(par, r, e, j+1, Turned(t, kids), Len(Turned(t, kids)))
<1> DEFINE t2 == Turned(t, kids)
           L == Len(t)
           K == Len(kids)
           D == 1 .. M
<1>1. t \in Seq(D) /\ kids \in Seq(D)
  OBVIOUS
<1> HIDE DEF D
<1>2. /\ t2 \in Seq(D) /\ L \in Nat /\ L >= 1 /\ K \in Nat /\ Len(t2) = L - 1 + K
  BY <1>1, PopAndStack
<1>3. \A k \in 1 .. L - 1 : t2[k] = t[k]
  BY <1>1, PopAndStack
<1>4. \A k \in L .. Len(t2) : t2[k] = kids[L + K - k]
  BY <1>1, PopAndStack
<1>5. Last(t) = t[L]
  BY <1>1 DEF Last
<1> HIDE DEF t2, L, K
<1>6. Turn(t, L, kids, K, t2)
  BY <1>2, <1>3, <1>4 DEF Turn
<1>7. L # 0 /\ Tour(par, r, e, j, t, L)
  BY <1>2 DEF L
<1>8. t[L] = j+1 /\ j+1 \in r .. e
  BY <1>7, TourTop
<1>9. Listed(par, M, j+1, kids, K)
  BY <1>5, <1>8 DEF K
<1>10. Tour(par, r, e, j+1, t2, L - 1 + K)
  BY <1>6, <1>7, <1>9, TourTurn
<1> QED
  BY <1>2, <1>5, <1>8, <1>10 DEF t2, D

\* When the loop is over, all of the part is out.
LEMMA LoopEnd ==
  ASSUME NEW par, NEW M, Tree(par, M), NEW r, NEW e, Part(par, M, r, e),
         NEW j, NEW t, t = <<>>, Tour(par, r, e, j, t, Len(t))
  PROVE  j = e
<1>1. Len(t) = 0
  OBVIOUS
<1> QED
  BY <1>1, TourEnd

-----------------------------------------------------------------------------
(***************************************************************************)
(* Hashes                                                                  *)
(***************************************************************************)
\* What the hash of node n is of those of its children.
HashFrom(b, h, n) ==
  SubtreeHash(b[n], b[n].payload, [k \in DOMAIN KidsIn(b, n) |-> h[KidsIn(b, n)[k]]])

\* h has the subtree hashes of b.
Hashes(h, b) == \A n \in 1 .. Len(b) : h[n] = HashFrom(b, h, n)

\* Children come after their parents.
LEMMA KidsLater ==
  ASSUME NEW b, GoodTree(b), NEW n \in 1 .. Len(b), NEW k \in DOMAIN KidsIn(b, n)
  PROVE  KidsIn(b, n)[k] \in n+1 .. Len(b)
<1> DEFINE M == Len(b)
           S == {c \in DOMAIN b : b[c].parent = n}
           s == Ascending(S)
<1>1. M \in Nat /\ DOMAIN b = 1 .. M /\ b[1].parent = 0
      /\ \A c \in 2 .. M : b[c].parent \in 1 .. c-1
  BY DEF GoodTree
<1>2. IsFiniteSet(S) /\ S \subseteq Nat /\ S \subseteq n+1 .. M
  <2>1. IsFiniteSet(1 .. M)
    BY <1>1, FS_Interval
  <2>2. S \in SUBSET (1 .. M)
    BY <1>1
  <2>3. ASSUME NEW c \in S PROVE c \in n+1 .. M
    <3>1. c \in 1 .. M /\ b[c].parent = n
      BY <1>1
    <3> HIDE DEF S, M
    <3>2. n \in 1 .. M
      BY DEF M
    <3>3. c # 1
      BY <1>1, <3>1, <3>2
    <3> QED
      BY <1>1, <3>1, <3>2, <3>3
  <2> HIDE DEF S
  <2>4. S \subseteq Nat
    BY <2>2
  <2> QED
    BY <2>1, <2>2, <2>3, <2>4, FS_Subset
<1> HIDE DEF S, M
<1>3. s \in Seq(S)
  BY <1>2, AscendingLists
<1>4. k \in DOMAIN s
  BY DEF KidsIn, S
<1>5. s[k] \in S
  <2> HIDE DEF s
  <2> QED
    BY <1>3, <1>4
<1> QED
  BY <1>2, <1>5 DEF KidsIn, S, M

\* It depends on the hashes of later nodes only.
LEMMA HashOfLater ==
  ASSUME NEW b, GoodTree(b), NEW n \in 1 .. Len(b), NEW g, NEW h,
         \A c \in n+1 .. Len(b) : g[c] = h[c]
  PROVE  HashFrom(b, g, n) = HashFrom(b, h, n)
<1>1. \A k \in DOMAIN KidsIn(b, n) : g[KidsIn(b, n)[k]] = h[KidsIn(b, n)[k]]
  BY KidsLater
<1>2. [k \in DOMAIN KidsIn(b, n) |-> g[KidsIn(b, n)[k]]]
      = [k \in DOMAIN KidsIn(b, n) |-> h[KidsIn(b, n)[k]]]
  BY <1>1
<1> QED
  BY <1>2 DEF HashFrom

\* A tree has one set of hashes, ...
LEMMA HashesUnique ==
  ASSUME NEW b, GoodTree(b), NEW g, Hashes(g, b), NEW h, Hashes(h, b)
  PROVE  \A n \in 1 .. Len(b) : g[n] = h[n]
<1> DEFINE Bad == {n \in 1 .. Len(b) : g[n] # h[n]}
<1> SUFFICES ASSUME Bad # {} PROVE FALSE
  OBVIOUS
<1>1. Len(b) \in Nat
  BY DEF GoodTree
<1>2. PICK n \in Bad : \A m \in Bad : m <= n
  <2>1. Bad \in SUBSET (0 .. Len(b))
    BY <1>1
  <2> HIDE DEF Bad
  <2> QED
    BY <1>1, <2>1, Greatest
<1>3. n \in 1 .. Len(b) /\ g[n] # h[n]
  OBVIOUS
<1>4. \A c \in n+1 .. Len(b) : g[c] = h[c]
  <2> SUFFICES ASSUME NEW c \in n+1 .. Len(b) PROVE g[c] = h[c]
    OBVIOUS
  <2>1. c \in 1 .. Len(b) /\ ~ (c <= n)
    BY <1>1, <1>3
  <2>2. c \notin Bad
    <3> HIDE DEF Bad
    <3> QED
      BY <1>2, <2>1
  <2> QED
    BY <2>1, <2>2
<1>5. HashFrom(b, g, n) = HashFrom(b, h, n)
  BY <1>3, <1>4, HashOfLater
<1> QED
  BY <1>3, <1>5 DEF Hashes

\* ... and it has one.
LEMMA HashesExist ==
  ASSUME NEW b, GoodTree(b)
  PROVE  \E h : h = [n \in DOMAIN b |-> HashFrom(b, h, n)]
<1> DEFINE M == Len(b)
           From(p, k) == \A n \in k .. M : p[n] = HashFrom(b, p, n)
           Without == {k \in 1 .. M + 1 : ~ \E p : From(p, k)}
<1>1. M \in Nat /\ DOMAIN b = 1 .. M
  BY DEF GoodTree
<1>2. Without = {}
  <2> SUFFICES ASSUME Without # {} PROVE FALSE
    OBVIOUS
  <2>1. PICK k \in Without : \A m \in Without : m <= k
    <3>1. M + 1 \in Nat /\ Without \in SUBSET (0 .. M + 1)
      BY <1>1
    <3> HIDE DEF Without
    <3> QED
      BY <3>1, Greatest
  <2>2. k \in 1 .. M + 1 /\ ~ \E p : From(p, k)
    BY <2>1
  <2>3. k # M + 1
    <3>1. \A p : From(p, M + 1)
      BY <1>1
    <3> HIDE DEF From
    <3> QED
      BY <2>2, <3>1
  <2>4. k \in 1 .. M
    <3> HIDE DEF M
    <3> QED
      BY <1>1, <2>2, <2>3
  <2>5. k+1 \in 1 .. M + 1 /\ k+1 \notin Without
    <3>1. k+1 \in 1 .. M + 1 /\ ~ (k+1 <= k)
      BY <1>1, <2>4
    <3> HIDE DEF Without
    <3> QED
      BY <2>1, <3>1
  <2>6. PICK p : From(p, k+1)
    <3> HIDE DEF From
    <3> QED
      BY <2>5
  <2> DEFINE q == [n \in k .. M |-> HashFrom(b, p, n)]
  <2>7. ASSUME NEW n \in k .. M PROVE q[n] = HashFrom(b, q, n)
    <3>1. n \in 1 .. M
      BY <1>1, <2>4
    <3>2. \A c \in n+1 .. M : q[c] = p[c]
      <4>1. \A c \in n+1 .. M : c \in k .. M /\ c \in k+1 .. M
        BY <1>1, <2>4
      <4>2. \A c \in k .. M : q[c] = HashFrom(b, p, c)
        OBVIOUS
      <4> HIDE DEF q
      <4> QED
        BY <2>6, <4>1, <4>2
    <3>3. q[n] = HashFrom(b, p, n)
      OBVIOUS
    <3> HIDE DEF q
    <3>4. HashFrom(b, q, n) = HashFrom(b, p, n)
      BY <3>1, <3>2, HashOfLater
    <3> QED
      BY <3>3, <3>4
  <2> HIDE DEF q
  <2>8. From(q, k)
    BY <2>7
  <2> HIDE DEF From
  <2> QED
    BY <2>2, <2>8
<1>3. PICK p : From(p, 1)
  <2>1. 1 \in 1 .. M + 1
    BY <1>1
  <2>2. 1 \notin Without
    <3> HIDE DEF Without
    <3> QED
      BY <1>2
  <2> HIDE DEF From
  <2> QED
    BY <2>1, <2>2
<1> DEFINE q == [n \in DOMAIN b |-> p[n]]
<1>4. ASSUME NEW n \in DOMAIN b PROVE q[n] = HashFrom(b, q, n)
  <2>1. n \in 1 .. M /\ p[n] = HashFrom(b, p, n)
    BY <1>1, <1>3
  <2>2. \A c \in n+1 .. M : q[c] = p[c]
    <3>1. \A c \in n+1 .. M : c \in DOMAIN b
      BY <1>1, <2>1
    <3> QED
      BY <3>1
  <2>3. q[n] = p[n]
    OBVIOUS
  <2> HIDE DEF q
  <2>4. HashFrom(b, q, n) = HashFrom(b, p, n)
    BY <2>1, <2>2, HashOfLater
  <2> QED
    BY <2>1, <2>3, <2>4
<1>5. q = [n \in DOMAIN b |-> q[n]]
  OBVIOUS
<1> HIDE DEF q
<1>6. q = [n \in DOMAIN b |-> HashFrom(b, q, n)]
  BY <1>4, <1>5
<1> QED
  BY <1>6

-----------------------------------------------------------------------------
(***************************************************************************)
(* The file                                                                *)
(***************************************************************************)
\* The payload of node i in file f.
PayloadIn(f, i) ==
  IF f.table[i].offset = 0 THEN None
  ELSE (IF f.table[i].tier = 0 THEN f.hot ELSE f.cold)[f.table[i].offset]

\* Node n of b has its hash kept.
Committed(b, n) == n = 1 \/ b[n].kind = "segment" \/ b[n].tier > b[b[n].parent].tier

\* Node by node the table of f says what b says, ...
Copied(f, b) ==
  /\ f.table \in Seq({f.table[i] : i \in 1 .. Len(b)}) /\ Len(f.table) = Len(b)
  /\ \A i \in 1 .. Len(b) :
       /\ f.table[i].kind = b[i].kind /\ f.table[i].tier = b[i].tier
       /\ f.table[i].role = b[i].role /\ f.table[i].name = b[i].name
       /\ f.table[i].depth = b[i].depth /\ f.table[i].parent = b[i].parent

\* ... its payload is where the offset says, ...
Placed(f, b) ==
  /\ \A i \in 1 .. Len(b) : PayloadIn(f, i) = b[i].payload
  /\ \A i \in 1 .. Len(b) :
       f.table[i].offset \in {0} \cup DOMAIN (IF f.table[i].tier = 0 THEN f.hot ELSE f.cold)

\* ... hashes are kept for the nodes they are to be kept for, ...
Sealed(f, b) ==
  \E h : /\ Hashes(h, b)
         /\ \A i \in 1 .. Len(b) : f.table[i].hash = IF Committed(b, i) THEN h[i] ELSE <<>>

\* ... and the documents are found.
Routed(f, rts) == \A d \in 1 .. Len(rts) : f.routing[d] = rts[d]

Faithful(f, b, rts) == Copied(f, b) /\ Placed(f, b) /\ Sealed(f, b) /\ Routed(f, rts)

\* The nodes are in the order of their numbers, so far.
InOrder(o) == \A i \in 1 .. Len(o) : o[i] = i

OrderInv ==
  /\ order \in Seq(1 .. Len(built)) /\ InOrder(order)
  /\ pc \in {"skills", "blocks"} => order = <<>>
  /\ pc \in {"visit", "open", "render", "printed"} => built # <<>> /\ docs # <<>>
  /\ pc = "visit" =>
       /\ todo \in Seq(1 .. Len(built))
       /\ Tour(Parents(built), 1, Len(built), Len(order), todo, Len(todo))
  /\ IF pc \in {"open", "render", "printed"} THEN Faithful(file, built, roots)
     ELSE file = NoFile

\* What is known when pre_order is done.
Ordered ==
  /\ GoodTree(built) /\ built # <<>>
  /\ order \in Seq(1 .. Len(built)) /\ InOrder(order) /\ Len(order) = Len(built)
  /\ Rooted(built, roots)

LEMMA OrderedTree ==
  ASSUME Ordered
  PROVE  /\ Len(built) \in Nat /\ Len(built) >= 1 /\ DOMAIN built = 1 .. Len(built)
         /\ DOMAIN order = 1 .. Len(built) /\ \A i \in 1 .. Len(built) : order[i] = i
         /\ \A i \in 1 .. Len(built) : Rank(i) = i
         /\ \A i \in 1 .. Len(built) : WrittenParent(i) = built[i].parent
<1> DEFINE M == Len(built)
<1>1. M \in Nat /\ M >= 1 /\ DOMAIN built = 1 .. M
  BY DEF Ordered, GoodTree
<1>2. DOMAIN order = 1 .. M /\ \A i \in 1 .. M : order[i] = i
  BY DEF Ordered, InOrder
<1>3. /\ built[1].parent = 0 /\ \A k \in 2 .. M : built[k].parent \in 1 .. k-1
  BY DEF Ordered, GoodTree
<1> HIDE DEF M
<1>4. \A i \in 1 .. M : Rank(i) = i
  BY <1>2 DEF Rank
<1>5. \A i \in 1 .. M : WrittenParent(i) = built[i].parent
  <2> SUFFICES ASSUME NEW i \in 1 .. M PROVE WrittenParent(i) = built[i].parent
    OBVIOUS
  <2>1. CASE i = 1
    BY <1>3, <2>1 DEF WrittenParent
  <2>2. CASE i # 1
    <3>1. i \in 2 .. M
      BY <1>1, <2>2
    <3>2. built[i].parent \in 1 .. i-1
      BY <1>3, <3>1
    <3>3. built[i].parent \in 1 .. M /\ built[i].parent # 0
      BY <1>1, <3>1, <3>2
    <3> QED
      BY <1>4, <3>3 DEF WrittenParent
  <2> QED
    BY <2>1, <2>2
<1> QED
  BY <1>1, <1>2, <1>4, <1>5 DEF M

\* A content of these tiers is stored.
LEMMA StoredFinds ==
  ASSUME Ordered, NEW tiers, NEW i \in 1 .. Len(built), built[i].tier \in tiers,
         built[i].payload # None
  PROVE  /\ \E at \in DOMAIN Stored(tiers) : Stored(tiers)[at] = built[i].payload
         /\ \A at \in DOMAIN Stored(tiers) : at # 0
<1> DEFINE payload(k) == built[order[k]].payload
           placed == {k \in DOMAIN order : built[order[k]].tier \in tiers /\ payload(k) # None}
           firsts == {k \in placed : \A j \in placed : payload(j) = payload(k) => k <= j}
           first == Ascending(firsts)
           same == {k \in placed : payload(k) = built[i].payload}
<1>1. /\ Len(built) \in Nat /\ DOMAIN order = 1 .. Len(built)
      /\ \A k \in 1 .. Len(built) : order[k] = k
  BY OrderedTree
<1>2. i \in placed /\ payload(i) = built[i].payload
  BY <1>1
<1>3. placed \subseteq Nat /\ placed \in SUBSET (1 .. Len(built))
  BY <1>1
<1>4. PICK f \in same : \A j \in same : f <= j
  <2>1. same \subseteq Nat /\ i \in same
    BY <1>2, <1>3
  <2> HIDE DEF same
  <2> QED
    BY <2>1, Smallest
<1>5. f \in firsts /\ payload(f) = built[i].payload
  <2>1. f \in placed /\ payload(f) = built[i].payload
    OBVIOUS
  <2>2. ASSUME NEW j \in placed, payload(j) = payload(f) PROVE f <= j
    <3>1. j \in same
      BY <2>1, <2>2
    <3> HIDE DEF same
    <3> QED
      BY <1>4, <3>1
  <2> HIDE DEF placed, payload
  <2> QED
    BY <2>1, <2>2
<1> HIDE DEF placed, same, payload
<1>6. firsts \subseteq Nat /\ IsFiniteSet(firsts)
  <2>1. IsFiniteSet(1 .. Len(built))
    BY <1>1, FS_Interval
  <2>2. firsts \in SUBSET (1 .. Len(built)) /\ firsts \subseteq Nat
    BY <1>3
  <2> HIDE DEF firsts
  <2> QED
    BY <2>1, <2>2, FS_Subset
<1> HIDE DEF firsts
<1>7. first \in Seq(firsts) /\ \E k \in 1 .. Len(first) : first[k] = f
  <2>1. first \in Seq(firsts)
    BY <1>6, AscendingLists
  <2>2. \A c \in firsts : \E k \in 1 .. Len(first) : first[k] = c
    BY <1>6, AscendingLists
  <2> HIDE DEF first
  <2> QED
    BY <1>5, <2>1, <2>2
<1>8. Stored(tiers) = [k \in DOMAIN first |-> payload(first[k])]
  BY DEF Stored, firsts, placed, payload
<1> HIDE DEF first
<1>9. Len(first) \in Nat /\ DOMAIN first = 1 .. Len(first)
  BY <1>7
<1>10. PICK k \in 1 .. Len(first) : first[k] = f
  BY <1>7
<1>11. k \in DOMAIN Stored(tiers) /\ Stored(tiers)[k] = built[i].payload
  BY <1>5, <1>8, <1>9, <1>10
<1>12. \A at \in DOMAIN Stored(tiers) : at # 0
  BY <1>8, <1>9
<1> QED
  BY <1>11, <1>12

LEMMA OffsetFinds ==
  ASSUME Ordered, NEW i \in 1 .. Len(built)
  PROVE  /\ built[i].payload = None => Offset(i) = 0
         /\ built[i].payload # None =>
              /\ Offset(i) # 0
              /\ Offset(i) \in DOMAIN (IF built[i].tier = 0 THEN Hot ELSE Cold)
              /\ (IF built[i].tier = 0 THEN Hot ELSE Cold)[Offset(i)] = built[i].payload
<1> DEFINE region == IF built[i].tier = 0 THEN Hot ELSE Cold
<1>1. built[i].payload = None => Offset(i) = 0
  BY DEF Offset
<1>2. ASSUME built[i].payload # None
      PROVE  /\ Offset(i) # 0 /\ Offset(i) \in DOMAIN region
             /\ region[Offset(i)] = built[i].payload
  <2>1. built[i].tier \in {0, 1, 2}
    <3>1. built[i] \in BuiltNode
      BY DEF Ordered, GoodTree
    <3> QED
      BY <3>1 DEF BuiltNode, Tiers
  <2>2. /\ \E at \in DOMAIN region : region[at] = built[i].payload
        /\ \A at \in DOMAIN region : at # 0
    <3>1. CASE built[i].tier = 0
      <4>1. built[i].tier \in {0} /\ region = Stored({0})
        BY <3>1 DEF Hot
      <4> HIDE DEF region
      <4> QED
        BY <1>2, <4>1, StoredFinds
    <3>2. CASE built[i].tier # 0
      <4>1. built[i].tier \in {1, 2} /\ region = Stored({1, 2})
        BY <2>1, <3>2 DEF Cold
      <4> HIDE DEF region
      <4> QED
        BY <1>2, <4>1, StoredFinds
    <3> QED
      BY <3>1, <3>2
  <2>3. Offset(i) = CHOOSE at \in DOMAIN region : region[at] = built[i].payload
    BY <1>2 DEF Offset
  <2> HIDE DEF region
  <2> QED
    BY <2>2, <2>3
<1> QED
  BY <1>1, <1>2

LEMMA BuiltHashes == ASSUME GoodTree(built) PROVE Hashes(BuiltHash, built)
<1> DEFINE Solves(h) == h = [n \in DOMAIN built |-> HashFrom(built, h, n)]
<1>1. \E h : Solves(h)
  BY HashesExist
<1>2. BuiltHash = CHOOSE h : Solves(h)
  BY DEF BuiltHash, HashFrom, Kids, KidsIn
<1>3. Solves(BuiltHash)
  <2> HIDE DEF Solves
  <2> QED
    BY <1>1, <1>2
<1>4. DOMAIN built = 1 .. Len(built)
  BY DEF GoodTree
<1> QED
  BY <1>3, <1>4 DEF Hashes

\* What is written is faithful to the tree.
LEMMA WrittenFaithful == ASSUME Ordered PROVE Faithful(Written, built, roots)
<1> DEFINE M == Len(built)
           t == Written.table
<1>1. /\ M \in Nat /\ M >= 1 /\ DOMAIN built = 1 .. M
      /\ DOMAIN order = 1 .. M /\ \A i \in 1 .. M : order[i] = i
      /\ \A i \in 1 .. M : Rank(i) = i
      /\ \A i \in 1 .. M : WrittenParent(i) = built[i].parent
  BY OrderedTree
<1>2. /\ t = [i \in DOMAIN order |-> Entry(order[i])]
      /\ Written.hot = Hot /\ Written.cold = Cold
      /\ Written.routing = [d \in DOMAIN roots |-> Rank(roots[d])]
  BY DEF Written
<1> HIDE DEF M, t
<1>3. DOMAIN t = 1 .. M /\ \A i \in 1 .. M : t[i] = Entry(i)
  BY <1>1, <1>2
<1>4. t \in Seq({t[i] : i \in 1 .. M}) /\ Len(t) = M
  <2>1. t = [i \in 1 .. M |-> Entry(i)]
    BY <1>1, <1>2
  <2>2. t \in [1 .. M -> {t[i] : i \in 1 .. M}]
    BY <2>1
  <2> QED
    BY <1>1, <1>3, <2>2
<1>5. \A i \in 1 .. M :
        /\ t[i].kind = built[i].kind /\ t[i].tier = built[i].tier
        /\ t[i].role = built[i].role /\ t[i].name = built[i].name
        /\ t[i].depth = built[i].depth /\ t[i].parent = built[i].parent
        /\ t[i].offset = Offset(i)
        /\ t[i].hash = IF Committed(built, i) THEN BuiltHash[i] ELSE <<>>
  BY <1>1, <1>3 DEF Entry, Boundary, Committed
<1>6. Copied(Written, built)
  BY <1>4, <1>5 DEF Copied, t, M
<1>7. Placed(Written, built)
  <2> SUFFICES ASSUME NEW i \in 1 .. M
      PROVE  /\ PayloadIn(Written, i) = built[i].payload
             /\ t[i].offset \in {0} \cup DOMAIN (IF t[i].tier = 0 THEN Hot ELSE Cold)
    BY <1>2 DEF Placed, t, M
  <2> DEFINE region == IF built[i].tier = 0 THEN Hot ELSE Cold
  <2>1. /\ built[i].payload = None => Offset(i) = 0
        /\ built[i].payload # None => /\ Offset(i) # 0 /\ Offset(i) \in DOMAIN region
                                      /\ region[Offset(i)] = built[i].payload
    BY OffsetFinds DEF M
  <2>2. t[i].offset = Offset(i) /\ (IF t[i].tier = 0 THEN Hot ELSE Cold) = region
    BY <1>5
  <2>3. PayloadIn(Written, i) = IF Offset(i) = 0 THEN None ELSE region[Offset(i)]
    BY <1>2, <2>2 DEF PayloadIn, t
  <2> HIDE DEF region
  <2> QED
    BY <2>1, <2>2, <2>3
<1>8. Sealed(Written, built)
  <2>1. Hashes(BuiltHash, built)
    BY BuiltHashes DEF Ordered
  <2> QED
    BY <1>5, <2>1 DEF Sealed, t, M
<1>9. Routed(Written, roots)
  <2>1. \A d \in 1 .. Len(roots) : roots[d] \in 1 .. M /\ d \in DOMAIN roots
    BY DEF Ordered, Rooted, M
  <2> QED
    BY <1>1, <1>2, <2>1 DEF Routed
<1> QED
  BY <1>6, <1>7, <1>8, <1>9 DEF Faithful

LEMMA OrderInvInit == Init => OrderInv
<1> SUFFICES ASSUME Init PROVE OrderInv
  OBVIOUS
<1>1. pc = "skills" /\ order = <<>> /\ file = NoFile
  BY DEF Init
<1>2. order \in Seq(1 .. Len(built)) /\ Len(order) = 0
  BY <1>1
<1> QED
  BY <1>1, <1>2 DEF OrderInv, InOrder

\* Steps before the writer, ...
LEMMA BeforeOrdered ==
  ASSUME OrderInv, pc \in {"skills", "blocks"}, pc' \in {"skills", "blocks"},
         order' = order, file' = file
  PROVE  OrderInv'
<1>1. order' = <<>> /\ file' = NoFile
  BY DEF OrderInv
<1>2. order' \in Seq(1 .. Len(built')) /\ Len(order') = 0
  BY <1>1
<1> QED
  BY <1>1, <1>2 DEF OrderInv, InOrder

\* ... and after it.
LEMMA AfterOrdered ==
  ASSUME OrderInv, pc \in {"open", "render", "printed"}, pc' \in {"open", "render", "printed"},
         UNCHANGED <<order, file, built, roots, docs>>
  PROVE  OrderInv'
BY DEF OrderInv, InOrder

\* The one root is stacked.
LEMMA StartWriteOrdered ==
  ASSUME BuildInv, ShapeInv, OrderInv, StartWrite
  PROVE  pc' = "visit" /\ OrderInv'
<1>1. /\ pc = "skills" /\ docs # <<>> /\ order' = order /\ built' = built /\ order = <<>>
      /\ file' = file /\ file = NoFile /\ docs' = docs
  BY DEF StartWrite, writing, building, source, OrderInv
<1>2. GoodTree(built) /\ built # <<>> /\ Nests(built)
  BY <1>1 DEF BuildInv, ShapeInv
<1> DEFINE M == Len(built)
           par == Parents(built)
<1>3. /\ Tree(par, M) /\ Part(par, M, 1, M) /\ M \in Nat /\ M >= 1 /\ DOMAIN built = 1 .. M
  BY <1>2, TreeOfParents
<1>4. built[1].parent = 0 /\ \A k \in 2 .. M : built[k].parent \in 1 .. k-1
  BY <1>2 DEF GoodTree
<1> HIDE DEF par, M
<1>5. {n \in DOMAIN built : built[n].parent = 0} = {1}
  <2>1. \A n \in 1 .. M : n = 1 \/ n \in 2 .. M
    BY <1>3
  <2>2. \A n \in 1 .. M : built[n].parent = 0 <=> n = 1
    BY <1>4, <2>1
  <2> QED
    BY <1>3, <2>2
<1>6. pc' = "visit" /\ todo' = <<1>>
  BY <1>5 DEF StartWrite
<1> DEFINE t == <<1>>
<1>7. t[1] = 1 /\ Len(t) = 1 /\ t \in Seq(1 .. M)
  BY <1>3
<1> HIDE DEF t
<1>8. Tour(par, 1, M, 1 - 1, t, 1)
  BY <1>3, <1>7, TourStart
<1>9. Tour(par, 1, M, 0, t, Len(t))
  <2>1. 1 - 1 = 0
    OBVIOUS
  <2> QED
    BY <1>7, <1>8, <2>1
<1>10. order' = <<>> /\ Len(order') = 0 /\ order' \in Seq(1 .. M)
  BY <1>1
<1>11. todo' = t
  BY <1>6 DEF t
<1> QED
  BY <1>1, <1>2, <1>6, <1>7, <1>9, <1>10, <1>11 DEF OrderInv, InOrder, M, par

\* A turn of the loop.
LEMMA VisitOrdered == ASSUME BuildInv, ShapeInv, OrderInv, Visit PROVE OrderInv'
<1> DEFINE n == Last(todo)
           kids == Kids(n)
           M == Len(built)
           D == 1 .. M
           par == Parents(built)
           N == Len(order)
<1>1. /\ pc = "visit" /\ todo # <<>> /\ pc' = pc /\ built' = built /\ file' = file
      /\ docs' = docs
      /\ order' = Append(order, n) /\ todo' = Turned(todo, kids)
  BY DEF Visit, building, source, Turned
<1>2. /\ GoodTree(built) /\ built # <<>> /\ Nests(built)
      /\ order \in Seq(D) /\ todo \in Seq(D) /\ InOrder(order)
      /\ Tour(par, 1, M, N, todo, Len(todo)) /\ docs # <<>> /\ file = NoFile
  BY <1>1 DEF BuildInv, ShapeInv, OrderInv
<1>3. /\ Tree(par, M) /\ Part(par, M, 1, M) /\ M \in Nat /\ DOMAIN built = 1 .. M
      /\ \A k \in 1 .. M : par[k] = built[k].parent
  BY <1>2, TreeOfParents
<1>4. kids \in Seq(D) /\ Listed(par, M, n, kids, Len(kids))
  <2> DEFINE S == {c \in DOMAIN built : built[c].parent = n}
  <2>1. S = {c \in 1 .. M : par[c] = n}
    BY <1>3
  <2>2. kids = Ascending(S)
    BY DEF Kids
  <2> HIDE DEF S, par, kids, M, n
  <2> QED
    BY <1>3, <2>1, <2>2, ChildrenListed
<1> HIDE DEF kids, M, par
<1>5. /\ n = N + 1 /\ N + 1 \in 1 .. M
      /\ Turned(todo, kids) \in Seq(1 .. M)
      /\ Tour(par, 1, M, N + 1, Turned(todo, kids), Len(Turned(todo, kids)))
  <2> HIDE DEF n, N
  <2>1. todo \in Seq(1 .. M) /\ kids \in Seq(1 .. M)
    BY <1>2, <1>4
  <2>2. Listed(par, M, Last(todo), kids, Len(kids))
    BY <1>4 DEF n
  <2> QED
    BY <1>1, <1>2, <1>3, <2>1, <2>2, LoopTurn DEF n
<1>6. /\ order' \in Seq(D) /\ Len(order') = N + 1 /\ InOrder(order')
  <2>1. n \in D /\ order \in Seq(D)
    BY <1>2, <1>5
  <2> HIDE DEF n, D
  <2>2. /\ Append(order, n) \in Seq(D) /\ Len(Append(order, n)) = N + 1 /\ N \in Nat
        /\ Append(order, n)[N + 1] = n /\ \A i \in 1 .. N : Append(order, n)[i] = order[i]
    BY <2>1
  <2>3. \A i \in 1 .. N + 1 : i = N + 1 \/ i \in 1 .. N
    BY <2>2
  <2> HIDE DEF N
  <2>4. \A i \in 1 .. N + 1 : Append(order, n)[i] = i
    BY <1>2, <1>5, <2>2, <2>3 DEF InOrder, N
  <2> QED
    BY <1>1, <2>2, <2>4 DEF InOrder
<1> HIDE DEF N, n
<1>7. Tour(par, 1, M, Len(order'), todo', Len(todo')) /\ todo' \in Seq(1 .. M)
  BY <1>1, <1>5, <1>6
<1> QED
  BY <1>1, <1>2, <1>6, <1>7 DEF OrderInv, M, par

\* When the loop is over the order is complete.
LEMMA OrderedAtEnd == ASSUME BuildInv, ShapeInv, OrderInv, pc = "visit", todo = <<>> PROVE Ordered
<1>1. /\ GoodTree(built) /\ built # <<>> /\ Nests(built) /\ Rooted(built, roots)
      /\ order \in Seq(1 .. Len(built)) /\ InOrder(order)
      /\ Tour(Parents(built), 1, Len(built), Len(order), todo, Len(todo))
  BY DEF BuildInv, ShapeInv, OrderInv
<1>2. /\ Tree(Parents(built), Len(built)) /\ Part(Parents(built), Len(built), 1, Len(built))
  BY <1>1, TreeOfParents
<1>3. Len(order) = Len(built)
  BY <1>1, <1>2, LoopEnd
<1> QED
  BY <1>1, <1>3 DEF Ordered

\* Nothing is left over, and nothing hotter than its parent.
LEMMA Writable == ASSUME Ordered PROVE ~ Unwritable
<1>1. GoodTree(built) /\ built # <<>> /\ Len(order) = Len(built) /\ Len(built) \in Nat
  BY DEF Ordered, GoodTree
<1>2. \A n \in 2 .. Len(built) : ~ (built[n].tier < built[built[n].parent].tier)
  <2> SUFFICES ASSUME NEW n \in 2 .. Len(built)
      PROVE  ~ (built[n].tier < built[built[n].parent].tier)
    OBVIOUS
  <2>1. /\ built[n].parent \in 1 .. n-1 /\ built[built[n].parent].tier <= built[n].tier
        /\ n \in 1 .. Len(built)
    BY <1>1 DEF GoodTree
  <2>2. built[n].parent \in 1 .. Len(built)
    BY <1>1, <2>1
  <2>3. built[n] \in BuiltNode /\ built[built[n].parent] \in BuiltNode
    BY <1>1, <2>1, <2>2 DEF GoodTree
  <2>4. built[n].tier \in 0 .. 2 /\ built[built[n].parent].tier \in 0 .. 2
    BY <2>3 DEF BuiltNode, Tiers
  <2> QED
    BY <2>1, <2>4
<1>3. built[1].tier = 0
  BY <1>1 DEF GoodTree
<1> QED
  BY <1>1, <1>2, <1>3 DEF Unwritable

LEMMA WriteOrdered ==
  ASSUME BuildInv, ShapeInv, OrderInv, Write PROVE pc' = "open" /\ OrderInv'
<1>1. pc = "visit" /\ todo = <<>>
  BY DEF Write
<1>2. Ordered
  BY <1>1, OrderedAtEnd
<1>3. /\ pc' = "open" /\ file' = Written
      /\ built' = built /\ roots' = roots /\ order' = order /\ docs' = docs
  BY <1>2, Writable DEF Write, building, source
<1>4. Faithful(Written, built, roots)
  BY <1>2, WrittenFaithful
<1> HIDE DEF Written
<1>5. Faithful(file', built', roots')
  BY <1>3, <1>4
<1>6. order \in Seq(1 .. Len(built)) /\ InOrder(order) /\ built # <<>> /\ docs # <<>>
  BY <1>1 DEF OrderInv
<1> QED
  BY <1>3, <1>5, <1>6 DEF OrderInv

-----------------------------------------------------------------------------
LEMMA BuildInvStep == ASSUME BuildInv, ShapeInv, OrderInv, [Next]_vars PROVE BuildInv'
<1>1. CASE BeginSkill
  BY <1>1, BeginSkillKeeps
<1>2. CASE EndSkill
  BY <1>2, EndSkillKeeps
<1>3. CASE \E l \in Levels, t \in Titles : Heading(l, t)
  BY <1>3, HeadingKeeps
<1>4. CASE \E t \in Texts : Text(t)
  BY <1>4, TextKeeps
<1>5. CASE \E c \in Codes, runs, closed \in BOOLEAN : Fence(c, runs, closed)
  BY <1>5, FenceKeeps
<1>6. CASE StartWrite
  BY <1>6, StartWriteOrdered, OthersKeep DEF StartWrite, source, building, section
<1>7. CASE Visit
  BY <1>7, OthersKeep DEF Visit, source, building, section
<1>8. CASE Write
  BY <1>8, WriteOrdered, OthersKeep DEF Write, source, building, section
<1>9. CASE \E d \in DOMAIN docs : StartRender(d)
  BY <1>9, OthersKeep DEF StartRender, source, building, section
<1>10. CASE EmitAt
  BY <1>10, OthersKeep DEF EmitAt, source, building, section
<1>11. CASE EndRender
  BY <1>11, OthersKeep DEF EndRender, source, building, section
<1>12. CASE UNCHANGED vars
  BY <1>12, OthersKeep DEF vars
<1> QED
  BY <1>1, <1>2, <1>3, <1>4, <1>5, <1>6, <1>7, <1>8, <1>9, <1>10, <1>11, <1>12 DEF Next

LEMMA ShapeInvStep == ASSUME BuildInv, ShapeInv, OrderInv, [Next]_vars PROVE ShapeInv'
<1>1. CASE BeginSkill
  BY <1>1, BeginSkillShape
<1>2. CASE EndSkill
  BY <1>2, EndSkillShape
<1>3. CASE \E l \in Levels, t \in Titles : Heading(l, t)
  BY <1>3, HeadingShape
<1>4. CASE \E t \in Texts : Text(t)
  BY <1>4, TextShape
<1>5. CASE \E c \in Codes, runs, closed \in BOOLEAN : Fence(c, runs, closed)
  BY <1>5, FenceShape
<1>6. CASE StartWrite
  BY <1>6, StartWriteOrdered, OthersShape DEF StartWrite, source, building, section
<1>7. CASE Visit
  BY <1>7, OthersShape DEF Visit, source, building, section
<1>8. CASE Write
  BY <1>8, WriteOrdered, OthersShape DEF Write, source, building, section
<1>9. CASE \E d \in DOMAIN docs : StartRender(d)
  BY <1>9, OthersShape DEF StartRender, source, building, section
<1>10. CASE EmitAt
  BY <1>10, OthersShape DEF EmitAt, source, building, section
<1>11. CASE EndRender
  BY <1>11, OthersShape DEF EndRender, source, building, section
<1>12. CASE UNCHANGED vars
  BY <1>12, OthersShape DEF vars
<1> QED
  BY <1>1, <1>2, <1>3, <1>4, <1>5, <1>6, <1>7, <1>8, <1>9, <1>10, <1>11, <1>12 DEF Next

LEMMA OrderInvStep == ASSUME BuildInv, ShapeInv, OrderInv, [Next]_vars PROVE OrderInv'
<1>1. CASE BeginSkill
  BY <1>1, BeforeOrdered DEF BeginSkill, writing
<1>2. CASE EndSkill
  BY <1>2, BeforeOrdered DEF EndSkill, writing
<1>3. CASE \E l \in Levels, t \in Titles : Heading(l, t)
  BY <1>3, BeforeOrdered DEF Heading, Parsed, writing
<1>4. CASE \E t \in Texts : Text(t)
  BY <1>4, BeforeOrdered DEF Text, Parsed, writing
<1>5. CASE \E c \in Codes, runs, closed \in BOOLEAN : Fence(c, runs, closed)
  BY <1>5, BeforeOrdered DEF Fence, Parsed, writing
<1>6. CASE StartWrite
  BY <1>6, StartWriteOrdered
<1>7. CASE Visit
  BY <1>7, VisitOrdered
<1>8. CASE Write
  BY <1>8, WriteOrdered
<1>9. CASE \E d \in DOMAIN docs : StartRender(d)
  BY <1>9, AfterOrdered DEF StartRender, source, building, writing
<1>10. CASE EmitAt
  BY <1>10, AfterOrdered DEF EmitAt, source, building, writing
<1>11. CASE EndRender
  BY <1>11, AfterOrdered DEF EndRender, source, building, writing
<1>12. CASE UNCHANGED vars
  <2>1. UNCHANGED <<pc, docs, built, roots, order, todo, file>>
    BY <1>12 DEF vars
  <2> QED
    BY <2>1 DEF OrderInv, InOrder
<1> QED
  BY <1>1, <1>2, <1>3, <1>4, <1>5, <1>6, <1>7, <1>8, <1>9, <1>10, <1>11, <1>12 DEF Next

LEMMA Building == Spec => [](BuildInv /\ ShapeInv /\ OrderInv)
<1>1. Init => BuildInv /\ ShapeInv /\ OrderInv
  BY BuildInvInit, ShapeInvInit, OrderInvInit
<1>2. BuildInv /\ ShapeInv /\ OrderInv /\ [Next]_vars => (BuildInv /\ ShapeInv /\ OrderInv)'
  BY BuildInvStep, ShapeInvStep, OrderInvStep
<1> QED
  BY <1>1, <1>2, PTL DEF Spec

\* What the reader finds in the table.
LEMMA FileTable ==
  ASSUME BuildInv, OrderInv, pc \in {"open", "render", "printed"}
  PROVE  /\ GoodTree(built) /\ built # <<>> /\ Len(built) \in Nat /\ Len(built) >= 1
         /\ DOMAIN built = 1 .. Len(built)
         /\ DOMAIN file.table = 1 .. Len(built) /\ Len(file.table) = Len(built)
         /\ \A i \in 1 .. Len(built) :
              /\ file.table[i].kind = built[i].kind /\ file.table[i].tier = built[i].tier
              /\ file.table[i].role = built[i].role /\ file.table[i].name = built[i].name
              /\ file.table[i].depth = built[i].depth /\ file.table[i].parent = built[i].parent
         /\ \A i \in 1 .. Len(built) : Payload(i) = built[i].payload
         /\ \A i \in 1 .. Len(built) : ChildrenOf(i) = KidsIn(built, i)
<1>1. GoodTree(built) /\ built # <<>> /\ Copied(file, built) /\ Placed(file, built)
  BY DEF BuildInv, OrderInv, Faithful
<1>2. Len(built) \in Nat /\ Len(built) >= 1 /\ DOMAIN built = 1 .. Len(built)
  BY <1>1 DEF GoodTree
<1>3. DOMAIN file.table = 1 .. Len(built) /\ Len(file.table) = Len(built)
  BY <1>1 DEF Copied
<1>4. \A i \in 1 .. Len(built) :
        /\ file.table[i].kind = built[i].kind /\ file.table[i].tier = built[i].tier
        /\ file.table[i].role = built[i].role /\ file.table[i].name = built[i].name
        /\ file.table[i].depth = built[i].depth /\ file.table[i].parent = built[i].parent
  BY <1>1 DEF Copied
<1>5. \A i \in 1 .. Len(built) : Payload(i) = built[i].payload
  <2>1. \A i \in 1 .. Len(built) : PayloadIn(file, i) = built[i].payload
    BY <1>1 DEF Placed
  <2>2. \A i : PayloadIn(file, i) = Payload(i)
    BY DEF PayloadIn, Payload
  <2> QED
    BY <2>1, <2>2
<1>6. \A i \in 1 .. Len(built) : ChildrenOf(i) = KidsIn(built, i)
  <2> SUFFICES ASSUME NEW i \in 1 .. Len(built) PROVE ChildrenOf(i) = KidsIn(built, i)
    OBVIOUS
  <2>1. {c \in DOMAIN file.table : file.table[c].parent = i}
        = {c \in DOMAIN built : built[c].parent = i}
    BY <1>2, <1>3, <1>4
  <2> QED
    BY <2>1 DEF ChildrenOf, KidsIn
<1> QED
  BY <1>1, <1>2, <1>3, <1>4, <1>5, <1>6

\* The hashes a reader computes are those of the tree.
LEMMA ReadHashes ==
  ASSUME BuildInv, OrderInv, pc \in {"open", "render", "printed"}
  PROVE  Hashes(ReadHash, built)
<1> DEFINE Solves(h) == h = [n \in DOMAIN built |-> HashFrom(built, h, n)]
           Read(h, i) == SubtreeHash(file.table[i], Payload(i),
                                     [k \in DOMAIN ChildrenOf(i) |-> h[ChildrenOf(i)[k]]])
<1>1. /\ GoodTree(built) /\ DOMAIN built = 1 .. Len(built) /\ DOMAIN file.table = DOMAIN built
      /\ \A i \in 1 .. Len(built) :
           /\ file.table[i].kind = built[i].kind /\ file.table[i].tier = built[i].tier
           /\ file.table[i].role = built[i].role /\ file.table[i].name = built[i].name
           /\ file.table[i].depth = built[i].depth
      /\ \A i \in 1 .. Len(built) : Payload(i) = built[i].payload
      /\ \A i \in 1 .. Len(built) : ChildrenOf(i) = KidsIn(built, i)
  BY FileTable
<1>2. ASSUME NEW h, NEW i \in DOMAIN built PROVE Read(h, i) = HashFrom(built, h, i)
  <2>1. i \in 1 .. Len(built)
    BY <1>1
  <2>2. Payload(i) = built[i].payload /\ ChildrenOf(i) = KidsIn(built, i)
    BY <1>1, <2>1
  <2>3. \A p, c : SubtreeHash(file.table[i], p, c) = SubtreeHash(built[i], p, c)
    BY <1>1, <2>1 DEF SubtreeHash
  <2> QED
    BY <2>2, <2>3 DEF HashFrom
<1>3. \A h : [i \in DOMAIN file.table |-> Read(h, i)]
              = [n \in DOMAIN built |-> HashFrom(built, h, n)]
  <2> HIDE DEF Read
  <2> QED
    BY <1>1, <1>2
<1>4. ReadHash = CHOOSE h : h = [i \in DOMAIN file.table |-> Read(h, i)]
  BY DEF ReadHash
<1>5. \E h : Solves(h)
  BY <1>1, HashesExist
<1>6. Solves(ReadHash)
  <2>1. \E h : h = [i \in DOMAIN file.table |-> Read(h, i)]
    <3> HIDE DEF Read
    <3> QED
      BY <1>3, <1>5
  <2>2. ReadHash = [i \in DOMAIN file.table |-> Read(ReadHash, i)]
    <3> HIDE DEF Read
    <3> QED
      BY <1>4, <2>1
  <2> HIDE DEF Read
  <2> QED
    BY <1>3, <2>2
<1> QED
  BY <1>1, <1>6 DEF Hashes

LEMMA Verifies == ASSUME BuildInv, OrderInv PROVE CommitmentsVerify
<1> SUFFICES ASSUME pc = "open", NEW i \in DOMAIN file.table, file.table[i].hash # <<>>
    PROVE  file.table[i].hash = ReadHash[i]
  BY DEF CommitmentsVerify
<1>1. DOMAIN file.table = 1 .. Len(built) /\ GoodTree(built)
  BY FileTable
<1>2. Hashes(ReadHash, built)
  BY ReadHashes
<1>3. PICK h : Hashes(h, built)
        /\ \A n \in 1 .. Len(built) :
             file.table[n].hash = IF Committed(built, n) THEN h[n] ELSE <<>>
  BY DEF OrderInv, Faithful, Sealed
<1>4. h[i] = ReadHash[i]
  BY <1>1, <1>2, <1>3, HashesUnique
<1> QED
  BY <1>1, <1>3, <1>4

\* The equation CommitmentFor is defined by has a solution; up is 0 where a hash is
\* kept.
LEMMA CoversExist ==
  ASSUME NEW n \in Nat, NEW up, \A i \in 1 .. n : up[i] = 0 \/ up[i] \in 1 .. i-1
  PROVE  \E p : p = [i \in 1 .. n |-> IF up[i] = 0 THEN i ELSE p[up[i]]]
<1> DEFINE Follows(p, k) == \A i \in 1 .. k : p[i] = IF up[i] = 0 THEN i ELSE p[up[i]]
           Without == {k \in 0 .. n : ~ \E p : Follows(p, k)}
<1>1. Without = {}
  <2> SUFFICES ASSUME Without # {} PROVE FALSE
    OBVIOUS
  <2>1. PICK k \in Without : \A m \in Without : k <= m
    <3>1. Without \subseteq Nat
      OBVIOUS
    <3> HIDE DEF Without
    <3> QED
      BY <3>1, Smallest
  <2>2. k \in 0 .. n /\ ~ \E p : Follows(p, k)
    BY <2>1
  <2>3. k # 0
    <3>1. \A p : Follows(p, 0)
      OBVIOUS
    <3> HIDE DEF Follows
    <3> QED
      BY <2>2, <3>1
  <2>4. k - 1 \in 0 .. n /\ k - 1 \notin Without
    <3>1. k \in Nat /\ k - 1 \in 0 .. n /\ ~ (k <= k - 1)
      BY <2>2, <2>3
    <3> HIDE DEF Without
    <3> QED
      BY <2>1, <3>1
  <2>5. PICK p : Follows(p, k-1)
    <3> HIDE DEF Follows
    <3> QED
      BY <2>4
  <2> DEFINE q == [i \in 1 .. k |-> IF up[i] = 0 THEN i ELSE p[up[i]]]
  <2>6. ASSUME NEW i \in 1 .. k
        PROVE  q[i] = IF up[i] = 0 THEN i ELSE q[up[i]]
    <3>1. CASE up[i] = 0
      BY <3>1
    <3>2. CASE up[i] # 0
      <4>1. up[i] \in 1 .. k-1 /\ up[i] \in 1 .. k
        BY <2>2, <3>2
      <4> DEFINE j == up[i]
      <4>2. p[j] = IF up[j] = 0 THEN j ELSE p[up[j]]
        BY <2>5, <4>1
      <4>3. q[j] = IF up[j] = 0 THEN j ELSE p[up[j]]
        BY <4>1
      <4>4. q[i] = p[j]
        BY <3>2
      <4> QED
        BY <3>2, <4>2, <4>3, <4>4
    <3> QED
      BY <3>1, <3>2
  <2> HIDE DEF q
  <2>7. Follows(q, k)
    BY <2>6
  <2> HIDE DEF Follows
  <2> QED
    BY <2>2, <2>7
<1>2. PICK p : Follows(p, n)
  <2>1. n \notin Without
    <3> HIDE DEF Without
    <3> QED
      BY <1>1
  <2>2. n \in 0 .. n
    OBVIOUS
  <2> HIDE DEF Follows
  <2> QED
    BY <2>1, <2>2
<1> DEFINE q == [i \in 1 .. n |-> p[i]]
<1>3. ASSUME NEW i \in 1 .. n PROVE q[i] = IF up[i] = 0 THEN i ELSE q[up[i]]
  <2>1. up[i] # 0 => up[i] \in 1 .. n
    OBVIOUS
  <2> QED
    BY <1>2, <2>1
<1>4. q = [i \in 1 .. n |-> IF up[i] = 0 THEN i ELSE q[up[i]]]
  <2>1. q = [i \in 1 .. n |-> q[i]]
    OBVIOUS
  <2> HIDE DEF q
  <2> QED
    BY <1>3, <2>1
<1> HIDE DEF q
<1> QED
  BY <1>4

LEMMA HashIsSome == ASSUME NEW b, NEW h, NEW n PROVE HashFrom(b, h, n) # <<>>
BY DEF HashFrom, SubtreeHash

LEMMA WithinTier == ASSUME BuildInv, OrderInv PROVE VerifiedWithinTier
<1> SUFFICES ASSUME pc = "open"
    PROVE  \A i \in DOMAIN file.table :
             file.table[CommitmentFor[i]].tier = file.table[i].tier
  BY DEF VerifiedWithinTier
<1> DEFINE M == Len(built)
           t == file.table
           up == [i \in 1 .. M |-> IF t[i].hash # <<>> THEN 0 ELSE t[i].parent]
           cover == CommitmentFor
<1>1. /\ M \in Nat /\ DOMAIN t = 1 .. M /\ GoodTree(built)
      /\ \A i \in 1 .. M : t[i].tier = built[i].tier
      /\ \A i \in 1 .. M : t[i].parent = built[i].parent
  BY FileTable
<1>2. PICK h : Hashes(h, built)
        /\ \A n \in 1 .. M : t[n].hash = IF Committed(built, n) THEN h[n] ELSE <<>>
  BY DEF OrderInv, Faithful, Sealed
<1>3. \A i \in 1 .. M : t[i].hash # <<>> <=> Committed(built, i)
  <2>1. \A n \in 1 .. M : h[n] # <<>>
    BY <1>2, HashIsSome DEF Hashes
  <2> QED
    BY <1>2, <2>1
\* A node whose hash is not kept is of the tier of its parent.
<1>4. ASSUME NEW i \in 1 .. M, t[i].hash = <<>>
      PROVE  up[i] \in 1 .. i-1 /\ up[i] \in 1 .. M /\ t[up[i]].tier = t[i].tier
  <2>1. ~ Committed(built, i)
    BY <1>3, <1>4
  <2>2. i # 1 /\ ~ (built[i].tier > built[built[i].parent].tier)
    BY <2>1 DEF Committed
  <2>3. i \in 2 .. M
    BY <2>2
  <2>4. built[i].parent \in 1 .. i-1 /\ built[built[i].parent].tier <= built[i].tier
    BY <1>1, <2>3 DEF GoodTree
  <2>5. built[i].parent \in 1 .. M
    BY <1>1, <2>4
  <2>6. built[i].tier \in 0 .. 2 /\ built[built[i].parent].tier \in 0 .. 2
    <3>1. built[i] \in BuiltNode /\ built[built[i].parent] \in BuiltNode
      BY <1>1, <2>5 DEF GoodTree
    <3> QED
      BY <3>1 DEF BuiltNode, Tiers
  <2>7. built[built[i].parent].tier = built[i].tier
    BY ONLY <2>2, <2>4, <2>6
  <2>8. up[i] = built[i].parent
    BY <1>1, <1>4
  <2> HIDE DEF up
  <2> QED
    BY <1>1, <2>4, <2>5, <2>7, <2>8
<1>5. \A i \in 1 .. M : up[i] = 0 \/ up[i] \in 1 .. i-1
  BY <1>4
<1>6. \A i \in 1 .. M : cover[i] = IF up[i] = 0 THEN i ELSE cover[up[i]]
  <2> DEFINE Solves(p) == p = [i \in 1 .. M |-> IF up[i] = 0 THEN i ELSE p[up[i]]]
  <2>1. \E p : Solves(p)
    <3> HIDE DEF up, M
    <3> QED
      BY <1>1, <1>5, CoversExist
  <2>2. CommitmentFor = CHOOSE p : p = [i \in DOMAIN file.table |->
          IF file.table[i].hash # <<>> THEN i ELSE p[file.table[i].parent]]
    BY DEF CommitmentFor
  <2>3. \A p : Solves(p) <=> p = [i \in DOMAIN file.table |->
          IF file.table[i].hash # <<>> THEN i ELSE p[file.table[i].parent]]
    <3> TAKE p
    <3>1. \A i \in 1 .. M :
            /\ up[i] = 0 <=> file.table[i].hash # <<>>
            /\ up[i] # 0 => up[i] = file.table[i].parent
      BY <1>4
    <3>2. [i \in 1 .. M |-> IF up[i] = 0 THEN i ELSE p[up[i]]]
          = [i \in DOMAIN file.table |->
               IF file.table[i].hash # <<>> THEN i ELSE p[file.table[i].parent]]
      <4> HIDE DEF up
      <4> QED
        BY <1>1, <3>1
    <3> QED
      BY <3>2
  <2>4. Solves(CommitmentFor)
    <3> HIDE DEF Solves
    <3> QED
      BY <2>1, <2>2, <2>3
  <2> QED
    BY <2>4
<1>a. \A i \in 1 .. M : up[i] # 0 => t[i].hash = <<>>
  OBVIOUS
<1> HIDE DEF up, cover
<1> DEFINE Bad == {i \in 1 .. M : t[cover[i]].tier # t[i].tier}
<1>7. Bad = {}
  <2> SUFFICES ASSUME Bad # {} PROVE FALSE
    OBVIOUS
  <2>1. PICK i \in Bad : \A m \in Bad : i <= m
    <3>1. Bad \subseteq Nat
      OBVIOUS
    <3> HIDE DEF Bad
    <3> QED
      BY <3>1, Smallest
  <2>2. i \in 1 .. M /\ t[cover[i]].tier # t[i].tier
    BY <2>1
  <2>3. up[i] # 0
    BY <1>6, <2>2
  <2>4. up[i] \in 1 .. i-1 /\ up[i] \in 1 .. M /\ t[up[i]].tier = t[i].tier
    BY <1>4, <1>a, <2>2, <2>3
  <2>5. up[i] \notin Bad
    <3>1. ~ (i <= up[i])
      BY <2>2, <2>4
    <3> HIDE DEF Bad
    <3> QED
      BY <2>1, <3>1
  <2>6. t[cover[up[i]]].tier = t[up[i]].tier
    BY <2>4, <2>5
  <2>7. cover[i] = cover[up[i]]
    BY <1>6, <2>2, <2>3
  <2> QED
    BY <2>2, <2>4, <2>6, <2>7
<1> QED
  BY <1>1, <1>7 DEF cover

\* Each parent is on the path from the entry before.
LEMMA PreOrdered ==
  ASSUME BuildInv, ShapeInv, OrderInv, pc = "open"
  PROVE  InPreOrder(file.table)
<1> DEFINE M == Len(built)
           up == Parents(built)
<1>1. /\ GoodTree(built) /\ built # <<>> /\ M \in Nat /\ M >= 1
      /\ DOMAIN file.table = 1 .. M /\ Len(file.table) = M
      /\ \A i \in 1 .. M : file.table[i].tier = built[i].tier
      /\ \A i \in 1 .. M : file.table[i].parent = built[i].parent
  BY FileTable
<1>2. /\ Tree(up, M) /\ \A k \in 1 .. M : up[k] = built[k].parent
  BY <1>1, TreeOfParents DEF ShapeInv
<1>3. /\ \A c \in 1 .. M : up[c] \in 0 .. c-1
      /\ \A c \in 2 .. M : up[c] # 0 /\ \A i \in up[c] + 1 .. c-1 : up[i] >= up[c]
  BY <1>2 DEF Tree
<1>a. /\ built[1].parent = 0 /\ built[1].tier = 0
      /\ \A k \in 2 .. M : built[built[k].parent].tier <= built[k].tier
  BY <1>1 DEF GoodTree
<1>b. \A i \in 1 .. M : built[i].tier \in 0 .. 2
  <2>1. \A i \in 1 .. M : built[i] \in BuiltNode
    BY <1>1 DEF GoodTree
  <2> QED
    BY <2>1 DEF BuiltNode, Tiers
<1> HIDE DEF up, M
<1>4. \A i \in 1 .. M : up[i] = 0 \/ up[i] \in 1 .. i-1
  BY <1>3
<1>5. \A i \in 1 .. M :
        RootPath[i] = {i} \cup (IF up[i] = 0 THEN {} ELSE RootPath[up[i]])
  <2> DEFINE Solves(p) ==
               p = [i \in 1 .. M |-> {i} \cup (IF up[i] = 0 THEN {} ELSE p[up[i]])]
  <2>1. \E p : Solves(p)
    BY <1>1, <1>4, PathsExist
  <2>2. RootPath = CHOOSE p : p = [i \in DOMAIN file.table |->
          {i} \cup (IF file.table[i].parent = 0 THEN {} ELSE p[file.table[i].parent])]
    BY DEF RootPath
  <2>3. \A p : Solves(p) <=> p = [i \in DOMAIN file.table |->
          {i} \cup (IF file.table[i].parent = 0 THEN {} ELSE p[file.table[i].parent])]
    <3> TAKE p
    <3>1. \A i \in 1 .. M : up[i] = file.table[i].parent
      BY <1>1, <1>2
    <3>2. [i \in 1 .. M |-> {i} \cup (IF up[i] = 0 THEN {} ELSE p[up[i]])]
          = [i \in DOMAIN file.table |->
               {i} \cup (IF file.table[i].parent = 0 THEN {} ELSE p[file.table[i].parent])]
      BY <1>1, <3>1
    <3> QED
      BY <3>2
  <2>4. Solves(RootPath)
    <3> HIDE DEF Solves
    <3> QED
      BY <2>1, <2>2, <2>3
  <2> QED
    BY <2>4
<1>6. ASSUME NEW i \in 2 .. M
      PROVE  /\ file.table[i].parent \in RootPath[i-1]
             /\ file.table[i].tier >= file.table[file.table[i].parent].tier
  <2> DEFINE p == up[i]
             Bad == {x \in p .. i-1 : p \notin RootPath[x]}
  <2>1. i \in 1 .. M /\ p \in 1 .. i-1 /\ p \in 1 .. M /\ file.table[i].parent = p
        /\ built[i].parent = p
    BY <1>1, <1>2, <1>3
  <2>2. \A x \in p + 1 .. i-1 : up[x] >= p
    BY <1>3
  <2> HIDE DEF p
  <2>3. Bad = {}
    <3> SUFFICES ASSUME Bad # {} PROVE FALSE
      OBVIOUS
    <3>1. PICK x \in Bad : \A y \in Bad : x <= y
      <4>1. Bad \subseteq Nat
        BY <2>1
      <4> HIDE DEF Bad
      <4> QED
        BY <4>1, Smallest
    <3>2. x \in p .. i-1 /\ p \notin RootPath[x] /\ x \in 1 .. M
      BY <1>1, <2>1, <3>1
    <3>3. x # p
      BY <1>5, <3>2
    <3>4. x \in p + 1 .. i-1
      BY <2>1, <3>2, <3>3
    <3>5. up[x] >= p /\ up[x] \in 0 .. x-1
      BY <1>3, <2>2, <3>2, <3>4
    <3>6. up[x] \in p .. i-1 /\ up[x] # 0 /\ ~ (x <= up[x])
      BY <2>1, <3>2, <3>5
    <3>7. p \in RootPath[up[x]]
      <4>1. up[x] \notin Bad
        <5> HIDE DEF Bad
        <5> QED
          BY <3>1, <3>6
      <4> QED
        BY <3>6, <4>1
    <3>8. RootPath[x] = {x} \cup RootPath[up[x]]
      BY <1>5, <3>2, <3>6
    <3> QED
      BY <3>2, <3>7, <3>8
  <2>4. p \in RootPath[i-1]
    <3>1. i-1 \in p .. i-1
      BY <2>1
    <3> QED
      BY <2>3, <3>1
  <2>5. file.table[i].tier = built[i].tier /\ file.table[p].tier = built[p].tier
    BY <1>1, <2>1
  <2>6. built[p].tier <= built[i].tier /\ built[p].tier \in 0 .. 2 /\ built[i].tier \in 0 .. 2
    BY <1>a, <1>b, <2>1
  <2> QED
    BY <2>1, <2>4, <2>5, <2>6
<1>7. file.table[1].parent = 0 /\ file.table[1].tier = 0
  BY <1>1, <1>a
<1> QED
  BY <1>1, <1>6, <1>7 DEF InPreOrder

LEMMA Typed == ASSUME BuildInv, ShapeInv, OrderInv PROVE TypeOK
<1>1. built \in Seq(BuiltNode) /\ GoodTree(built) /\ DOMAIN built = 1 .. Len(built)
      /\ Len(built) \in Nat
  BY DEF BuildInv, GoodTree
<1>2. pc \in {"skills", "blocks", "visit", "refused", "open", "render", "printed"}
  BY DEF ShapeInv
<1>3. ASSUME NEW n \in DOMAIN built
      PROVE  built[n].kind \in Kinds /\ built[n].tier \in Tiers /\ built[n].parent \in 0 .. n-1
  <2>1. built[n] \in BuiltNode /\ n \in 1 .. Len(built)
    BY <1>1
  <2>2. built[n].parent \in 0 .. n-1
    <3>1. CASE n = 1
      BY <1>1, <3>1 DEF GoodTree
    <3>2. CASE n # 1
      <4>1. n \in 2 .. Len(built)
        BY <1>1, <2>1, <3>2
      <4>2. built[n].parent \in 1 .. n-1
        BY <1>1, <4>1 DEF GoodTree
      <4> QED
        BY <2>1, <4>2
    <3> QED
      BY <3>1, <3>2
  <2> QED
    BY <2>1, <2>2 DEF BuiltNode
<1>4. roots \in Seq(DOMAIN built)
  <2>1. roots \in Seq(Nat) /\ \A d \in 1 .. Len(roots) : roots[d] \in DOMAIN built
    BY <1>1 DEF ShapeInv, Rooted
  <2> QED
    BY <2>1
<1>5. pending \in {0} \cup DOMAIN built
  <2>1. pending \in 0 .. Len(built)
    BY DEF ShapeInv
  <2> QED
    BY <1>1, <2>1
<1>6. fenced \in BOOLEAN
  BY DEF ShapeInv
<1>7. order \in Seq(DOMAIN built)
  BY <1>1 DEF OrderInv
<1>8. ASSUME NEW i \in DOMAIN file.table
      PROVE  file.table[i].offset
               \in {0} \cup DOMAIN (IF file.table[i].tier = 0 THEN file.hot ELSE file.cold)
  <2>1. CASE pc \in {"open", "render", "printed"}
    <3>1. i \in 1 .. Len(built) /\ Placed(file, built)
      BY <2>1, FileTable DEF OrderInv, Faithful
    <3> QED
      BY <3>1 DEF Placed
  <2>2. CASE pc \notin {"open", "render", "printed"}
    <3>1. file.table = <<>>
      BY <2>2 DEF OrderInv, NoFile
    <3> QED
      BY <3>1
  <2> QED
    BY <2>1, <2>2
<1> QED
  BY <1>2, <1>3, <1>4, <1>5, <1>6, <1>7, <1>8 DEF TypeOK

-----------------------------------------------------------------------------
(***************************************************************************)
(* What render prints                                                      *)
(***************************************************************************)
FrontMatter == [type |-> "front"]
Item == Block \cup {FrontMatter}

\* What a node prints, other than its children.
Lines(n) ==
  IF n.role = "frontmatter" THEN <<FrontMatter>>
  ELSE IF Leaf(n)
  THEN <<[type |-> "fence", code |-> n.payload, runs |-> n.name[1],
          closed |-> n.role # "fenceUnclosed" /\ n.name[2]]>>
  ELSE (IF n.role # "continuation" /\ n.depth > 0
        THEN <<[type |-> "heading", level |-> n.depth, title |-> n.name[1]]>>
        ELSE <<>>) \o Printed(n.payload)

\* pre[k] is what the nodes after r, up to k, print.
Pre(b, r, e, pre) ==
  /\ pre[r] = <<>>
  /\ \A k \in r .. e : pre[k] \in Seq(Item)
  /\ \A k \in r+1 .. e : pre[k] = pre[k-1] \o Lines(b[k])

Transcript(b, r, e, s) == \E pre : Pre(b, r, e, pre) /\ pre[e] = s

SourceOf(doc) == (IF doc.front THEN <<FrontMatter>> ELSE <<>>) \o doc.blocks

\* The nodes of a document print its source, until artifact and gate are hung from
\* its root.
Told(ds, b, rts, state) ==
  \A d \in 1 .. Len(ds) :
    ~ ds[d].adorned \/ (d = Len(ds) /\ state = "blocks")
      => Transcript(b, rts[d], LastOf(b, rts, d), SourceOf(ds[d]))

StoryInv == Told(docs, built, roots, pc)

\* o is what the nodes after r, up to j, print.
Shown(b, r, e, j, o) == \A pre : Pre(b, r, e, pre) => o = IF j < r THEN <<>> ELSE pre[j]

LEMMA TranscriptKept ==
  ASSUME NEW b, NEW c, NEW r, NEW e, NEW s, Transcript(b, r, e, s),
         \A k \in r+1 .. e : c[k] = b[k]
  PROVE  Transcript(c, r, e, s)
<1>1. PICK pre : Pre(b, r, e, pre) /\ pre[e] = s
  BY DEF Transcript
<1>2. Pre(c, r, e, pre)
  BY <1>1 DEF Pre
<1> QED
  BY <1>1, <1>2 DEF Transcript

\* A node is added, and prints one item more.
LEMMA TranscriptGrown ==
  ASSUME NEW b, NEW node, NEW c, Grown(b, node, c), NEW r \in 1 .. Len(b),
         NEW s, Transcript(b, r, Len(b), s), NEW x \in Item, Lines(node) = <<x>>
  PROVE  Transcript(c, r, Len(c), s \o <<x>>)
<1> DEFINE e == Len(b)
           new == s \o <<x>>
<1>1. PICK pre : Pre(b, r, e, pre) /\ pre[e] = s
  BY DEF Transcript
<1>2. /\ e \in Nat /\ Len(c) = e + 1 /\ c[e+1] = node /\ r \in 1 .. e
      /\ \A k \in 1 .. e : c[k] = b[k]
  BY DEF Grown
<1>3. s \in Seq(Item)
  <2>1. e \in r .. e
    BY <1>2
  <2> QED
    BY <1>1, <2>1 DEF Pre
<1>4. new \in Seq(Item)
  <2> HIDE DEF Item
  <2> QED
    BY <1>3
<1> HIDE DEF e, new
<1> DEFINE p == [k \in r .. e + 1 |-> IF k = e + 1 THEN new ELSE pre[k]]
<1>5. /\ p[e+1] = new /\ \A k \in r .. e : p[k] = pre[k]
  BY <1>2
<1> HIDE DEF p
<1>6. p[r] = <<>>
  BY <1>1, <1>2, <1>5 DEF Pre
<1>7. ASSUME NEW k \in r .. e + 1 PROVE p[k] \in Seq(Item)
  <2>1. k = e + 1 \/ k \in r .. e
    BY <1>2
  <2>2. \A i \in r .. e : pre[i] \in Seq(Item)
    BY <1>1 DEF Pre
  <2> QED
    BY ONLY <1>4, <1>5, <2>1, <2>2
<1>8. ASSUME NEW k \in r+1 .. e + 1 PROVE p[k] = p[k-1] \o Lines(c[k])
  <2>1. CASE k = e + 1
    <3>1. k - 1 = e /\ e \in r .. e
      BY <1>2, <2>1
    <3>2. p[k-1] = s /\ p[k] = new /\ c[k] = node
      BY <1>1, <1>2, <1>5, <2>1, <3>1
    <3> QED
      BY <3>2 DEF new
  <2>2. CASE k # e + 1
    <3>1. k \in r+1 .. e /\ k \in r .. e /\ k-1 \in r .. e /\ k \in 1 .. e
      BY <1>2, <2>2
    <3>2. pre[k] = pre[k-1] \o Lines(b[k])
      BY <1>1, <3>1 DEF Pre
    <3> QED
      BY <1>2, <1>5, <3>1, <3>2
  <2> QED
    BY <2>1, <2>2
<1>9. Pre(c, r, e + 1, p)
  BY ONLY <1>6, <1>7, <1>8 DEF Pre
<1>10. Transcript(c, r, e + 1, new)
  BY <1>5, <1>9 DEF Transcript
<1> QED
  BY <1>2, <1>10 DEF new

LEMMA Regroup ==
  ASSUME NEW S, NEW s, NEW h, NEW x, s \in Seq(S)
  PROVE  (s \o <<h>>) \o <<x>> = s \o (<<h>> \o <<x>>)
<1> DEFINE T == S \cup {h, x}
<1>1. s \in Seq(T) /\ <<h>> \in Seq(T) /\ <<x>> \in Seq(T)
  OBVIOUS
<1> HIDE DEF T
<1> QED
  BY <1>1

\* The last node is given a payload, and prints it after its heading.
LEMMA TranscriptFilled ==
  ASSUME NEW b, NEW e, NEW c, Filled(b, e, c), e = Len(b), NEW r \in 1 .. Len(b), r # e,
         NEW s, Transcript(b, r, e, s), NEW h, Lines(b[e]) = <<h>>,
         NEW x \in Item, Lines(c[e]) = <<h>> \o <<x>>
  PROVE  Transcript(c, r, e, s \o <<x>>)
<1> DEFINE new == s \o <<x>>
<1>1. PICK pre : Pre(b, r, e, pre) /\ pre[e] = s
  BY DEF Transcript
<1>2. /\ e \in Nat /\ r \in 1 .. e /\ r <= e-1 /\ e \in r+1 .. e /\ e \in r .. e /\ e-1 \in r .. e
      /\ \A k \in 1 .. e : k # e => c[k] = b[k]
  BY DEF Filled
<1>3. s \in Seq(Item) /\ pre[e-1] \in Seq(Item) /\ s = pre[e-1] \o <<h>>
  BY <1>1, <1>2 DEF Pre
<1>4. new \in Seq(Item)
  <2> HIDE DEF Item
  <2> QED
    BY <1>3
<1>5. new = pre[e-1] \o Lines(c[e])
  <2> HIDE DEF Item
  <2>1. (pre[e-1] \o <<h>>) \o <<x>> = pre[e-1] \o (<<h>> \o <<x>>)
    <3> DEFINE u == pre[e-1]
    <3>1. u \in Seq(Item)
      BY <1>3
    <3> HIDE DEF u
    <3>2. (u \o <<h>>) \o <<x>> = u \o (<<h>> \o <<x>>)
      BY ONLY <3>1, Regroup
    <3> QED
      BY ONLY <3>2 DEF u
  <2> QED
    BY <1>3, <2>1
<1> HIDE DEF new
<1> DEFINE p == [k \in r .. e |-> IF k = e THEN new ELSE pre[k]]
<1>6. /\ p[e] = new /\ \A k \in r .. e : k # e => p[k] = pre[k]
  BY <1>2
<1> HIDE DEF p
<1>7. p[r] = <<>>
  BY <1>1, <1>2, <1>6 DEF Pre
<1>8. ASSUME NEW k \in r .. e PROVE p[k] \in Seq(Item)
  <2>2. \A i \in r .. e : pre[i] \in Seq(Item)
    BY <1>1 DEF Pre
  <2> QED
    BY ONLY <1>4, <1>6, <2>2, k \in r .. e
<1>9. ASSUME NEW k \in r+1 .. e PROVE p[k] = p[k-1] \o Lines(c[k])
  <2>1. CASE k = e
    <3>1. p[k-1] = pre[e-1]
      BY <1>2, <1>6, <2>1
    <3> QED
      BY <1>5, <1>6, <2>1, <3>1
  <2>2. CASE k # e
    <3>1. k \in r .. e /\ k-1 \in r .. e /\ k \in 1 .. e /\ k-1 # e
      BY <1>2, <2>2
    <3>2. pre[k] = pre[k-1] \o Lines(b[k])
      BY <1>1 DEF Pre
    <3> QED
      BY <1>2, <1>6, <2>2, <3>1, <3>2
  <2> QED
    BY <2>1, <2>2
<1>10. Pre(c, r, e, p)
  BY ONLY <1>7, <1>8, <1>9 DEF Pre
<1> QED
  BY <1>6, <1>10 DEF Transcript, new

\* The documents before the last keep their transcripts while their nodes stay.
LEMMA EarlierTold ==
  ASSUME NEW ds, NEW b, NEW rts, NEW state, Told(ds, b, rts, state),
         NEW d \in 1 .. Len(ds), ~ ds[d].adorned \/ (d = Len(ds) /\ state = "blocks"),
         rts[d] \in Nat, NEW c, NEW rts2, rts2[d] = rts[d],
         LastOf(c, rts2, d) = LastOf(b, rts, d),
         \A k \in 1 .. LastOf(b, rts, d) : c[k] = b[k]
  PROVE  Transcript(c, rts2[d], LastOf(c, rts2, d), SourceOf(ds[d]))
<1> DEFINE r == rts[d]
           e == LastOf(b, rts, d)
           s == SourceOf(ds[d])
<1>1. Transcript(b, r, e, s)
  BY DEF Told
<1>2. \A k \in 1 .. e : c[k] = b[k]
  OBVIOUS
<1>3. r \in Nat /\ rts2[d] = r /\ LastOf(c, rts2, d) = e
  OBVIOUS
<1> HIDE DEF r, e, s
<1>4. \A k \in r+1 .. e : c[k] = b[k]
  BY <1>2, <1>3
<1>5. Transcript(c, r, e, s)
  BY <1>1, <1>4, TranscriptKept
<1> QED
  BY <1>3, <1>5 DEF s

\* The parser's block is one item more of the last source.
LEMMA SourceGrows ==
  ASSUME BuildInv, NEW block \in Block, Parsed(block)
  PROVE  /\ docs # <<>> /\ Len(docs) \in Nat /\ Len(docs) >= 1 /\ Len(docs') = Len(docs)
         /\ SourceOf(docs'[Len(docs)]) = SourceOf(docs[Len(docs)]) \o <<block>>
         /\ docs'[Len(docs)].adorned = docs[Len(docs)].adorned
         /\ \A d \in 1 .. Len(docs) : d # Len(docs) => docs'[d] = docs[d]
<1> DEFINE D == Len(docs)
           old == docs[D]
           new == [old EXCEPT !.blocks = Append(old.blocks, block)]
<1>1. docs \in Seq(Document) /\ docs # <<>> /\ D \in Nat /\ D >= 1 /\ D \in DOMAIN docs
      /\ DOMAIN docs = 1 .. D
  BY DEF BuildInv, Parsed
<1>2. old \in Document
  BY <1>1
<1>3. docs' = [docs EXCEPT ![D] = new]
  BY DEF Parsed
<1> HIDE DEF old
<1>4. /\ new.front = old.front /\ new.adorned = old.adorned
      /\ new.blocks = Append(old.blocks, block) /\ old.blocks \in Seq(Block)
  BY <1>2 DEF Document
<1> HIDE DEF new
<1>5. /\ Len(docs') = D /\ docs'[D] = new
      /\ \A d \in 1 .. D : d # D => docs'[d] = docs[d]
  <2> HIDE DEF D
  <2>1. docs' = [d \in 1 .. D |-> IF d = D THEN new ELSE docs[d]]
    BY <1>1, <1>3
  <2> QED
    BY <1>1, <2>1
<1>6. SourceOf(new) = SourceOf(old) \o <<block>>
  <2> DEFINE F == IF old.front THEN <<FrontMatter>> ELSE <<>>
             B == old.blocks
             T == Item
  <2>1. /\ F \in Seq(T) /\ B \in Seq(T) /\ <<block>> \in Seq(T)
    <3>1. FrontMatter \in T /\ block \in T /\ \A x \in Block : x \in T
      BY DEF Item
    <3>2. B \in Seq(Block)
      BY <1>4
    <3> HIDE DEF B, T
    <3>3. B \in Seq(T)
      BY <3>1, <3>2
    <3>4. F \in Seq(T) /\ <<block>> \in Seq(T)
      BY <3>1
    <3> QED
      BY <3>3, <3>4
  <2>2. SourceOf(old) = F \o B /\ SourceOf(new) = F \o Append(B, block)
    BY <1>4 DEF SourceOf
  <2> HIDE DEF F, B, T
  <2>3. Append(B, block) = B \o <<block>>
    BY <2>1
  <2>4. (F \o B) \o <<block>> = F \o (B \o <<block>>)
    BY <2>1
  <2> QED
    BY <2>2, <2>3, <2>4
<1> QED
  BY <1>1, <1>4, <1>5, <1>6 DEF old

\* A block is read: it is the last item that the nodes of its document print.
LEMMA BlockTold ==
  ASSUME BuildInv, ShapeInv, StoryInv, NEW block \in Block, Parsed(block),
         \A k \in 1 .. roots[Len(roots)] - 1 : built'[k] = built[k],
         Transcript(built, roots[Len(roots)], Len(built), SourceOf(docs[Len(docs)]))
           => Transcript(built', roots[Len(roots)], Len(built'),
                         SourceOf(docs[Len(docs)]) \o <<block>>)
  PROVE  StoryInv'
<1> DEFINE D == Len(docs)
<1>1. /\ pc = "blocks" /\ pc' = pc /\ roots' = roots
      /\ Rooted(built, roots) /\ Len(roots) = D /\ Told(docs, built, roots, pc)
  BY DEF Parsed, ShapeInv, StoryInv
<1>2. /\ D \in Nat /\ D >= 1 /\ Len(docs') = D
      /\ SourceOf(docs'[D]) = SourceOf(docs[D]) \o <<block>>
      /\ \A d \in 1 .. D : d # D => docs'[d] = docs[d]
  BY SourceGrows
<1>3. /\ \A d \in 1 .. D : roots[d] \in 1 .. Len(built)
      /\ \A d \in 1 .. D : d < D => roots[d] < roots[d+1]
      /\ \A d \in 1 .. D : roots[d] <= roots[D]
      /\ Len(built) \in Nat
  <2>1. Len(built) \in Nat
    BY DEF BuildInv, GoodTree
  <2>2. \A d \in 1 .. D : roots[d] <= roots[D]
    BY <1>1, <2>1, RootsRise
  <2> QED
    BY <1>1, <2>1, <2>2 DEF Rooted
<1>4. \A k \in 1 .. roots[D] - 1 : built'[k] = built[k]
  BY <1>1
<1> SUFFICES ASSUME NEW d \in 1 .. D,
                    ~ docs'[d].adorned \/ (d = D /\ pc = "blocks")
    PROVE  Transcript(built', roots[d], LastOf(built', roots, d), SourceOf(docs'[d]))
  BY <1>1, <1>2 DEF StoryInv, Told
<1>5. CASE d = D
  <2>1. Transcript(built, roots[D], LastOf(built, roots, D), SourceOf(docs[D]))
    BY <1>1, <1>2 DEF Told
  <2>2. LastOf(built, roots, D) = Len(built) /\ LastOf(built', roots, D) = Len(built')
    BY <1>1 DEF LastOf
  <2>3. Transcript(built', roots[D], Len(built'), SourceOf(docs[D]) \o <<block>>)
    BY <1>1, <2>1, <2>2
  <2> QED
    BY <1>2, <1>5, <2>2, <2>3
<1>6. CASE d # D
  <2>1. docs'[d] = docs[d] /\ ~ docs[d].adorned
    BY <1>2, <1>6
  <2>2. /\ LastOf(built, roots, d) = roots[d+1] - 1
        /\ LastOf(built', roots, d) = roots[d+1] - 1
    BY <1>1, <1>6 DEF LastOf
  <2>3. roots[d+1] <= roots[D] /\ roots[d+1] \in Nat /\ roots[D] \in Nat /\ roots[d] \in Nat
    <3>1. d+1 \in 1 .. D /\ D \in 1 .. D
      BY <1>2, <1>6
    <3> QED
      BY <1>3, <3>1
  <2>4. \A k \in 1 .. roots[d+1] - 1 : built'[k] = built[k]
    BY <1>4, <2>3
  <2>5. Transcript(built', roots[d], LastOf(built', roots, d), SourceOf(docs[d]))
    BY <1>1, <2>1, <2>2, <2>3, <2>4, EarlierTold
  <2> QED
    BY <2>1, <2>5
<1> QED
  BY <1>5, <1>6

\* A node is added for the block.
LEMMA AddTold ==
  ASSUME BuildInv, ShapeInv, StoryInv, NEW block \in Block, Parsed(block),
         NEW node \in BuiltNode, built' = Append(built, node), Lines(node) = <<block>>
  PROVE  StoryInv'
<1>1. GoodTree(built) /\ pc = "blocks"
  BY DEF BuildInv, Parsed
<1>2. Grown(built, node, built')
  BY <1>1, GrownTree
<1> DEFINE r == roots[Len(roots)]
           s == SourceOf(docs[Len(docs)])
<1>3. r \in 1 .. Len(built)
  BY <1>1, ReadingShape
<1>4. block \in Item
  BY DEF Item
<1>5. \A k \in 1 .. r - 1 : built'[k] = built[k]
  <2>1. \A k \in 1 .. Len(built) : built'[k] = built[k]
    BY <1>2 DEF Grown
  <2>2. Len(built) \in Nat
    BY <1>2 DEF Grown
  <2> HIDE DEF r
  <2> QED
    BY <1>3, <2>1, <2>2
<1> HIDE DEF r, s
<1>6. Transcript(built, r, Len(built), s) => Transcript(built', r, Len(built'), s \o <<block>>)
  BY <1>2, <1>3, <1>4, TranscriptGrown
<1> QED
  BY <1>5, <1>6, BlockTold DEF r, s

LEMMA FenceTold ==
  ASSUME BuildInv, ShapeInv, StoryInv, NEW code \in Codes, NEW runs \in BOOLEAN,
         NEW closed \in BOOLEAN, Fence(code, runs, closed)
  PROVE  StoryInv'
<1> DEFINE node == Node(IF runs THEN "segment" ELSE "resource", 2,
                        IF closed THEN "fence" ELSE "fenceUnclosed",
                        <<runs, closed>>, code, Current, 0)
           block == [type |-> "fence", code |-> code, runs |-> runs, closed |-> closed]
<1>1. pc = "blocks" /\ built' = Append(built, node) /\ Parsed(block)
  BY DEF Fence, Parsed
<1>2. block \in Block
  BY DEF Block
<1>3. Current \in Nat
  BY <1>1, Reading
<1>4. node \in BuiltNode
  <2>1. <<runs, closed>> \in Names
    BY DEF Names
  <2> QED
    BY <1>3, <2>1 DEF Node, BuiltNode, Roles, Payloads, Kinds, Tiers
<1>5. Lines(node) = <<block>>
  <2>1. /\ node.role = IF closed THEN "fence" ELSE "fenceUnclosed"
        /\ node.name = <<runs, closed>> /\ node.payload = code
    BY DEF Node
  <2> HIDE DEF node
  <2>2. Leaf(node) /\ node.role # "frontmatter"
    BY <2>1 DEF Leaf
  <2>3. node.name[1] = runs /\ node.name[2] = closed
    BY <2>1
  <2>4. (node.role # "fenceUnclosed" /\ node.name[2]) = closed
    <3>1. CASE closed = TRUE
      BY <2>1, <2>3, <3>1
    <3>2. CASE closed = FALSE
      BY <2>1, <2>3, <3>2
    <3> QED
      BY <3>1, <3>2
  <2>5. Lines(node) = <<[type |-> "fence", code |-> node.payload, runs |-> node.name[1],
                         closed |-> node.role # "fenceUnclosed" /\ node.name[2]]>>
    BY <2>2 DEF Lines
  <2> QED
    BY <2>1, <2>3, <2>4, <2>5
<1> HIDE DEF node, block
<1> QED
  BY <1>1, <1>2, <1>4, <1>5, AddTold

LEMMA HeadingTold ==
  ASSUME BuildInv, ShapeInv, StoryInv, NEW level \in Levels, NEW title \in Titles,
         Heading(level, title)
  PROVE  StoryInv'
<1> DEFINE outer == Closing(level)
           tier == SectionTier(title, Last(outer)[3])
           node == Node(Classify[title].kind, tier, "section", <<title>>, None,
                        Last(outer)[2], level)
           block == [type |-> "heading", level |-> level, title |-> title]
<1>1. pc = "blocks" /\ built' = Append(built, node) /\ Parsed(block)
  BY DEF Heading, Parsed
<1>2. block \in Block
  BY DEF Block
<1>3. /\ level \in Nat /\ level > 0
      /\ Classify[title].kind \in Kinds /\ Classify[title].tier \in Tiers
      /\ Classify[title].kind # "segment"
  BY CompileAssumption
<1>4. OpenSections(stack, built)
  BY <1>1 DEF BuildInv
<1>5. Last(outer) \in Nat \X Nat \X Tiers
  <2>1. /\ outer \in Seq(Nat \X Nat \X Tiers) /\ Len(outer) \in 1 .. Len(stack)
    BY <1>4, ClosingIsPart
  <2>2. Len(stack) \in Nat
    BY <1>4 DEF OpenSections
  <2> HIDE DEF outer
  <2>3. Len(outer) \in Nat /\ Len(outer) >= 1
    BY <2>1, <2>2
  <2> QED
    BY <2>1, <2>3 DEF Last
<1>6. node \in BuiltNode
  <2>1. tier \in Tiers
    BY <1>3, <1>5 DEF SectionTier, Hotter, Tiers
  <2>2. Last(outer)[2] \in Nat
    BY <1>5
  <2> HIDE DEF tier, outer
  <2> QED
    BY <1>3, <2>1, <2>2 DEF Node, BuiltNode, Roles, Names, Payloads
<1>7. Lines(node) = <<block>>
  <2>1. /\ node.role = "section" /\ node.name = <<title>> /\ node.payload = None
        /\ node.depth = level /\ node.kind # "segment"
    BY <1>3 DEF Node
  <2> HIDE DEF node
  <2>2. ~ Leaf(node)
    BY <2>1 DEF Leaf
  <2>3. node.name[1] = title
    BY <2>1
  <2>4. Printed(node.payload) = <<>>
    BY <2>1 DEF Printed
  <2>5. Lines(node) = <<[type |-> "heading", level |-> node.depth, title |-> node.name[1]]>>
                        \o Printed(node.payload)
    BY <1>3, <2>1, <2>2 DEF Lines
  <2>6. <<block>> \o <<>> = <<block>>
    OBVIOUS
  <2> QED
    BY <2>1, <2>3, <2>4, <2>5, <2>6
<1> HIDE DEF node, block
<1> QED
  BY <1>1, <1>2, <1>6, <1>7, AddTold

\* Text fills the section that waits for it, or is a node.
LEMMA TextTold ==
  ASSUME BuildInv, ShapeInv, StoryInv, NEW content \in Texts, Text(content) PROVE StoryInv'
<1> DEFINE block == [type |-> "text", text |-> content]
<1>1. pc = "blocks" /\ Parsed(block)
  BY DEF Text, Parsed
<1>2. block \in Block /\ content # None /\ Printed(content) = <<block>>
  BY CompileAssumption DEF Block, Printed
<1>3. CASE fenced \/ pending = 0
  <2> DEFINE node == Node("prose", ContinuationTier, "continuation", <<>>,
                          content, Current, 0)
  <2>1. built' = Append(built, node)
    BY <1>3 DEF Text
  <2>2. ContinuationTier \in Tiers /\ Current \in Nat
    BY <1>1, Reading DEF ContinuationTier, Hotter, Tiers
  <2>3. node \in BuiltNode
    BY <2>2 DEF Node, BuiltNode, Roles, Names, Payloads, Kinds
  <2>4. Lines(node) = <<block>>
    <3>1. node.role = "continuation" /\ node.payload = content /\ node.kind = "prose"
      BY DEF Node
    <3> HIDE DEF node
    <3>2. ~ Leaf(node)
      BY <3>1 DEF Leaf
    <3>3. Lines(node) = <<>> \o Printed(content)
      BY <3>1, <3>2 DEF Lines
    <3>4. <<>> \o <<block>> = <<block>>
      OBVIOUS
    <3> QED
      BY <1>2, <3>3, <3>4
  <2> HIDE DEF node, block
  <2> QED
    BY <1>1, <1>2, <2>1, <2>3, <2>4, AddTold
<1>4. CASE ~ (fenced \/ pending = 0)
  <2> DEFINE e == Len(built)
             old == built[e]
             r == roots[Len(roots)]
             s == SourceOf(docs[Len(docs)])
  <2>1. built' = [built EXCEPT ![Current].payload = content]
    BY <1>4 DEF Text
  <2>2. /\ pending = Current /\ Filling /\ Rooted(built, roots) /\ GoodTree(built)
    BY <1>1, <1>4 DEF BuildInv, ShapeInv, Waiting
  <2>3. /\ Current = e /\ old.role = "section" /\ old.depth > 0 /\ old.kind # "segment"
        /\ old.payload = None
    BY <1>4, <2>2 DEF Filling
  <2>4. /\ built \in Seq(BuiltNode) /\ Len(built) \in Nat /\ DOMAIN built = 1 .. e
        /\ e \in 1 .. e
    BY <1>1, <2>3, Reading
  <2> DEFINE node == [old EXCEPT !.payload = content]
  <2>5. old \in BuiltNode
    BY <2>4
  <2> HIDE DEF old
  <2>6. /\ node.kind = old.kind /\ node.role = old.role /\ node.depth = old.depth
        /\ node.parent = old.parent /\ node.name = old.name /\ node.payload = content
    BY <2>5 DEF BuiltNode
  <2>7. built' = [built EXCEPT ![e] = node]
    BY <2>1, <2>3 DEF old
  <2> HIDE DEF node, e
  <2>8. built' = [k \in 1 .. e |-> IF k = e THEN node ELSE built[k]]
    BY <2>4, <2>7
  <2>9. \A k \in 1 .. e : built'[k] = IF k = e THEN node ELSE built[k]
    BY <2>8
  <2>10. Len(built') = e
    <3>1. Len(built) \in Nat /\ DOMAIN built = 1 .. Len(built)
      BY <2>4 DEF e
    <3>2. DOMAIN built' = 1 .. Len(built)
      BY <2>8 DEF e
    <3>3. built' = [k \in 1 .. Len(built) |-> built'[k]]
      BY <2>8 DEF e
    <3>4. Len(built') = Len(built)
      BY ONLY <3>1, <3>2, <3>3
    <3> QED
      BY <3>4 DEF e
  <2>11. Filled(built, e, built')
    <3>1. \A k \in 2 .. e : built[k].parent \in 1 .. k-1
      BY <2>2 DEF GoodTree, e
    <3>2. \A k \in 1 .. e :
            /\ built'[k].kind = built[k].kind /\ built'[k].role = built[k].role
            /\ built'[k].depth = built[k].depth /\ built'[k].parent = built[k].parent
            /\ k # e => built'[k] = built[k]
      BY <2>6, <2>9 DEF old
    <3> QED
      BY <2>4, <2>10, <3>1, <3>2 DEF Filled, e
  <2>12. r \in 1 .. e /\ r # e
    <3>1. r \in 1 .. e /\ Bare(built[r])
      <4>1. Len(roots) \in 1 .. Len(roots)
        BY <1>1, ReadingShape
      <4> QED
        BY <2>2, <4>1 DEF Rooted, e
    <3> QED
      BY <2>3, <3>1 DEF Bare, old
  <2> DEFINE h == [type |-> "heading", level |-> old.depth, title |-> old.name[1]]
  <2>13. Lines(built[e]) = <<h>>
    <3>1. ~ Leaf(old) /\ Printed(old.payload) = <<>>
      BY <2>3 DEF Leaf, Printed
    <3>2. Lines(old) = <<h>> \o Printed(old.payload)
      BY <2>3, <3>1 DEF Lines
    <3>3. <<h>> \o <<>> = <<h>>
      OBVIOUS
    <3> QED
      BY <3>1, <3>2, <3>3 DEF old
  <2>14. Lines(built'[e]) = <<h>> \o <<block>>
    <3>1. ~ Leaf(node)
      BY <2>3, <2>6 DEF Leaf
    <3>2. Lines(node) = <<h>> \o Printed(content)
      BY <2>3, <2>6, <3>1 DEF Lines
    <3> QED
      BY <1>2, <2>4, <2>9, <3>2
  <2> HIDE DEF h, block, r, s
  <2>15. block \in Item
    BY <1>2 DEF Item
  <2>16. Transcript(built, r, e, s) => Transcript(built', r, e, s \o <<block>>)
    BY <2>11, <2>12, <2>13, <2>14, <2>15, TranscriptFilled DEF e
  <2>17. \A k \in 1 .. r - 1 : built'[k] = built[k]
    BY <2>4, <2>9, <2>12
  <2> QED
    BY <1>1, <1>2, <2>10, <2>16, <2>17, BlockTold DEF e, r, s
<1> QED
  BY <1>3, <1>4

\* A root prints nothing.
LEMMA TranscriptStart ==
  ASSUME NEW b, NEW r \in Nat PROVE Transcript(b, r, r, <<>>)
<1> DEFINE p == [k \in r .. r |-> <<>>]
<1>1. p[r] = <<>> /\ \A k \in r .. r : p[k] = <<>>
  OBVIOUS
<1> HIDE DEF p
<1>2. <<>> \in Seq(Item) /\ \A k : k \notin r+1 .. r
  OBVIOUS
<1>3. Pre(b, r, r, p)
  BY <1>1, <1>2 DEF Pre
<1> QED
  BY <1>1, <1>3 DEF Transcript

LEMMA BeginSkillTold == ASSUME BuildInv, ShapeInv, StoryInv, BeginSkill PROVE StoryInv'
<1>1. PICK front \in BOOLEAN, adorned \in BOOLEAN :
        LET root == Node("prose", 0, "root", <<>>, None, IF form = "single" THEN 0 ELSE 1, 0)
            at == Len(built) + 1
            matter == Node("applicability", 0, "frontmatter", <<>>, FrontText, at, 0)
        IN  /\ docs' = Append(docs, [front |-> front, blocks |-> <<>>, adorned |-> adorned])
            /\ built' = built \o (IF front THEN <<root, matter>> ELSE <<root>>)
            /\ roots' = Append(roots, at)
  BY DEF BeginSkill
<1> DEFINE root == Node("prose", 0, "root", <<>>, None, IF form = "single" THEN 0 ELSE 1, 0)
           M == Len(built)
           at == M + 1
           matter == Node("applicability", 0, "frontmatter", <<>>, FrontText, at, 0)
           one == Append(built, root)
           two == Append(one, matter)
           doc == [front |-> front, blocks |-> <<>>, adorned |-> adorned]
           D == Len(docs)
<1>2. /\ pc = "skills" /\ pc' = "blocks"
      /\ docs' = Append(docs, doc) /\ roots' = Append(roots, at)
      /\ built' = built \o (IF front THEN <<root, matter>> ELSE <<root>>)
  BY <1>1 DEF BeginSkill
<1>3. /\ built \in Seq(BuiltNode) /\ M \in Nat /\ GoodTree(built)
      /\ Rooted(built, roots) /\ Len(roots) = D
      /\ docs \in Seq(Document) /\ D \in Nat /\ roots \in Seq(Nat)
      /\ Told(docs, built, roots, pc)
  BY DEF BuildInv, GoodTree, ShapeInv, StoryInv
<1>4. root \in BuiltNode /\ root.tier = 0 /\ Fit(root)
      /\ root.parent = IF form = "single" THEN 0 ELSE 1
  BY DEF Node, BuiltNode, Roles, Names, Payloads, Kinds, Tiers, Fit
<1>5. /\ matter \in BuiltNode /\ matter.role = "frontmatter"
  <2> HIDE DEF at
  <2>1. at \in Nat
    BY <1>3 DEF at
  <2> QED
    BY <2>1 DEF Node, BuiltNode, Roles, Names, Payloads, Kinds, Tiers
<1>6. built \o <<root>> = one /\ built \o <<root, matter>> = two
  <2> HIDE DEF root, matter
  <2> QED
    BY <1>3, <1>4, <1>5, ConcatIsAppend
<1>7. built' = IF front THEN two ELSE one
  BY <1>2, <1>6
<1> HIDE DEF root, matter
<1>8. Grown(built, root, one)
  BY <1>3, <1>4, GrownTree
<1>9. GoodTree(one)
  <2>1. IF built = <<>> THEN root.tier = 0 /\ root.parent = 0
        ELSE root.parent \in 1 .. Len(built) /\ built[root.parent].tier <= root.tier
    <3>1. built = <<>> => form = "single"
      BY DEF BuildInv
    <3>2. form = "single" => docs = <<>>
      <4>1. Len(docs) < (IF form = "single" THEN 1 ELSE MaxSkills)
        BY DEF BeginSkill
      <4> QED
        BY <1>3, <4>1
    <3>3. form = "single" => built = <<>>
      BY <3>2 DEF BuildInv
    <3> QED
      BY <1>3, <1>4, <3>1, <3>3 DEF GoodTree
  <2> QED
    BY <1>3, <1>4, <2>1, Grows
<1> HIDE DEF one
<1>10. Len(one) = at /\ \A k \in 1 .. M : one[k] = built[k]
  BY <1>8 DEF Grown
<1>11. Grown(one, matter, two)
  BY <1>5, <1>9, GrownTree
<1> HIDE DEF two
<1>12. Len(two) = at + 1 /\ \A k \in 1 .. M : two[k] = built[k]
  <2>1. Len(two) = at + 1 /\ \A k \in 1 .. at : two[k] = one[k]
    BY <1>10, <1>11 DEF Grown
  <2>2. \A k \in 1 .. M : k \in 1 .. at
    BY <1>3
  <2> QED
    BY <1>10, <2>1, <2>2
<1>13. \A k \in 1 .. M : built'[k] = built[k]
  BY <1>7, <1>10, <1>12
<1>14. Transcript(one, at, at, <<>>)
  BY <1>3, TranscriptStart
<1>15. Transcript(two, at, at + 1, <<>> \o <<FrontMatter>>)
  <2>1. Lines(matter) = <<FrontMatter>>
    BY <1>5 DEF Lines
  <2>2. FrontMatter \in Item
    BY DEF Item
  <2>3. at \in 1 .. Len(one)
    BY <1>3, <1>10
  <2> HIDE DEF at
  <2> QED
    BY <1>10, <1>11, <1>12, <1>14, <2>1, <2>2, <2>3, TranscriptGrown
<1>16. SourceOf(doc) = IF front THEN <<FrontMatter>> ELSE <<>>
  BY DEF SourceOf
<1>17. Transcript(built', at, Len(built'), SourceOf(doc))
  <2>1. CASE front
    <3>1. /\ built' = two /\ SourceOf(doc) = <<FrontMatter>>
          /\ <<>> \o <<FrontMatter>> = <<FrontMatter>>
      BY <1>7, <1>16, <2>1
    <3> QED
      BY <1>12, <1>15, <3>1
  <2>2. CASE ~ front
    <3>1. built' = one /\ SourceOf(doc) = <<>>
      BY <1>7, <1>16, <2>2
    <3> QED
      BY <1>10, <1>14, <3>1
  <2> QED
    BY <2>1, <2>2
<1> HIDE DEF doc
<1>18. /\ Len(docs') = D + 1 /\ docs'[D + 1] = doc /\ \A d \in 1 .. D : docs'[d] = docs[d]
  BY <1>2, <1>3
<1>19. /\ Len(roots') = D + 1 /\ roots'[D + 1] = at /\ \A d \in 1 .. D : roots'[d] = roots[d]
  BY <1>2, <1>3
<1> HIDE DEF D
<1> SUFFICES ASSUME NEW d \in 1 .. D + 1,
                    ~ docs'[d].adorned \/ (d = D + 1 /\ pc' = "blocks")
    PROVE  Transcript(built', roots'[d], LastOf(built', roots', d), SourceOf(docs'[d]))
  BY <1>18 DEF StoryInv, Told
<1>20. CASE d = D + 1
  <2>1. LastOf(built', roots', d) = Len(built')
    BY <1>19, <1>20 DEF LastOf
  <2> QED
    BY <1>17, <1>18, <1>19, <1>20, <2>1
<1>21. CASE d # D + 1
  <2>1. d \in 1 .. D /\ docs'[d] = docs[d] /\ roots'[d] = roots[d] /\ ~ docs[d].adorned
    BY <1>3, <1>18, <1>19, <1>21
  <2>2. LastOf(built', roots', d) = LastOf(built, roots, d) /\ LastOf(built, roots, d) <= M
        /\ LastOf(built, roots, d) \in Nat
    <3>1. LastOf(built', roots', d) = roots'[d+1] - 1
      BY <1>19, <1>21 DEF LastOf
    <3>2. CASE d = D
      <4>1. LastOf(built, roots, d) = M /\ roots'[d+1] = at
        BY <1>3, <1>19, <3>2 DEF LastOf
      <4> QED
        BY <1>3, <3>1, <4>1
    <3>3. CASE d # D
      <4>0. D \in Nat
        BY <1>3
      <4>a. d+1 \in 1 .. D
        BY ONLY <2>1, <3>3, <4>0
      <4>1. d+1 \in 1 .. D /\ roots'[d+1] = roots[d+1]
        BY ONLY <1>19, <4>a
      <4>2. LastOf(built, roots, d) = roots[d+1] - 1
        BY <1>3, <3>3 DEF LastOf
      <4>3. roots[d+1] \in 1 .. M
        BY <1>3, <4>1 DEF Rooted
      <4> QED
        BY <1>3, <3>1, <4>1, <4>2, <4>3
    <3> QED
      BY <3>2, <3>3
  <2> DEFINE e == LastOf(built, roots, d)
  <2>3. \A k \in 1 .. e : built'[k] = built[k]
    <3> HIDE DEF M
    <3>1. e \in Nat /\ e <= M
      BY <2>2
    <3> HIDE DEF e
    <3> QED
      BY <1>3, <1>13, <3>1
  <2>4. d \in 1 .. Len(docs) /\ roots[d] \in Nat
    BY <1>3, <2>1 DEF Rooted, D
  <2>5. Transcript(built', roots'[d], LastOf(built', roots', d), SourceOf(docs[d]))
    BY <1>3, <2>1, <2>2, <2>3, <2>4, EarlierTold
  <2> QED
    BY <2>1, <2>5
<1> QED
  BY <1>20, <1>21

LEMMA EndSkillTold == ASSUME BuildInv, ShapeInv, StoryInv, EndSkill PROVE StoryInv'
<1> DEFINE D == Len(docs)
           M == Len(built)
           more == IF Doc.adorned
                   THEN <<Node("binding", 1, "artifact", <<"artifact">>, ArtifactText,
                               Last(roots), 0),
                          Node("contract", 1, "gate", <<"gate">>, GateText, Last(roots), 0)>>
                   ELSE <<>>
<1>1. /\ pc = "blocks" /\ pc' = "skills" /\ docs' = docs /\ roots' = roots
      /\ built' = built \o more
  BY DEF EndSkill, source
<1>2. /\ built \in Seq(BuiltNode) /\ M \in Nat /\ Rooted(built, roots) /\ Len(roots) = D
      /\ docs \in Seq(Document) /\ D \in Nat /\ Told(docs, built, roots, pc)
      /\ docs # <<>>
  BY <1>1 DEF BuildInv, GoodTree, ShapeInv, StoryInv
<1>3. \A k \in 1 .. M : built'[k] = built[k]
  <2>1. \E S : built \in Seq(S) /\ more \in Seq(S)
    <3> DEFINE a == Node("binding", 1, "artifact", <<"artifact">>, ArtifactText, Last(roots), 0)
               g == Node("contract", 1, "gate", <<"gate">>, GateText, Last(roots), 0)
               S == BuiltNode \cup {a, g}
    <3>1. a \in S /\ g \in S /\ \A x \in BuiltNode : x \in S
      OBVIOUS
    <3>2. more = <<a, g>> \/ more = <<>>
      OBVIOUS
    <3> HIDE DEF a, g, S, more
    <3>3. built \in Seq(S)
      BY <1>2, <3>1
    <3>4. <<a, g>> \in Seq(S)
      BY <3>1
    <3>5. <<>> \in Seq(S)
      OBVIOUS
    <3>6. more \in Seq(S)
      BY ONLY <3>2, <3>4, <3>5
    <3> QED
      BY <3>3, <3>6
  <2> HIDE DEF more
  <2> QED
    BY <1>1, <2>1
<1>4. ~ Doc.adorned => built' = built
  BY <1>1, <1>2
<1>5. Doc = docs[D]
  BY DEF Doc, Last
<1> HIDE DEF more, D
<1> SUFFICES ASSUME NEW d \in 1 .. D, ~ docs[d].adorned
    PROVE  Transcript(built', roots[d], LastOf(built', roots, d), SourceOf(docs[d]))
  BY <1>1 DEF StoryInv, Told, D
<1> DEFINE e == LastOf(built, roots, d)
<1>6. LastOf(built', roots, d) = e /\ e \in Nat /\ e <= M
  <2>1. CASE d = D
    BY <1>2, <1>4, <1>5, <2>1 DEF LastOf
  <2>2. CASE d # D
    <3>1. d+1 \in 1 .. D
      BY <1>2, <2>2
    <3>2. roots[d+1] \in 1 .. M
      BY <1>2, <3>1 DEF Rooted
    <3>3. e = roots[d+1] - 1 /\ LastOf(built', roots, d) = roots[d+1] - 1
      BY <1>2, <2>2 DEF LastOf
    <3> QED
      BY <1>2, <3>2, <3>3
  <2> QED
    BY <2>1, <2>2
<1>7. \A k \in 1 .. e : built'[k] = built[k]
  <2> HIDE DEF e, M
  <2> QED
    BY <1>2, <1>3, <1>6
<1>8. d \in 1 .. Len(docs) /\ roots[d] \in Nat
  BY <1>2 DEF Rooted, D
<1> QED
  BY <1>2, <1>6, <1>7, <1>8, EarlierTold

LEMMA StoryInvInit == Init => StoryInv
<1> SUFFICES ASSUME Init PROVE StoryInv
  OBVIOUS
<1>1. Len(docs) = 0
  BY DEF Init
<1> QED
  BY <1>1 DEF StoryInv, Told

\* Once nothing is read.
LEMMA OthersTold ==
  ASSUME StoryInv, UNCHANGED <<docs, built, roots>>,
         pc' # "blocks" \/ pc' = pc
  PROVE  StoryInv'
BY DEF StoryInv, Told

LEMMA StoryInvStep == ASSUME BuildInv, ShapeInv, StoryInv, [Next]_vars PROVE StoryInv'
<1>1. CASE BeginSkill
  BY <1>1, BeginSkillTold
<1>2. CASE EndSkill
  BY <1>2, EndSkillTold
<1>3. CASE \E l \in Levels, t \in Titles : Heading(l, t)
  BY <1>3, HeadingTold
<1>4. CASE \E t \in Texts : Text(t)
  BY <1>4, TextTold
<1>5. CASE \E c \in Codes, runs, closed \in BOOLEAN : Fence(c, runs, closed)
  BY <1>5, FenceTold
<1>6. CASE StartWrite
  BY <1>6, OthersTold DEF StartWrite, source, building
<1>7. CASE Visit
  BY <1>7, OthersTold DEF Visit, source, building
<1>8. CASE Write
  BY <1>8, OthersTold DEF Write, source, building
<1>9. CASE \E d \in DOMAIN docs : StartRender(d)
  BY <1>9, OthersTold DEF StartRender, source, building
<1>10. CASE EmitAt
  BY <1>10, OthersTold DEF EmitAt, source, building
<1>11. CASE EndRender
  BY <1>11, OthersTold DEF EndRender, source, building
<1>12. CASE UNCHANGED vars
  BY <1>12, OthersTold DEF vars
<1> QED
  BY <1>1, <1>2, <1>3, <1>4, <1>5, <1>6, <1>7, <1>8, <1>9, <1>10, <1>11, <1>12 DEF Next

\* Nodes r to j of the document r to e are printed, and t is the stack.
Rendering(b, r, e, t, o) ==
  /\ t \in Seq(1 .. Len(b))
  /\ \E j \in r-1 .. e : Tour(Parents(b), r, e, j, t, Len(t)) /\ Shown(b, r, e, j, o)

RenderInv ==
  /\ pc \notin {"render", "printed"} => out = <<>>
  /\ pc \in {"render", "printed"} => printing \in 1 .. Len(docs)
  /\ pc = "render" =>
       Rendering(built, roots[printing], LastOf(built, roots, printing), todo, out)
  /\ pc = "printed" =>
       LET e == LastOf(built, roots, printing)
       IN  Shown(built, roots[printing], e, e, out)

\* The nodes of a document are those below its root.
LEMMA PartOfDocument ==
  ASSUME BuildInv, ShapeInv, built # <<>>, NEW d \in 1 .. Len(docs)
  PROVE  /\ Tree(Parents(built), Len(built))
         /\ Part(Parents(built), Len(built), roots[d], LastOf(built, roots, d))
         /\ Bare(built[roots[d]]) /\ Len(built) \in Nat /\ DOMAIN built = 1 .. Len(built)
         /\ \A k \in 1 .. Len(built) : Parents(built)[k] = built[k].parent
<1> DEFINE par == Parents(built)
           M == Len(built)
           r == roots[d]
           e == LastOf(built, roots, d)
           D == Len(docs)
<1>1. GoodTree(built) /\ Nests(built) /\ Rooted(built, roots) /\ Len(roots) = D
  BY DEF BuildInv, ShapeInv
<1>2. /\ Tree(par, M) /\ M \in Nat /\ DOMAIN built = 1 .. M
      /\ \A k \in 1 .. M : par[k] = built[k].parent
  BY <1>1, TreeOfParents
<1>3. /\ r \in 1 .. M /\ Bare(built[r]) /\ D \in Nat
      /\ \A k \in 1 .. M : built[k].parent \in r .. e <=> k \in r+1 .. e
  <2>1. r \in 1 .. M /\ Bare(built[r]) /\ Spans(built, r, e)
    BY <1>1 DEF Rooted
  <2>2. D \in Nat
    BY <1>1 DEF Rooted
  <2> QED
    BY <2>1, <2>2 DEF Spans
<1>4. e \in r .. M
  <2>1. CASE d = D
    BY <1>1, <1>2, <1>3, <2>1 DEF LastOf
  <2>2. CASE d # D
    <3>1. d+1 \in 1 .. D /\ d < D
      BY <1>3, <2>2
    <3>2. roots[d+1] \in 1 .. M /\ r < roots[d+1]
      BY <1>1, <3>1 DEF Rooted
    <3>3. e = roots[d+1] - 1
      BY <1>1, <2>2 DEF LastOf
    <3> HIDE DEF e, r, M
    <3> QED
      BY <1>2, <1>3, <3>2, <3>3
  <2> QED
    BY <2>1, <2>2
<1> HIDE DEF par, M, r, e
<1>5. \A c \in 1 .. M : par[c] \in r .. e <=> c \in r+1 .. e
  BY <1>2, <1>3
<1>6. Part(par, M, r, e)
  BY <1>3, <1>4, <1>5 DEF Part
<1> QED
  BY <1>2, <1>3, <1>6 DEF par, M, r, e

\* The root of the document is stacked.
LEMMA StartRendered ==
  ASSUME BuildInv, ShapeInv, OrderInv, RenderInv, NEW d \in DOMAIN docs, StartRender(d)
  PROVE  RenderInv'
<1> DEFINE par == Parents(built)
           M == Len(built)
           r == roots[d]
           e == LastOf(built, roots, d)
           t == <<r>>
<1>1. /\ pc = "open" /\ pc' = "render" /\ printing' = d /\ todo' = <<file.routing[d]>>
      /\ built' = built /\ roots' = roots /\ docs' = docs /\ out' = out
  BY DEF StartRender, building, source
<1>2. d \in 1 .. Len(docs) /\ out = <<>> /\ built # <<>> /\ Len(roots) = Len(docs)
      /\ Faithful(file, built, roots)
  BY <1>1 DEF BuildInv, ShapeInv, OrderInv, RenderInv
<1>3. file.routing[d] = r
  BY <1>2 DEF Faithful, Routed
<1>4. Tree(par, M) /\ Part(par, M, r, e)
  BY <1>2, PartOfDocument
<1> HIDE DEF par, M, r, e
<1>5. t[1] = r /\ Len(t) = 1 /\ t \in Seq(1 .. M)
  BY <1>4 DEF Part
<1>6. todo' = t
  BY <1>1, <1>3
<1> HIDE DEF t
<1>7. Tour(par, r, e, r-1, t, 1)
  BY <1>4, <1>5, TourStart
<1>8. r-1 \in r-1 .. e /\ r-1 < r
  BY <1>4 DEF Part, Tree
<1>9. Shown(built, r, e, r-1, <<>>)
  BY <1>8 DEF Shown
<1>10. Rendering(built, r, e, t, <<>>)
  BY <1>5, <1>7, <1>8, <1>9 DEF Rendering, par, M
<1> QED
  BY <1>1, <1>2, <1>6, <1>10 DEF RenderInv, r, e

\* A node prints in the file what it is to print, and a root nothing.
LEMMA EmitsLines ==
  ASSUME BuildInv, ShapeInv, OrderInv, pc = "render", printing \in 1 .. Len(docs),
         NEW i \in 1 .. Len(built)
  PROVE  /\ Emitted(i) = IF i = roots[printing] THEN <<>> ELSE Lines(built[i])
         /\ IsFence(i) \/ file.table[i].role = "frontmatter" <=> Leaf(built[i])
<1> DEFINE n == file.table[i]
           m == built[i]
           p == Payload(i)
<1>1. /\ n.kind = m.kind /\ n.role = m.role /\ n.name = m.name /\ n.depth = m.depth
      /\ p = m.payload
  BY FileTable
<1>2. file.routing[printing] = roots[printing]
  BY DEF ShapeInv, OrderInv, Faithful, Routed
<1>3. built # <<>>
  BY DEF OrderInv
<1>4. Bare(built[roots[printing]])
  BY <1>3, PartOfDocument
<1> HIDE DEF p, m
<1>5. IsFence(i) <=> m.role \in {"fence", "fenceUnclosed"} \/ m.kind = "segment"
  BY <1>1 DEF IsFence
<1>6. IsFence(i) \/ n.role = "frontmatter" <=> Leaf(m)
  BY <1>1, <1>5 DEF Leaf
<1>7. CASE i = roots[printing]
  <2>1. m.payload = None
    BY <1>4, <1>7 DEF Bare, m
  <2>2. Emitted(i) = Printed(p)
    BY <1>2, <1>7 DEF Emitted, p
  <2> QED
    BY <1>1, <1>6, <1>7, <2>1, <2>2 DEF Printed, m
<1>8. CASE i # roots[printing]
  <2>1. CASE m.role = "frontmatter"
    <3>1. Emitted(i) = <<[type |-> "front"]>>
      BY <1>1, <1>2, <1>8, <2>1 DEF Emitted
    <3> QED
      BY <1>6, <1>8, <2>1, <3>1 DEF Lines, FrontMatter, m
  <2>2. CASE m.role # "frontmatter" /\ Leaf(m)
    <3>1. IsFence(i)
      BY <1>1, <1>6, <2>2
    <3>2. Emitted(i) = <<[type |-> "fence", code |-> p, runs |-> n.name[1],
                          closed |-> n.role # "fenceUnclosed" /\ n.name[2]]>>
      BY <1>1, <1>2, <1>8, <2>2, <3>1 DEF Emitted, p
    <3>3. Lines(m) = <<[type |-> "fence", code |-> m.payload, runs |-> m.name[1],
                        closed |-> m.role # "fenceUnclosed" /\ m.name[2]]>>
      BY <2>2 DEF Lines
    <3> QED
      BY <1>1, <1>6, <1>8, <3>2, <3>3 DEF m
  <2>3. CASE ~ Leaf(m)
    <3>1. ~ IsFence(i) /\ n.role # "frontmatter" /\ m.role # "frontmatter"
      BY <1>1, <1>6, <2>3
    <3>2. Emitted(i) = (IF n.role # "continuation" /\ n.depth > 0
                        THEN <<[type |-> "heading", level |-> n.depth, title |-> n.name[1]]>>
                        ELSE <<>>) \o Printed(p)
      BY <1>2, <1>8, <3>1 DEF Emitted, p
    <3>3. Lines(m) = (IF m.role # "continuation" /\ m.depth > 0
                      THEN <<[type |-> "heading", level |-> m.depth, title |-> m.name[1]]>>
                      ELSE <<>>) \o Printed(m.payload)
      BY <2>3, <3>1 DEF Lines
    <3> QED
      BY <1>1, <1>6, <1>8, <3>2, <3>3 DEF m
  <2> QED
    BY <2>1, <2>2, <2>3
<1> QED
  BY <1>7, <1>8

\* A turn of the loop of render.
LEMMA EmitRendered ==
  ASSUME BuildInv, ShapeInv, OrderInv, RenderInv, EmitAt PROVE RenderInv'
<1> DEFINE par == Parents(built)
           M == Len(built)
           r == roots[printing]
           e == LastOf(built, roots, printing)
           i == Last(todo)
           kids == KidsIn(built, i)
           leaf == i # file.routing[printing]
                     /\ (file.table[i].role = "frontmatter" \/ IsFence(i))
<1>1. /\ pc = "render" /\ pc' = pc /\ todo # <<>>
      /\ built' = built /\ roots' = roots /\ docs' = docs /\ printing' = printing
      /\ out' = out \o Emitted(i)
      /\ todo' = Front(todo) \o (IF leaf THEN <<>> ELSE Reverse(ChildrenOf(i)))
  BY DEF EmitAt, building, source
<1>2. /\ printing \in 1 .. Len(docs) /\ Rendering(built, r, e, todo, out)
      /\ built # <<>> /\ Nests(built)
  BY <1>1 DEF RenderInv, OrderInv, ShapeInv
<1>3. /\ Tree(par, M) /\ Part(par, M, r, e) /\ M \in Nat /\ DOMAIN built = 1 .. M
      /\ \A k \in 1 .. M : par[k] = built[k].parent
  BY <1>2, PartOfDocument
<1>4. /\ todo \in Seq(1 .. M)
      /\ \E j \in r-1 .. e : Tour(par, r, e, j, todo, Len(todo)) /\ Shown(built, r, e, j, out)
  BY <1>2 DEF Rendering
<1>5. PICK j \in r-1 .. e : Tour(par, r, e, j, todo, Len(todo)) /\ Shown(built, r, e, j, out)
  BY <1>4
<1>6. kids \in Seq(1 .. M) /\ Listed(par, M, i, kids, Len(kids))
  <2> DEFINE S == {c \in DOMAIN built : built[c].parent = i}
  <2>1. S = {c \in 1 .. M : par[c] = i}
    BY <1>3
  <2>2. kids = Ascending(S)
    BY DEF KidsIn
  <2> HIDE DEF S, par, kids, M, i
  <2> QED
    BY <1>3, <2>1, <2>2, ChildrenListed
<1> HIDE DEF kids, M, par, e, r, leaf
<1>7. /\ i = j+1 /\ j+1 \in r .. e
      /\ Turned(todo, kids) \in Seq(1 .. M)
      /\ Tour(par, r, e, j+1, Turned(todo, kids), Len(Turned(todo, kids)))
  <2> HIDE DEF i
  <2>1. Listed(par, M, Last(todo), kids, Len(kids))
    BY <1>6 DEF i
  <2> QED
    BY <1>1, <1>3, <1>4, <1>5, <1>6, <2>1, LoopTurn DEF i
<1> HIDE DEF i
<1>8. r \in Nat /\ e \in Nat /\ i \in 1 .. M /\ i \in r .. e /\ i-1 = j /\ j \in Int
  <2>1. r \in 1 .. M /\ e \in r .. M
    BY <1>3 DEF Part
  <2> QED
    BY ONLY <1>3, <1>7, <2>1, j \in r-1 .. e
<1>9. /\ Emitted(i) = IF i = r THEN <<>> ELSE Lines(built[i])
      /\ IsFence(i) \/ file.table[i].role = "frontmatter" <=> Leaf(built[i])
  BY <1>1, <1>2, <1>8, EmitsLines DEF M, r
\* A node that is printed without its children has none.
<1>10. todo' = Turned(todo, kids)
  <2>1. CASE leaf
    <3>1. Leaf(built[i])
      BY <1>9, <2>1 DEF leaf
    <3>2. \A c \in 1 .. M : par[c] # i
      <4> SUFFICES ASSUME NEW c \in 1 .. M, par[c] = i PROVE FALSE
        OBVIOUS
      <4>1. built[c].parent = i /\ i \in 1 .. c-1
        BY <1>3, <1>8 DEF Tree
      <4>2. c \in 2 .. M
        BY <1>3, <4>1
      <4>3. ~ Leaf(built[built[c].parent])
        BY <1>2, <4>2 DEF Nests, M
      <4> QED
        BY <3>1, <4>1, <4>3
    <3>3. kids = <<>>
      <4>1. \A m \in 1 .. Len(kids) : kids[m] \in 1 .. M /\ par[kids[m]] = i
        BY <1>6 DEF Listed
      <4>2. \A m : m \notin 1 .. Len(kids)
        BY <3>2, <4>1
      <4>3. Len(kids) \in Nat
        BY <1>6
      <4>4. Len(kids) = 0
        BY <4>2, <4>3
      <4> QED
        BY <1>6, <4>4
    <3>4. Reverse(kids) = <<>>
      BY <3>3 DEF Reverse
    <3> QED
      BY <1>1, <2>1, <3>4 DEF Turned
  <2>2. CASE ~ leaf
    <3>1. ChildrenOf(i) = kids
      BY <1>1, <1>8, FileTable DEF kids, M
    <3> QED
      BY <1>1, <2>2, <3>1 DEF Turned
  <2> QED
    BY <2>1, <2>2
<1>11. Shown(built, r, e, i, out')
  <2> SUFFICES ASSUME NEW pre, Pre(built, r, e, pre) PROVE out' = pre[i]
    BY <1>8 DEF Shown
  <2>1. out = IF j < r THEN <<>> ELSE pre[j]
    BY <1>5 DEF Shown
  <2>2. CASE i = r
    <3>1. out = <<>> /\ Emitted(i) = <<>>
      BY <1>8, <1>9, <2>1, <2>2
    <3>2. pre[i] = <<>>
      BY <2>2 DEF Pre
    <3>3. <<>> \o <<>> = <<>>
      OBVIOUS
    <3> QED
      BY <1>1, <3>1, <3>2, <3>3
  <2>3. CASE i # r
    <3>1. i \in r+1 .. e /\ ~ (j < r)
      BY <1>8, <2>3
    <3>2. pre[i] = pre[i-1] \o Lines(built[i])
      BY <3>1 DEF Pre
    <3>3. out = pre[j] /\ Emitted(i) = Lines(built[i])
      BY <1>9, <2>1, <2>3, <3>1
    <3> QED
      BY <1>1, <1>8, <3>2, <3>3
  <2> QED
    BY <2>2, <2>3
<1>12. Tour(par, r, e, i, todo', Len(todo')) /\ todo' \in Seq(1 .. M) /\ i \in r-1 .. e
  BY <1>7, <1>8, <1>10
<1>13. Rendering(built, r, e, todo', out')
  BY <1>11, <1>12 DEF Rendering, par, M
<1> QED
  BY <1>1, <1>2, <1>13 DEF RenderInv, r, e

LEMMA EndRendered ==
  ASSUME BuildInv, ShapeInv, OrderInv, RenderInv, EndRender PROVE RenderInv'
<1> DEFINE r == roots[printing]
           e == LastOf(built, roots, printing)
<1>1. /\ pc = "render" /\ pc' = "printed" /\ todo = <<>>
      /\ built' = built /\ roots' = roots /\ docs' = docs /\ printing' = printing
      /\ out' = out
  BY DEF EndRender, building, source, rendering
<1>2. /\ printing \in 1 .. Len(docs) /\ Rendering(built, r, e, todo, out) /\ built # <<>>
  BY <1>1 DEF RenderInv, OrderInv
<1>3. Tree(Parents(built), Len(built)) /\ Part(Parents(built), Len(built), r, e)
  BY <1>2, PartOfDocument
<1> HIDE DEF r, e
<1>4. PICK j \in r-1 .. e :
        Tour(Parents(built), r, e, j, todo, Len(todo)) /\ Shown(built, r, e, j, out)
  BY <1>2 DEF Rendering
<1>5. j = e
  BY <1>1, <1>3, <1>4, LoopEnd
<1>6. Shown(built, r, e, e, out)
  BY <1>4, <1>5
<1> QED
  BY <1>1, <1>2, <1>6 DEF RenderInv, r, e

LEMMA RenderInvInit == Init => RenderInv
BY DEF Init, RenderInv

\* Before render.
LEMMA OthersRendered ==
  ASSUME RenderInv, pc \notin {"render", "printed"}, pc' \notin {"render", "printed"},
         out' = out
  PROVE  RenderInv'
BY DEF RenderInv

LEMMA RenderInvStep ==
  ASSUME BuildInv, ShapeInv, OrderInv, RenderInv, [Next]_vars PROVE RenderInv'
<1>1. CASE BeginSkill
  BY <1>1, OthersRendered DEF BeginSkill, rendering
<1>2. CASE EndSkill
  BY <1>2, OthersRendered DEF EndSkill, rendering
<1>3. CASE \E l \in Levels, t \in Titles : Heading(l, t)
  BY <1>3, OthersRendered DEF Heading, Parsed, rendering
<1>4. CASE \E t \in Texts : Text(t)
  BY <1>4, OthersRendered DEF Text, Parsed, rendering
<1>5. CASE \E c \in Codes, runs, closed \in BOOLEAN : Fence(c, runs, closed)
  BY <1>5, OthersRendered DEF Fence, Parsed, rendering
<1>6. CASE StartWrite
  BY <1>6, OthersRendered DEF StartWrite, rendering
<1>7. CASE Visit
  BY <1>7, OthersRendered DEF Visit, rendering
<1>8. CASE Write
  BY <1>8, OthersRendered DEF Write, rendering
<1>9. CASE \E d \in DOMAIN docs : StartRender(d)
  BY <1>9, StartRendered
<1>10. CASE EmitAt
  BY <1>10, EmitRendered
<1>11. CASE EndRender
  BY <1>11, EndRendered
<1>12. CASE UNCHANGED vars
  <2>1. UNCHANGED <<pc, docs, built, roots, todo, printing, out>>
    BY <1>12 DEF vars
  <2> QED
    BY <2>1 DEF RenderInv
<1> QED
  BY <1>1, <1>2, <1>3, <1>4, <1>5, <1>6, <1>7, <1>8, <1>9, <1>10, <1>11, <1>12 DEF Next

\* What is printed and what the nodes print are one thing.
LEMMA Returned ==
  ASSUME BuildInv, ShapeInv, OrderInv, StoryInv, RenderInv PROVE RoundTrip
<1> DEFINE r == roots[printing]
           e == LastOf(built, roots, printing)
<1> SUFFICES ASSUME pc = "printed", ~ docs[printing].adorned PROVE out = Source(printing)
  BY DEF RoundTrip
<1>1. printing \in 1 .. Len(docs) /\ Shown(built, r, e, e, out) /\ built # <<>>
  BY DEF RenderInv, OrderInv
<1>2. Part(Parents(built), Len(built), r, e) /\ Len(built) \in Nat
  BY <1>1, PartOfDocument
<1>3. Transcript(built, r, e, SourceOf(docs[printing]))
  BY <1>1 DEF StoryInv, Told
<1> HIDE DEF r, e
<1>4. PICK pre : Pre(built, r, e, pre) /\ pre[e] = SourceOf(docs[printing])
  BY <1>3 DEF Transcript
<1>5. ~ (e < r)
  BY <1>2 DEF Part
<1>6. out = pre[e]
  BY <1>1, <1>4, <1>5 DEF Shown
<1>7. SourceOf(docs[printing]) = Source(printing)
  BY DEF SourceOf, Source, FrontMatter
<1> QED
  BY <1>4, <1>6, <1>7

-----------------------------------------------------------------------------
(***************************************************************************)
(* The theorems                                                            *)
(***************************************************************************)
LEMMA Rendered == Spec => [](BuildInv /\ ShapeInv /\ OrderInv /\ StoryInv /\ RenderInv)
<1>1. Init => BuildInv /\ ShapeInv /\ OrderInv /\ StoryInv /\ RenderInv
  BY BuildInvInit, ShapeInvInit, OrderInvInit, StoryInvInit, RenderInvInit
<1>2. BuildInv /\ ShapeInv /\ OrderInv /\ StoryInv /\ RenderInv /\ [Next]_vars
      => (BuildInv /\ ShapeInv /\ OrderInv /\ StoryInv /\ RenderInv)'
  BY BuildInvStep, ShapeInvStep, OrderInvStep, StoryInvStep, RenderInvStep
<1> QED
  BY <1>1, <1>2, PTL DEF Spec

\* Every value stays of its type: each node's parent is a node before it, and each
\* offset of the file is in the region of the node's tier (writer.rs:353-384).
THEOREM TypesHold == Spec => []TypeOK
<1>1. BuildInv /\ ShapeInv /\ OrderInv => TypeOK
  BY Typed
<1> QED
  BY <1>1, Building, PTL

\* The writer refuses no tree of the compiler, and the reader no table of the
\* writer (compile.rs:95-114, 165-169; writer.rs:279-290, 671-693).
THEOREM NeverRefusedHolds == Spec => []NeverRefused
<1>1. BuildInv /\ ShapeInv /\ OrderInv => NeverRefused
  BY PreOrdered DEF BuildInv, NeverRefused
<1> QED
  BY <1>1, Building, PTL

\* Every hash the writer keeps is what a reader computes from the table and the two
\* regions, though contents are stored once and nodes are renumbered
\* (writer.rs:353-384, 700-723; lib.rs:385-427).
THEOREM CommitmentsHold == Spec => []CommitmentsVerify
<1>1. BuildInv /\ OrderInv => CommitmentsVerify
  BY Verifies
<1> QED
  BY <1>1, Building, PTL

\* The commitment that covers a node is of its tier: no payload is verified by
\* reading a hotter one (writer.rs:344-351).
THEOREM VerifiedWithinTierHolds == Spec => []VerifiedWithinTier
<1>1. BuildInv /\ OrderInv => VerifiedWithinTier
  BY WithinTier
<1> QED
  BY <1>1, Building, PTL

\* The vocabulary sends nothing but applicability to the routing plane, and no
\* step of build_into sends there anything it did not (compile.rs:123).
THEOREM NoProse == Spec => []NoProseInRouting
<1>1. ASSUME BuildInv PROVE NoProseInRouting
  <2>1. built \in Seq(BuiltNode) /\ DOMAIN built = 1 .. Len(built)
        /\ \A k \in 1 .. Len(built) : Fit(built[k])
    BY <1>1 DEF BuildInv, GoodTree
  <2> QED
    BY <2>1 DEF NoProseInRouting, Fit
<1> QED
  BY <1>1, Building, PTL

\* A document of any number of blocks, alone or among others, comes out of its file
\* block for block as it went in (render.rs:1-3).
THEOREM RoundTripHolds == Spec => []RoundTrip
<1>1. BuildInv /\ ShapeInv /\ OrderInv /\ StoryInv /\ RenderInv => RoundTrip
  BY Returned
<1> QED
  BY <1>1, Rendered, PTL
=============================================================================
