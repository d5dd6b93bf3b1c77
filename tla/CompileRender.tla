--------------------------- MODULE CompileRender ----------------------------
(***************************************************************************)
(* A document goes into a container and comes out again.                   *)
(*                                                                         *)
(* skillc turns the blocks of each SKILL.md into a tree hung from a root   *)
(* (compile.rs, build_into), skill-format's Builder writes all trees of a  *)
(* file as one node table and two payload regions (writer.rs), and         *)
(* `render` walks the table of the opened file to print one skill          *)
(* (render.rs).  A file is a single skill, a bundle of skills, or an       *)
(* organization, whose members may carry an artifact and a gate.           *)
(*                                                                         *)
(* A payload is one content or none; a region is a sequence of contents,   *)
(* and an offset a place in it.  A subtree hash is the tree of what it     *)
(* covers.  Nodes are numbered from 1, and 0 is NONE32.                    *)
(***************************************************************************)
EXTENDS Naturals, Sequences, SequencesExt

CONSTANTS
  Forms,      \* of the file: a subset of {"single", "bundle", "org"}
  Titles,     \* of headings
  Classify,   \* classify::heading: title -> [kind, tier]
  Levels,     \* of headings
  Texts,      \* texts between headings and fences
  Codes,      \* what fences enclose
  FrontText, ArtifactText, GateText, \* contents of the nodes no block makes
  None,       \* the empty content
  MaxBlocks,  \* bound: blocks of all documents of a file, by its form
  MaxSkills   \* bound: skills in a bundle

Tiers == 0 .. 2
Kinds == {"applicability", "prose", "contract", "segment", "resource", "binding"}

ASSUME CompileAssumption ==
  /\ Forms \subseteq {"single", "bundle", "org"}
  /\ Classify \in [Titles -> [kind : Kinds \ {"segment"}, tier : Tiers]]
  /\ \* the vocabulary sends nothing but applicability to the routing plane
     \A t \in Titles : Classify[t].tier = 0 => Classify[t].kind = "applicability"
  /\ Levels \subseteq 1 .. 6
  /\ MaxBlocks \in [Forms -> Nat] /\ MaxSkills \in Nat
  /\ None \notin Texts \cup {FrontText, ArtifactText, GateText}

VARIABLES
  form,
  docs,     \* the documents, as parsed: sequence of [front, blocks, adorned]
  pc,
  built,    \* Builder.nodes
  roots,    \* Builder.skills: the root of each document in `built`
  stack,    \* build_into: open sections as <<level, node, tier>>
  pending,  \* build_into: pending_payload, 0 for none
  fenced,   \* build_into: saw_fence_in_section
  order,    \* Builder::pre_order: built nodes in the order they are written
  todo,     \* the stack of pre_order, and that of render
  file,     \* what is written: [table, hot, cold, routing]
  printing, \* the document being rendered
  out       \* what render has printed

vars == <<form, docs, pc, built, roots, stack, pending, fenced, order, todo, file,
          printing, out>>
source == <<form, docs>>
building == <<built, roots>>
section == <<stack, pending, fenced>>
writing == <<order, file>>
rendering == <<printing, out>>

Node(kind, tier, role, name, payload, parent, depth) ==
  [kind |-> kind, tier |-> tier, role |-> role, name |-> name,
   payload |-> payload, parent |-> parent, depth |-> depth]

Synthetic == Node("prose", 0, "none", <<>>, None, 0, 0)
Charter == Node("prose", 0, "charter", <<>>, None, 1, 0)

NoFile == [table |-> <<>>, hot |-> <<>>, cold |-> <<>>, routing |-> <<>>]

Init ==
  /\ form \in Forms
  /\ docs = <<>>
  /\ pc = "skills"
  /\ built = CASE form = "single" -> <<>>
               [] form = "bundle" -> <<Synthetic>>
               [] form = "org" -> <<Synthetic, Charter>>
  /\ roots = <<>>
  /\ stack = <<>> /\ pending = 0 /\ fenced = FALSE
  /\ order = <<>> /\ todo = <<>> /\ file = NoFile
  /\ printing = 0 /\ out = <<>>
-----------------------------------------------------------------------------
(***************************************************************************)
(* Building the tree                                                       *)
(***************************************************************************)
Blocks == FlattenSeq([d \in DOMAIN docs |-> docs[d].blocks])
Doc == Last(docs)

\* The next document gets its root, and a node for its frontmatter.
BeginSkill ==
  /\ pc = "skills"
  /\ Len(docs) < (IF form = "single" THEN 1 ELSE MaxSkills)
  /\ \E front \in BOOLEAN, adorned \in IF form = "org" THEN BOOLEAN ELSE {FALSE} :
       LET root == Node("prose", 0, "root", <<>>, None, IF form = "single" THEN 0 ELSE 1, 0)
           at == Len(built) + 1
           matter == Node("applicability", 0, "frontmatter", <<>>, FrontText, at, 0)
       IN  /\ docs' = Append(docs, [front |-> front, blocks |-> <<>>, adorned |-> adorned])
           /\ built' = built \o (IF front THEN <<root, matter>> ELSE <<root>>)
           /\ roots' = Append(roots, at)
           /\ stack' = <<<<0, at, 0>>>>
  /\ pending' = 0 /\ fenced' = FALSE
  /\ pc' = "blocks"
  /\ UNCHANGED <<form, todo, writing, rendering>>

\* The parser can return this block after those it has returned.
Parsed(block) ==
  /\ pc = "blocks" /\ Len(Blocks) < MaxBlocks[form]
  /\ Doc.blocks # <<>> =>
       /\ ~(block.type = "text" /\ Last(Doc.blocks).type = "text")
       /\ ~(Last(Doc.blocks).type = "fence" /\ ~Last(Doc.blocks).closed)
  /\ docs' = [docs EXCEPT ![Len(docs)].blocks = Append(@, block)]
  /\ UNCHANGED <<form, pc, roots, todo, writing, rendering>>

Current == Last(stack)[2]
CurrentTier == Last(stack)[3]
Hotter(a, b) == IF a < b THEN b ELSE a

\* Sections a heading of this level closes; the root is never closed.
Closing(level) ==
  LET open == {i \in DOMAIN stack : i = 1 \/ \A j \in 2 .. i : stack[j][1] < level}
  IN  SubSeq(stack, 1, CHOOSE i \in open : \A j \in open : j <= i)

\* Faulty: a section hotter than the one it is in stays so.
SectionTierOwn(title, parent) == Classify[title].tier

\* A section is no hotter than the section it is in.
SectionTier(title, parent) == Hotter(Classify[title].tier, parent)

Heading(level, title) ==
  LET outer == Closing(level)
      tier == SectionTier(title, Last(outer)[3])
  IN  /\ Parsed([type |-> "heading", level |-> level, title |-> title])
      /\ built' = Append(built, Node(Classify[title].kind, tier, "section", <<title>>, None,
                                     Last(outer)[2], level))
      /\ stack' = Append(outer, <<level, Len(built'), tier>>)
      /\ pending' = Len(built')
      /\ fenced' = FALSE

\* Faulty: prose is as hot as the section it continues.
ContinuationTierOwn == CurrentTier

\* Prose never belongs in the routing plane.
ContinuationTier == Hotter(CurrentTier, 1)

\* Faulty: text after a fence still goes into its section.
TextIntoSection(content) ==
  /\ Parsed([type |-> "text", text |-> content])
  /\ IF pending = 0
     THEN /\ built' = Append(built, Node("prose", ContinuationTier, "continuation", <<>>,
                                         content, Current, 0))
          /\ UNCHANGED pending
     ELSE /\ built' = [built EXCEPT ![Current].payload = content]
          /\ pending' = 0
  /\ UNCHANGED <<stack, fenced>>

\* The first text of a section is its payload; later text is a node.
Text(content) ==
  /\ Parsed([type |-> "text", text |-> content])
  /\ IF fenced \/ pending = 0
     THEN /\ built' = Append(built, Node("prose", ContinuationTier, "continuation", <<>>,
                                         content, Current, 0))
          /\ UNCHANGED pending
     ELSE /\ built' = [built EXCEPT ![Current].payload = content]
          /\ pending' = 0
  /\ UNCHANGED <<stack, fenced>>

\* Both delimiter lines are the name of the node of a fence.
Fence(code, runs, closed) ==
  /\ Parsed([type |-> "fence", code |-> code, runs |-> runs, closed |-> closed])
  /\ built' = Append(built,
       Node(IF runs THEN "segment" ELSE "resource", 2,
            IF closed THEN "fence" ELSE "fenceUnclosed",
            <<runs, closed>>, code, Current, 0))
  /\ fenced' = TRUE
  /\ UNCHANGED <<stack, pending>>

\* The document is in; an organization hangs artifact and gate from a member.
EndSkill ==
  /\ pc = "blocks" /\ pc' = "skills"
  /\ built' = built \o
       (IF Doc.adorned
        THEN <<Node("binding", 1, "artifact", <<"artifact">>, ArtifactText, Last(roots), 0),
               Node("contract", 1, "gate", <<"gate">>, GateText, Last(roots), 0)>>
        ELSE <<>>)
  /\ UNCHANGED <<source, roots, section, todo, writing, rendering>>
-----------------------------------------------------------------------------
(***************************************************************************)
(* Writing the file                                                        *)
(***************************************************************************)
\* Nodes in the order of their numbers, as pre_order comes upon them.
Ascending(S) ==
  [k \in 1 .. Cardinality(S) |-> CHOOSE c \in S : Cardinality({d \in S : d < c}) = k - 1]

Kids(n) == Ascending({c \in DOMAIN built : built[c].parent = n})

\* pre_order takes one root only.
StartWrite ==
  /\ pc = "skills" /\ docs # <<>>
  /\ IF {n \in DOMAIN built : built[n].parent = 0} = {1}
     THEN pc' = "visit" /\ todo' = <<1>>
     ELSE pc' = "refused" /\ UNCHANGED todo
  /\ UNCHANGED <<source, building, section, writing, rendering>>

Visit ==
  /\ pc = "visit" /\ todo # <<>>
  /\ order' = Append(order, Last(todo))
  /\ todo' = Front(todo) \o Reverse(Kids(Last(todo)))
  /\ UNCHANGED <<source, pc, building, section, file, rendering>>

Rank(n) == CHOOSE i \in DOMAIN order : order[i] = n

WrittenParent(n) == IF built[n].parent = 0 THEN 0 ELSE Rank(built[n].parent)

\* Each content of a region is stored once, where it first occurs.
Stored(tiers) ==
  LET payload(i) == built[order[i]].payload
      placed == {i \in DOMAIN order : built[order[i]].tier \in tiers /\ payload(i) # None}
      first == Ascending({i \in placed : \A j \in placed : payload(j) = payload(i) => i <= j})
  IN  [k \in DOMAIN first |-> payload(first[k])]

Hot == Stored({0})
Cold == Stored({1, 2})

\* Faulty: a content already stored in the other region is found there.
OffsetAnywhere(n) ==
  IF built[n].payload = None THEN 0
  ELSE LET region == IF built[n].payload \in ToSet(Hot) THEN Hot ELSE Cold
       IN  CHOOSE at \in DOMAIN region : region[at] = built[n].payload

Offset(n) ==
  IF built[n].payload = None THEN 0
  ELSE LET region == IF built[n].tier = 0 THEN Hot ELSE Cold
       IN  CHOOSE at \in DOMAIN region : region[at] = built[n].payload

SubtreeHash(n, payload, kids) ==
  <<n.kind, n.tier, n.depth, n.role, n.name, payload, kids>>

\* Faulty: the children are hashed as pre_order stacks them, last to first.
BuiltHashBackwards ==
  LET hash[n \in DOMAIN built] ==
        SubtreeHash(built[n], built[n].payload,
                    [k \in DOMAIN Kids(n) |-> hash[Reverse(Kids(n))[k]]])
  IN  hash

\* hash_tree.  A node is built after its parent.
BuiltHash ==
  LET hash[n \in DOMAIN built] ==
        SubtreeHash(built[n], built[n].payload, [k \in DOMAIN Kids(n) |-> hash[Kids(n)[k]]])
  IN  hash

\* Faulty: only what can be run is committed to, and the root.
BoundaryAtSegments(n) == n = 1 \/ built[n].kind = "segment"

\* Nodes whose hash is kept: what can be fetched without fetching more.
Boundary(n) ==
  \/ n = 1 \/ built[n].kind = "segment"
  \/ built[n].tier > built[built[n].parent].tier

\* What the writer refuses of an order and a tree: nodes not reached, a root
\* outside the routing plane, a node hotter than its parent.
Unwritable ==
  \/ Len(order) # Len(built) \/ built[1].tier # 0
  \/ \E n \in 2 .. Len(built) : built[n].tier < built[built[n].parent].tier

\* Builder::build, once the order is known.
Entry(n) ==
  [kind |-> built[n].kind, tier |-> built[n].tier, role |-> built[n].role,
   name |-> built[n].name, depth |-> built[n].depth,
   parent |-> WrittenParent(n), offset |-> Offset(n),
   hash |-> IF Boundary(n) THEN BuiltHash[n] ELSE <<>>]

Written ==
  [table |-> [i \in DOMAIN order |-> Entry(order[i])], hot |-> Hot, cold |-> Cold,
   routing |-> [d \in DOMAIN roots |-> Rank(roots[d])]]

Write ==
  /\ pc = "visit" /\ todo = <<>>
  /\ IF Unwritable
     THEN pc' = "refused" /\ UNCHANGED file
     ELSE pc' = "open" /\ file' = Written
  /\ UNCHANGED <<source, building, section, order, todo, rendering>>
-----------------------------------------------------------------------------
(***************************************************************************)
(* Reading the file                                                        *)
(***************************************************************************)
ChildrenOf(i) == Ascending({c \in DOMAIN file.table : file.table[c].parent = i})

Payload(i) ==
  IF file.table[i].offset = 0 THEN None
  ELSE (IF file.table[i].tier = 0 THEN file.hot ELSE file.cold)[file.table[i].offset]

\* compute_subtree.
ReadHash ==
  LET hash[i \in DOMAIN file.table] ==
        SubtreeHash(file.table[i], Payload(i),
                    [k \in DOMAIN ChildrenOf(i) |-> hash[ChildrenOf(i)[k]]])
  IN  hash

StartRender(d) ==
  /\ pc = "open" /\ pc' = "render"
  /\ printing' = d
  /\ todo' = <<file.routing[d]>>
  /\ UNCHANGED <<source, building, section, writing, out>>

Printed(content) == IF content = None THEN <<>> ELSE <<[type |-> "text", text |-> content]>>

IsFence(i) == file.table[i].role \in {"fence", "fenceUnclosed"} \/ file.table[i].kind = "segment"

\* What emit_at prints of one node, other than its children.
Emitted(i) ==
  LET n == file.table[i]
  IN  IF i = file.routing[printing] THEN Printed(Payload(i))
      ELSE IF n.role = "frontmatter" THEN <<[type |-> "front"]>>
      ELSE IF IsFence(i)
      THEN <<[type |-> "fence", code |-> Payload(i), runs |-> n.name[1],
              closed |-> n.role # "fenceUnclosed" /\ n.name[2]]>>
      ELSE (IF n.role # "continuation" /\ n.depth > 0
            THEN <<[type |-> "heading", level |-> n.depth, title |-> n.name[1]]>>
            ELSE <<>>) \o Printed(Payload(i))

\* emit_at: frontmatter and fences return before their children are looked at.
EmitAt ==
  /\ pc = "render" /\ todo # <<>>
  /\ LET i == Last(todo)
         leaf == i # file.routing[printing] /\ (file.table[i].role = "frontmatter" \/ IsFence(i))
     IN  /\ out' = out \o Emitted(i)
         /\ todo' = Front(todo) \o (IF leaf THEN <<>> ELSE Reverse(ChildrenOf(i)))
  /\ UNCHANGED <<source, pc, building, section, writing, printing>>

EndRender ==
  /\ pc = "render" /\ todo = <<>> /\ pc' = "printed"
  /\ UNCHANGED <<source, building, section, todo, writing, rendering>>

Next ==
  \/ BeginSkill \/ EndSkill
  \/ \E l \in Levels, t \in Titles : Heading(l, t)
  \/ \E t \in Texts : Text(t)
  \/ \E c \in Codes, runs, closed \in BOOLEAN : Fence(c, runs, closed)
  \/ StartWrite \/ Visit \/ Write
  \/ \E d \in DOMAIN docs : StartRender(d)
  \/ EmitAt \/ EndRender

Spec == Init /\ [][Next]_vars
-----------------------------------------------------------------------------
(***************************************************************************)
(* Properties                                                              *)
(***************************************************************************)
TypeOK ==
  /\ pc \in {"skills", "blocks", "visit", "refused", "open", "render", "printed"}
  /\ \A n \in DOMAIN built : built[n].kind \in Kinds /\ built[n].tier \in Tiers
                             /\ built[n].parent \in 0 .. n-1
  /\ roots \in Seq(DOMAIN built) /\ pending \in {0} \cup DOMAIN built
  /\ fenced \in BOOLEAN
  /\ order \in Seq(DOMAIN built)
  /\ \A i \in DOMAIN file.table :
       LET region == IF file.table[i].tier = 0 THEN file.hot ELSE file.cold
       IN  file.table[i].offset \in {0} \cup DOMAIN region

\* Nodes on the way from i to the root, i included.
RootPath ==
  LET path[i \in DOMAIN file.table] ==
        {i} \cup (IF file.table[i].parent = 0 THEN {} ELSE path[file.table[i].parent])
  IN  path

\* What the reader's pass over the node table asks of it: each parent lies on the
\* path from the node before to the root, and tiers only grow (validate.rs:22-47).
InPreOrder(table) ==
  /\ table[1].parent = 0 /\ table[1].tier = 0
  /\ \A i \in 2 .. Len(table) :
       /\ table[i].parent \in RootPath[i-1]
       /\ table[i].tier >= table[table[i].parent].tier

\* Whatever sections are nested in whatever others, the compiler hands the writer
\* no tree the writer refuses, and the writer's renumbering, from a stack children
\* are pushed on backwards, makes no table the reader refuses (compile.rs:95-114,
\* 133, 165-169; writer.rs:279-290, 671-693).
NeverRefused == pc # "refused" /\ (pc = "open" => InPreOrder(file.table))

\* Every hash kept is the one a reader computes from the table and the regions,
\* though contents are shared and the nodes were renumbered (writer.rs:700-723,
\* lib.rs:385-427).
CommitmentsVerify ==
  pc = "open" =>
    LET read == ReadHash
    IN  \A i \in DOMAIN file.table :
          file.table[i].hash # <<>> => file.table[i].hash = read[i]

\* commitment_for: the nearest node at or above i whose hash is kept.
CommitmentFor ==
  LET above[i \in DOMAIN file.table] ==
        IF file.table[i].hash # <<>> THEN i ELSE above[file.table[i].parent]
  IN  above

\* A payload is verified without reading anything hotter than itself: the
\* commitment that covers a node is of the tier of that node (writer.rs:344-351).
VerifiedWithinTier ==
  pc = "open" =>
    LET covering == CommitmentFor
    IN  \A i \in DOMAIN file.table : file.table[covering[i]].tier = file.table[i].tier

\* The routing plane holds what routing reads: frontmatter and applicability,
\* never prose (compile.rs:123).
NoProseInRouting ==
  \A n \in DOMAIN built :
    built[n].tier = 0 /\ built[n].payload # None => built[n].kind = "applicability"

Source(d) == (IF docs[d].front THEN <<[type |-> "front"]>> ELSE <<>>) \o docs[d].blocks

\* Every document comes out of its file block for block as it went in, and
\* nothing of the other documents with it (render.rs:1-3).
RoundTrip ==
  pc = "printed" /\ ~docs[printing].adorned => out = Source(printing)

\* "renders the member's subtree back to Markdown and recompiles it, which is
\* byte-exact" (bin/skillc.rs:650-651), of any container, an organization too.
MemberRoundTrip == pc = "printed" => out = Source(printing)
=============================================================================
