------------------------------- MODULE Library -------------------------------
(***************************************************************************)
(* The skill server: `Library` (skill-mcp/src/library.rs), the tools that  *)
(* call it (server.rs), and `skillc plan`, which reads the same relations  *)
(* out of a container (skillc/src/bin/skillc.rs).                          *)
(*                                                                         *)
(* At start the files of a directory are sized and read one after another, *)
(* and their routing planes parsed once; anyone may write a new release    *)
(* over a file meanwhile.  Then clients call tools at the same time.  All  *)
(* of them read what is held; a search also takes the lock of the          *)
(* embedding model, which is loaded at the first search that needs it.     *)
(*                                                                         *)
(* A file is described by the book it was written from, and held as the    *)
(* tables a reader finds in it: the answers are computed from the tables   *)
(* as the code does, and judged by the book.                               *)
(***************************************************************************)
EXTENDS Integers, FiniteSets, SequencesExt

CONSTANTS
  Clients,
  Tools,      \* the tools each client may call
  Names,      \* names of skills
  Rank,       \* their alphabetical order
  Shelves,    \* the directories the server may find: sequences of files
  Releases,   \* the files that may be written over one of them
  MaxBytes,   \* MAX_LIBRARY_BYTES
  Queries, Limits,
  Lexical,    \* how the words of a query match a skill, 0..2
  Similar,    \* cosine of a query and a skill's vector, scaled to -2..2
  Wordless    \* queries without a term worth matching

NONE == "none"

\* A part of a skill lies under the skill's root (0) or under an earlier part.
Part == [role : {"section", "segment", "artifact", "gate"}, under : Nat]
Skill == [name : Names, parts : Seq(Part)]
Kinds == {"seq", "guards", "needs", "cites", "alt"}
\* An edge from skill to skill; an external one goes to a node of another file.
Edge == [kind : Kinds, from : Nat, to : Nat, external : BOOLEAN]
Book == [org : BOOLEAN,             \* the first skill is the charter
         skills : Seq(Skill), edges : SUBSET Edge,
         vectors : BOOLEAN, dict : BOOLEAN,
         altered : SUBSET Nat,      \* nodes with a payload not as committed
         health : {"sound", "unreadable", "refused", "frame"}]
Holds(b, k, role) == \E p \in DOMAIN b.skills[k].parts : b.skills[k].parts[p].role = role

\* What the writers make and the reader insists on: an entry at least (writer.rs
\* 498), parents before children, both ends of an edge parts of this file unless
\* it cites another, a gate to guard from and an artifact to need (org.rs 342-378).
WellFormed(b) ==
  /\ b.skills # << >>
  /\ \A k \in DOMAIN b.skills : \A p \in DOMAIN b.skills[k].parts :
       b.skills[k].parts[p].under < p
  /\ \A e \in b.edges :
       /\ e.from \in DOMAIN b.skills
       /\ IF e.external THEN e.kind = "cites" ELSE e.to \in DOMAIN b.skills
       /\ e.kind = "guards" => Holds(b, e.from, "gate")
       /\ e.kind = "needs" => Holds(b, e.to, "artifact")

File == [size : Nat, book : {b \in Book : WellFormed(b)}]

ASSUME LibraryAssumption ==
  /\ Tools \in [Clients -> SUBSET {"search", "load", "segments", "org", "plan"}]
  /\ Rank \in [Names -> Nat]
  /\ Lexical \in [Queries -> [Names -> 0..2]]
  /\ Similar \in [Queries -> [Names -> -2..2]]
  /\ Wordless \subseteq Queries
  /\ Limits \subseteq 1..200
  /\ MaxBytes \in Nat
  /\ Shelves \subseteq Seq(File) /\ Releases \subseteq File
  /\ Names \cap {NONE, "node"} = {} /\ Clients \cap {"free", "poisoned"} = {}

VARIABLES
  files,      \* the directory
  released,   \* whether one of them has been written over
  pc,         \* where the start stands, "serving" or "refused"
  total,      \* bytes counted from the sizes, until the files are read
  held,       \* the containers in memory
  catalogue,  \* of what container each skill is, and its name
  vectors,    \* whose vector stands beside each
  model,      \* whether the embedding model is loaded
  lock,       \* "free", "poisoned", or the client that holds the model
  call        \* what each client has called, and its answer

opened == <<files, released, pc, total, held, catalogue, vectors>>
vars == <<opened, model, lock, call>>

Idle == [tool |-> NONE, query |-> NONE, limit |-> 0, name |-> NONE,
         at |-> "idle", semantic |-> << >>, answer |-> NONE]

Init ==
  /\ files \in Shelves
  /\ released = FALSE
  /\ pc = "metadata"
  /\ total = 0
  /\ held = << >>
  /\ catalogue = << >> /\ vectors = << >>
  /\ model = FALSE
  /\ lock = "free"
  /\ call = [c \in Clients |-> Idle]

-----------------------------------------------------------------------------
(* The tables of a file. *)

Routing == {"bundle", "charter", "skill"}   \* roles of the routing tier

\* The nodes of the first n skills, each its root and its parts.
NodesUpTo(b, n) == UNION {{j} \X (0 .. Len(b.skills[j].parts)) : j \in 1 .. n}

\* The node of the root of skill k: after the bundle's own and all those before.
Place(b, k) == 2 + Cardinality(NodesUpTo(b, k - 1))

NodesOf(b) ==
  <<[parent |-> 0, role |-> "bundle"]>> \o
  FlattenSeq([k \in DOMAIN b.skills |->
    <<[parent |-> 1, role |-> IF b.org /\ k = 1 THEN "charter" ELSE "skill"]>> \o
    [p \in DOMAIN b.skills[k].parts |->
       [parent |-> Place(b, k) + b.skills[k].parts[p].under,
        role |-> b.skills[k].parts[p].role]]])

PartOf(b, k, role) ==
  Place(b, k) + SelectInSeq(b.skills[k].parts, LAMBDA p : p.role = role)

\* A gate guards from its own node, and NEEDS ends at the artifact.
Source(b, e) ==
  IF e.kind = "guards" THEN PartOf(b, e.from, "gate") ELSE Place(b, e.from)
Target(b, e) ==
  IF e.external THEN e.to
  ELSE IF e.kind = "needs" THEN PartOf(b, e.to, "artifact") ELSE Place(b, e.to)

\* The first n of a set in an order: the one that i - 1 come before is at place i.
Foremost(n, S, Before(_, _)) ==
  LET placed == {<<k, Cardinality({j \in S : Before(j, k)})>> : k \in S}
  IN  [i \in 1 .. n |-> CHOOSE k \in S : <<k, i - 1>> \in placed]

\* The segment records, in the order of the nodes; each by its own node.
RecordsOf(b) ==
  LET nodes == NodesOf(b)
      segments == {i \in DOMAIN nodes : nodes[i].role = "segment"}
  IN  Foremost(Cardinality(segments), segments, LAMBDA i, j : i < j)

Written(b) ==
  [book |-> b,
   entries |-> [k \in DOMAIN b.skills |->
                  [name |-> b.skills[k].name, root |-> Place(b, k)]],
   nodes |-> NodesOf(b),
   edges |-> {[kind |-> e.kind, src |-> Source(b, e), dst |-> Target(b, e)] :
                e \in b.edges},
   records |-> RecordsOf(b)]

-----------------------------------------------------------------------------
(* Library::open *)

\* The size counted is the one the file has now, or nothing if it cannot be
\* had; the file is read afterwards.
Metadata ==
  /\ pc = "metadata"
  /\ Len(held) < Len(files)
  /\ \E n \in {0, files[Len(held) + 1].size} : total' = total + n
  /\ pc' = IF total' > MaxBytes THEN "refused" ELSE "read"
  /\ UNCHANGED <<files, released, held, catalogue, vectors, model, lock, call>>

Read ==
  /\ pc = "read"
  /\ \/ /\ held' = Append(held, Written(files[Len(held) + 1].book))
        /\ pc' = "metadata"
     \/ pc' = "refused" /\ UNCHANGED held
  /\ UNCHANGED <<files, released, total, catalogue, vectors, model, lock, call>>

\* Faulty: a container without vectors takes no place among them.
VectorsBeside(f) ==
  IF f.book.vectors THEN [k \in DOMAIN f.entries |-> f.entries[k].name]
  ELSE << >>

\* The vector beside each skill of a container, or NONE where it has none.
VectorsOf(f) ==
  [k \in DOMAIN f.entries |-> IF f.book.vectors THEN f.entries[k].name ELSE NONE]

Parse ==
  /\ pc = "metadata"
  /\ Len(held) = Len(files)
  /\ IF held = << >> \/ \E i \in DOMAIN held : held[i].book.health = "unreadable"
     THEN pc' = "refused" /\ UNCHANGED <<catalogue, vectors>>
     ELSE /\ pc' = "serving"
          /\ catalogue' = FlattenSeq([i \in DOMAIN held |->
                            [k \in DOMAIN held[i].entries |->
                               [container |-> i, name |-> held[i].entries[k].name]]])
          /\ vectors' = FlattenSeq([i \in DOMAIN held |-> VectorsOf(held[i])])
  /\ total' = 0
  /\ UNCHANGED <<files, released, held, model, lock, call>>

\* A new release is written over a file, at any time.
Release ==
  /\ ~ released
  /\ released' = TRUE
  /\ \E i \in DOMAIN files, f \in Releases : files' = [files EXCEPT ![i] = f]
  /\ UNCHANGED <<pc, total, held, catalogue, vectors, model, lock, call>>

-----------------------------------------------------------------------------
(* Calls.  Each client makes one. *)

Ask(c) ==
  /\ pc = "serving"
  /\ call[c].at = "idle"
  /\ \/ /\ "search" \in Tools[c]
        /\ \E q \in Queries, n \in Limits :
             call' = [call EXCEPT ![c] =
               [@ EXCEPT !.tool = "search", !.query = q, !.limit = n, !.at = "match"]]
     \/ \E tool \in Tools[c] \cap {"load", "segments", "org"}, n \in Names :
          call' = [call EXCEPT ![c] =
            [@ EXCEPT !.tool = tool, !.name = n, !.at = "called"]]
     \/ \E tool \in Tools[c] \cap {"org", "plan"} :
          call' = [call EXCEPT ![c] = [@ EXCEPT !.tool = tool, !.at = "called"]]
  /\ UNCHANGED <<opened, model, lock>>

Reply(c, a) == call' = [call EXCEPT ![c] = [@ EXCEPT !.at = "answered", !.answer = a]]
Fail(c, why) == call' = [call EXCEPT ![c] = [@ EXCEPT !.at = "failed", !.answer = why]]

Called(c, tool) == call[c].tool = tool /\ call[c].at = "called"

-----------------------------------------------------------------------------
(* search_weighted *)

Skills == DOMAIN catalogue
Zeros == [k \in Skills |-> 0]

\* The first so many of the skills that pass, in the order given.
Best(Passes(_), Before(_, _), limit) ==
  LET all == {k \in Skills : Passes(k)}
      n == Cardinality(all)
  IN  Foremost(IF n < limit THEN n ELSE limit, all, Before)

ByName(j, k) ==
  LET a == Rank[catalogue[j].name]
      b == Rank[catalogue[k].name]
  IN  a < b \/ (a = b /\ j < k)

\* A query without terms lists; one in a library with vectors goes on to the
\* model; any other is ranked by its words.
Match(c) ==
  /\ call[c].at = "match"
  /\ IF call[c].query \in Wordless
     THEN Reply(c, [hits |-> Best(LAMBDA k : TRUE, ByName, call[c].limit),
                    lexical |-> Zeros, semantic |-> Zeros])
     ELSE call' = [call EXCEPT ![c] =
            [@ EXCEPT !.semantic = Zeros,
                      !.at = IF \E k \in DOMAIN vectors : vectors[k] # NONE
                             THEN "lock" ELSE "rank"]]
  /\ UNCHANGED <<opened, model, lock>>

\* Faulty: who finds the lock poisoned waits for it.
LockWaiting(c) ==
  /\ call[c].at = "lock"
  /\ lock = "free"
  /\ lock' = c
  /\ call' = [call EXCEPT ![c].at = IF model THEN "embed" ELSE "load model"]
  /\ UNCHANGED <<opened, model>>

\* The lock of the model.  After a panic nobody gets it, or waits for it.
Lock(c) ==
  /\ call[c].at = "lock"
  /\ \/ /\ lock = "free"
        /\ lock' = c
        /\ call' = [call EXCEPT ![c].at = IF model THEN "embed" ELSE "load model"]
     \/ /\ lock = "poisoned"
        /\ call' = [call EXCEPT ![c].at = "rank"]
        /\ UNCHANGED lock
  /\ UNCHANGED <<opened, model>>

\* Faulty: a search that finds no model keeps the lock.
LoadModelHolding(c) ==
  /\ call[c].at = "load model"
  /\ \E loaded \in BOOLEAN :
       /\ model' = loaded
       /\ call' = [call EXCEPT ![c].at = IF loaded THEN "embed" ELSE "rank"]
  /\ UNCHANGED <<opened, lock>>

\* Embedder::new.  Without a model the search goes on without meaning, and
\* the next one tries again.
LoadModel(c) ==
  /\ call[c].at = "load model"
  /\ \E loaded \in BOOLEAN :
       /\ model' = loaded
       /\ call' = [call EXCEPT ![c].at = IF loaded THEN "embed" ELSE "rank"]
       /\ lock' = IF loaded THEN c ELSE "free"
  /\ UNCHANGED opened

Positive(n) == IF n > 0 THEN n ELSE 0

\* embed_one, and the similarity of every skill that has a vector; or an error,
\* which is no evidence for any; or a panic of the model's runtime.
Embed(c) ==
  /\ call[c].at = "embed"
  /\ \/ /\ call' = [call EXCEPT ![c] =
             [@ EXCEPT !.at = "rank",
                       !.semantic = [k \in Skills |->
                          IF k \notin DOMAIN vectors \/ vectors[k] = NONE THEN 0
                          ELSE Positive(Similar[call[c].query][vectors[k]])]]]
        /\ lock' = "free"
     \/ /\ call' = [call EXCEPT ![c].at = "rank"]
        /\ lock' = "free"
     \/ /\ call' = [call EXCEPT ![c].at = "lost"]
        /\ lock' = "poisoned"
  /\ UNCHANGED <<opened, model>>

\* The best of the scores, or nothing.
IsMost(m, score) ==
  /\ m = 0 \/ \E k \in Skills : score[k] = m
  /\ \A k \in Skills : score[k] <= m

\* A score as a share of the best one for this query, in halves.
Share(n, most) == IF most = 0 THEN 0 ELSE (2 * n) \div most

\* The blend, seven parts of meaning to three of words.
RankHits(c) ==
  /\ call[c].at = "rank"
  /\ LET sem == call[c].semantic
         lex == [k \in Skills |-> Lexical[call[c].query][catalogue[k].name]]
     IN  \E bestSem, bestLex \in 0..2 :
           /\ IsMost(bestSem, sem) /\ IsMost(bestLex, lex)
           /\ LET score == [k \in Skills |->
                     7 * Share(sem[k], bestSem) + 3 * Share(lex[k], bestLex)]
                  before(j, k) ==
                    score[j] > score[k] \/ (score[j] = score[k] /\ ByName(j, k))
              IN  Reply(c, [hits |-> Best(LAMBDA k : score[k] > 0, before, call[c].limit),
                            lexical |-> lex, semantic |-> sem])
  /\ UNCHANGED <<opened, model, lock>>

Search(c) == Match(c) \/ Lock(c) \/ LoadModel(c) \/ Embed(c) \/ RankHits(c)

-----------------------------------------------------------------------------
(* load, segments *)

\* `find`: the first container that lists the name, and the first entry there.
Listing(name) == {i \in DOMAIN held : \E e \in DOMAIN held[i].entries :
                                        held[i].entries[e].name = name}
Find(name) == CHOOSE i \in Listing(name) : \A j \in Listing(name) : i <= j
RootIn(f, name) == f.entries[SelectInSeq(f.entries, LAMBDA e : e.name = name)].root

\* The server has been given the dictionary its containers name.
Opens(f) == f.book.health # "refused"

\* The nodes from n up to the root of the file; a table that opened is a tree.
Upward(f, n) ==
  LET up[k \in DOMAIN f.nodes] ==
        {k} \cup (IF f.nodes[k].parent = 0 THEN {} ELSE up[f.nodes[k].parent])
  IN  up[n]

InSubtree(f, n, root) == root \in Upward(f, n)
Subtree(f, root) == {n \in DOMAIN f.nodes : InSubtree(f, n, root)}

\* Where the writer keeps a commitment: the root, segments, and where the tier
\* steps up.
Committed(f, n) ==
  \/ n = 1 \/ f.nodes[n].role = "segment"
  \/ f.nodes[n].role \notin Routing /\ f.nodes[f.nodes[n].parent].role \in Routing

CommitmentFor(f, n) ==
  CHOOSE m \in Upward(f, n) :
    Committed(f, m) /\ \A k \in Upward(f, n) : Committed(f, k) => k <= m

\* verified_payload: the whole subtree under the commitment is hashed.
Verifies(f, root) ==
  /\ f.book.health # "frame"
  /\ Subtree(f, CommitmentFor(f, root)) \cap f.book.altered = {}

Load(c) ==
  /\ Called(c, "load")
  /\ LET name == call[c].name
         f == held[Find(name)]
     IN  IF Listing(name) = {} THEN Fail(c, "absent")
         ELSE IF ~ Opens(f) THEN Fail(c, "open")
         ELSE IF ~ Verifies(f, RootIn(f, name)) THEN Fail(c, "verify")
         ELSE Reply(c, [from |-> Find(name), text |-> Subtree(f, RootIn(f, name))])
  /\ UNCHANGED <<opened, model, lock>>

\* Faulty: only the segments of the skill asked for are counted.
SegmentIndexWithin(f, n, root) ==
  Cardinality({m \in 1..n : f.nodes[m].role = "segment" /\ InSubtree(f, m, root)})

\* The records stand in the order of the segments, with no link to them.
SegmentIndex(f, n, root) ==
  Cardinality({m \in 1..n : f.nodes[m].role = "segment"})

Segments(c) ==
  /\ Called(c, "segments")
  /\ LET name == call[c].name
         f == held[Find(name)]
         root == RootIn(f, name)
     IN  IF Listing(name) = {} THEN Fail(c, "absent")
         ELSE IF ~ Opens(f) THEN Fail(c, "open")
         ELSE Reply(c, [from |-> Find(name),
                        segments |-> {<<n, f.records[SegmentIndex(f, n, root)]>> :
                          n \in {m \in Subtree(f, root) : f.nodes[m].role = "segment"}}])
  /\ UNCHANGED <<opened, model, lock>>

-----------------------------------------------------------------------------
(* organization, and `skillc plan` *)

\* The skill whose subtree holds a node, by the nearest routing root above it.
Owner(f, n) ==
  LET roots == {f.entries[k].root : k \in DOMAIN f.entries}
      above == IF n \in DOMAIN f.nodes THEN Upward(f, n) \cap roots ELSE {}
  IN  IF above = {} THEN "node"
      ELSE f.entries[SelectInSeq(f.entries, LAMBDA e :
             e.root \in above /\ \A r \in above : r <= e.root)].name

Relations(f, kind) ==
  {<<Owner(f, e.src), Owner(f, e.dst)>> : e \in {x \in f.edges : x.kind = kind}}

\* payload_with_role: the first such node of the subtree that can be read.
WithRole(f, root, role) ==
  LET there == {n \in Subtree(f, root) : f.nodes[n].role = role}
  IN  IF there = {} \/ f.book.health = "frame" THEN 0
      ELSE CHOOSE n \in there : \A m \in there : n <= m

Chartered(f) == f.nodes[f.entries[1].root].role = "charter"

MembersOf(f) ==
  [k \in 1 .. Len(f.entries) - (IF Chartered(f) THEN 1 ELSE 0) |->
     LET e == f.entries[IF Chartered(f) THEN k + 1 ELSE k]
     IN  [name |-> e.name, artifact |-> WithRole(f, e.root, "artifact"),
          gate |-> WithRole(f, e.root, "gate")]]

\* Without a name the first container is meant; a name is a skill's.
Organization(c) ==
  /\ Called(c, "org")
  /\ LET name == call[c].name
         i == IF name = NONE THEN 1 ELSE Find(name)
         f == held[i]
     IN  IF name # NONE /\ Listing(name) = {} THEN Fail(c, "absent")
         ELSE IF ~ Opens(f) THEN Fail(c, "open")
         ELSE Reply(c, [from |-> i, members |-> MembersOf(f),
                        gates |-> Relations(f, "guards"),
                        handoffs |-> Relations(f, "needs"),
                        rework |-> Relations(f, "cites"),
                        flat |-> Relations(f, "guards") \cup Relations(f, "needs") = {}])
  /\ UNCHANGED <<opened, model, lock>>

\* `plan` opens the first file without a dictionary, looks at an edge's target
\* without asking whether it is a node of this file, and says no more of a
\* container without a pipeline or gates.
Plan(c) ==
  /\ Called(c, "plan")
  /\ LET f == held[1]
         flat == Relations(f, "seq") \cup Relations(f, "guards") = {}
     IN  IF ~ Opens(f) \/ f.book.dict THEN Fail(c, "open")
         ELSE IF \E e \in f.edges : e.dst \notin DOMAIN f.nodes THEN Fail(c, "crash")
         ELSE Reply(c, [from |-> 1, flat |-> flat,
                        members |-> IF flat THEN << >> ELSE MembersOf(f),
                        gates |-> IF flat THEN {} ELSE Relations(f, "guards"),
                        handoffs |-> IF flat THEN {} ELSE Relations(f, "needs"),
                        rework |-> IF flat THEN {} ELSE Relations(f, "cites")])
  /\ UNCHANGED <<opened, model, lock>>

-----------------------------------------------------------------------------
Open == Metadata \/ Read \/ Parse

Serve(c) == Search(c) \/ Load(c) \/ Segments(c) \/ Organization(c) \/ Plan(c)

Next == Open \/ Release \/ \E c \in Clients : Ask(c) \/ Serve(c)

\* A search has a thread of its own, and a call of the model ends.
Spec == Init /\ [][Next]_vars /\ \A c \in Clients : WF_call(Search(c))

-----------------------------------------------------------------------------
Answered(c, tool) == call[c].tool = tool /\ call[c].at = "answered"

TypeOK ==
  /\ pc \in {"metadata", "read", "serving", "refused"}
  /\ total \in Nat /\ (pc # "refused" => total <= MaxBytes)
  /\ Len(vectors) = Len(catalogue)
  /\ lock \in Clients \cup {"free", "poisoned"}
  /\ \A c \in Clients :
       /\ call[c].at \in {"idle", "called", "match", "lock", "load model", "embed",
                          "rank", "answered", "failed", "lost"}
       /\ (lock = c) <=> call[c].at \in {"load model", "embed"}
       /\ call[c].at = "embed" => model

\* What a skill is worth to a query, from its own words and its own vector; the
\* vector counts nothing when the model could not be used.
Worth(c, k, meant) ==
  LET q == call[c].query
      s == catalogue[k]
  IN  [lexical |-> Lexical[q][s.name],
       semantic |-> IF meant /\ held[s.container].book.vectors
                    THEN Positive(Similar[q][s.name]) ELSE 0]

(***************************************************************************)
(* A search reports on every hit what that skill's own words and own       *)
(* vector are worth, whatever containers lie before it in the catalogue    *)
(* and whether they carry vectors; the meaning is used for all skills or   *)
(* for none; nothing irrelevant is reported; and no skill that beats a hit *)
(* on either count and is not beaten on the other is left out or comes     *)
(* after it (library.rs 156-176, 222-271, 318-349).                        *)
(***************************************************************************)
SearchTrue ==
  \A c \in Clients : Answered(c, "search") /\ call[c].query \notin Wordless =>
    LET a == call[c].answer
        Better(j, k) ==
          /\ a.lexical[j] >= a.lexical[k] /\ a.semantic[j] >= a.semantic[k]
          /\ a.lexical[j] > a.lexical[k] \/ a.semantic[j] > a.semantic[k]
    IN  /\ \E meant \in BOOLEAN : \A k \in Skills :
             [lexical |-> a.lexical[k], semantic |-> a.semantic[k]] = Worth(c, k, meant)
        /\ \A i \in DOMAIN a.hits :
             /\ a.lexical[a.hits[i]] + a.semantic[a.hits[i]] > 0
             /\ \A j \in Skills : Better(j, a.hits[i]) =>
                  \E l \in 1 .. i - 1 : a.hits[l] = j

\* The skill a tool is asked for: the first so called, in the first container
\* that has one.
Carries(i, name) ==
  \E k \in DOMAIN held[i].book.skills : held[i].book.skills[k].name = name
Meant(i, name) == Carries(i, name) /\ \A j \in 1 .. i - 1 : ~ Carries(j, name)

NodesOfSkill(b, k) == Place(b, k) .. Place(b, k) + Len(b.skills[k].parts)
SkillAt(b, name) == SelectInSeq(b.skills, LAMBDA s : s.name = name)

LoadTrue ==
  \A c \in Clients : Answered(c, "load") =>
    LET b == held[call[c].answer.from].book
    IN  /\ Meant(call[c].answer.from, call[c].name)
        /\ call[c].answer.text = NodesOfSkill(b, SkillAt(b, call[c].name))
        /\ call[c].answer.text \cap b.altered = {}

SegmentsTrue ==
  \A c \in Clients : Answered(c, "segments") =>
    LET b == held[call[c].answer.from].book
        k == SkillAt(b, call[c].name)
    IN  /\ Meant(call[c].answer.from, call[c].name)
        /\ call[c].answer.segments =
             {<<Place(b, k) + p, Place(b, k) + p>> :
                p \in {q \in DOMAIN b.skills[k].parts :
                         b.skills[k].parts[q].role = "segment"}}

\* The relations the book has, by the names of its skills.
Related(b, kind) ==
  {<<b.skills[e.from].name, b.skills[e.to].name>> :
     e \in {x \in b.edges : x.kind = kind /\ ~ x.external}}

OwnPart(b, k, role) ==
  IF Holds(b, k, role) THEN PartOf(b, k, role) ELSE 0

RelationsTrue ==
  \A c \in Clients : Answered(c, "org") \/ Answered(c, "plan") =>
    LET a == call[c].answer
        b == held[a.from].book
        first == IF b.org THEN 1 ELSE 0
    IN  /\ call[c].name # NONE => Meant(a.from, call[c].name)
        /\ a.flat => Related(b, "guards") = {}
        /\ Answered(c, "plan") /\ a.flat => Related(b, "seq") = {}
        /\ ~ (Answered(c, "plan") /\ a.flat) =>
             /\ a.gates = Related(b, "guards") /\ a.handoffs = Related(b, "needs")
             /\ Related(b, "cites") \subseteq a.rework
             /\ (\A e \in b.edges : ~ e.external) => a.rework = Related(b, "cites")
             /\ [k \in DOMAIN a.members |-> a.members[k].name]
                  = [k \in 1 .. Len(b.skills) - first |-> b.skills[k + first].name]
             /\ b.health # "frame" =>
                  \A k \in DOMAIN a.members : \A role \in {"artifact", "gate"} :
                    a.members[k][role] = OwnPart(b, k + first, role)

(***************************************************************************)
(* What the tools say of a container is what was compiled into it: a skill *)
(* loaded is that skill, all of it and no more, and verified; a segment    *)
(* comes with its own record and not a neighbour's; members are named in   *)
(* their order with their own artifact and gate, and both readers of the   *)
(* edges name for each end the skill that holds it (library.rs 357-545,    *)
(* skillc.rs 722-803).  The target of an external edge is the exception:   *)
(* it is reported as a node of this file.                                  *)
(***************************************************************************)
ToolsAnswerTruly == LoadTrue /\ SegmentsTrue /\ RelationsTrue

(***************************************************************************)
(* Every search is answered, except one the model's runtime panics in: a   *)
(* model that cannot be loaded, that fails, or that is locked for ever by  *)
(* an earlier panic costs the meaning and never the answer                 *)
(* (library.rs 318-349).                                                   *)
(***************************************************************************)
SearchAnswered ==
  \A c \in Clients : call[c].at = "match" ~> call[c].at \in {"answered", "lost"}
=============================================================================
