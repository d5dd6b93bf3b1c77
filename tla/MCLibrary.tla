------------------------------ MODULE MCLibrary ------------------------------
(***************************************************************************)
(* Directories of one or two files out of: an organization of three, with  *)
(* a segment in two of its members, every kind of edge, and two skills     *)
(* that bundles also have; bundles with and without vectors and with an    *)
(* edge out of the file; and files that do not read, open or verify.       *)
(* An organization, or a file that cannot be read, may be released over    *)
(* one of them.                                                            *)
(***************************************************************************)
EXTENDS Library

CONSTANTS q1, q2, blank, x, y

P(role, under) == [role |-> role, under |-> under]
S(name, parts) == [name |-> name, parts |-> parts]
E(kind, from, to) == [kind |-> kind, from |-> from, to |-> to, external |-> FALSE]
B(skills, edges, meaning) ==
  [org |-> FALSE, skills |-> skills, edges |-> edges, vectors |-> meaning,
   dict |-> FALSE, altered |-> {}, health |-> "sound"]

Pair == <<S("ship", <<P("section", 0), P("segment", 1), P("segment", 0)>>),
          S("test", <<P("segment", 0)>>)>>
Guild ==
  [B(<<S("guild", << >>),
       S("plan", <<P("section", 0), P("segment", 1), P("artifact", 0)>>),
       S("test", <<P("segment", 0), P("gate", 0)>>),
       S("ship", <<P("section", 0), P("artifact", 0), P("gate", 0)>>)>>,
     {E("seq", 2, 3), E("seq", 3, 4), E("guards", 3, 4), E("needs", 4, 2),
      E("cites", 4, 2), E("alt", 2, 4)}, TRUE) EXCEPT !.org = TRUE]
Row == [B(<<S("guild", << >>), S("plan", << >>), S("test", << >>)>>,
          {E("seq", 2, 3)}, TRUE) EXCEPT !.org = TRUE, !.dict = TRUE]
Plain == B(Pair, {}, FALSE)
Citing(n) == B(Pair, {[kind |-> "cites", from |-> 1, to |-> n, external |-> TRUE]}, TRUE)
With(b, health) == [b EXCEPT !.health = health]
Spoilt == [Plain EXCEPT !.altered = {4}]

F(b, n) == [size |-> n, book |-> b]
MCShelves ==
  {<< >>, <<F(Plain, 3), F(Guild, 3)>>}
    \cup {<<F(b, 2)>> : b \in {Guild, Row, Citing(2), Citing(50), Spoilt,
                               With(Plain, "refused"), With(Guild, "frame")}}
    \cup {<<F(Plain, 2), F(b, 2)>> : b \in {Guild, Citing(2)}}
MCReleases == {F(Guild, 3), F(With(Guild, "unreadable"), 2)}

MCTools == [c \in {x, y} |-> IF c = x THEN {"search"}
                            ELSE {"search", "load", "segments", "org", "plan"}]

MCNames == {"guild", "plan", "test", "ship", "nobody"}
MCRank == [n \in MCNames |-> CASE n = "guild" -> 1 [] n = "nobody" -> 2
                               [] n = "plan" -> 3 [] n = "ship" -> 4 [] n = "test" -> 5]
MCLexical == [k \in {q1, q2, blank} |-> [n \in MCNames |->
               IF k = blank THEN 0 ELSE IF n = "ship" THEN 2
               ELSE IF k = q2 /\ n = "plan" THEN 1 ELSE 0]]
MCSimilar == [k \in {q1, q2, blank} |-> [n \in MCNames |->
               IF k = blank THEN 0 ELSE IF n = "test" THEN 2
               ELSE IF n = "ship" THEN (IF k = q1 THEN 1 ELSE -1)
               ELSE IF n = "guild" THEN -2 ELSE 0]]
=============================================================================
