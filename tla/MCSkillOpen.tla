----------------------------- MODULE MCSkillOpen -----------------------------
(***************************************************************************)
(* Two releases v1 and v2 of a container with one node in the HOT region   *)
(* and two in the COLD one, whose commitments cover the hot node with      *)
(* everything below it and each cold node alone.  A file whose header is   *)
(* v1's, by families:                                                      *)
(*   - up to two of its blocks are v2's or damaged, or a region has bytes  *)
(*     left over, for each shape, policy and dictionary;                   *)
(*   - up to two of its payloads are;                                      *)
(*   - its header is at fault, or its publisher left a flaw;               *)
(*   - it is intact, with every node table of up to two payloads, and with *)
(*     every one of three payloads in the HOT region.                      *)
(***************************************************************************)
EXTENDS SkillOpen, TLC

CONSTANTS v1, v2, broken, k1, k2, dct, h, c1, c2

MCRegionOf == (h :> "hot") @@ (c1 :> "cold") @@ (c2 :> "cold")
MCCovers == (h :> {h, c1, c2}) @@ (c1 :> {c1}) @@ (c2 :> {c2})

Plain == [tables |-> "raw", zstd |-> {}, dict |-> FALSE, vectors |-> FALSE,
          signers |-> {}, flaw |-> NONE]
Mapped == [Plain EXCEPT !.zstd = {"cold"}, !.tables = "zstd", !.signers = {k1}]
Compact == [Plain EXCEPT !.zstd = Regions, !.tables = "zstd", !.dict = TRUE,
                         !.vectors = TRUE, !.signers = {k1, k2}]
Searchable == [Plain EXCEPT !.vectors = TRUE]

Whole ==
  [header |-> v1, fault |-> NONE, sigs |-> v1, routing |-> v1, vectors |-> v1,
   manifest |-> v1, payload |-> [p \in Payloads |-> v1],
   zero |-> [r \in Regions |-> TRUE]]

Else == {v2, broken}

\* These files, and each with one more of its blocks changed.
Altered(S) ==
  S \cup {[f EXCEPT !.sigs = b] : f \in S, b \in Else}
    \cup {[f EXCEPT !.routing = b] : f \in S, b \in Else}
    \cup {[f EXCEPT !.vectors = b] : f \in S, b \in Else}
    \cup {[f EXCEPT !.manifest = b] : f \in S, b \in Else}
    \cup {[f EXCEPT !.zero[r] = FALSE] : f \in S, r \in Regions}

Repaid(S) == S \cup {[f EXCEPT !.payload[p] = b] : f \in S, p \in Payloads, b \in Else}

Shapes(S, T) == {(v1 :> a) @@ (v2 :> b) : a \in S, b \in T}
Alike == {(v1 :> a) @@ (v2 :> a) : a \in {Plain, Mapped, Compact, Searchable}}

Anyone == [keys |-> {}, require |-> FALSE]
Policies == {Anyone, [keys |-> {k1}, require |-> FALSE],
             [keys |-> {k1}, require |-> TRUE], [keys |-> {k2}, require |-> TRUE]}

Open(files, shapes, policies, dicts, nodeTables) ==
  [file : files, shape : shapes, policy : policies, dict : dicts,
   nodes : nodeTables, regionLen : {[c \in {0, 1} |-> Top - 1]}]

Blocks ==
  Open(Altered(Altered({Whole})),
       Alike \cup Shapes({Mapped}, {Compact, [Mapped EXCEPT !.signers = {k2}]}),
       Policies, {NONE, dct}, {<< >>})
Repayloads ==
  Open(Repaid(Repaid({Whole})), Alike, {Anyone}, {dct}, {<< >>})
Faulted ==
  Open({[Whole EXCEPT !.fault = f] : f \in Faults},
       Alike, Policies, {dct}, {<< >>})
Flawed ==
  Open({Whole},
       Shapes({[s EXCEPT !.flaw = f] : s \in {Mapped, Compact}, f \in Flaws},
              {Plain}), {Anyone}, {NONE, "other", dct}, {<< >>})

Tables(n, S) == UNION {[1..i -> S] : i \in 0..n}
Hot == {n \in PayloadOf : n.cold = 0 /\ n.len > 0 /\ n.off + n.len < Top}
Ranged ==
  Open({Whole}, Shapes({Plain}, {Plain}), {Anyone}, {NONE},
       Tables(2, PayloadOf) \cup [1..3 -> Hot])

MCOpenings == Blocks \cup Repayloads \cup Faulted \cup Flawed \cup Ranged
Threads == Permutations(Readers)
=============================================================================
